-------------------------- MODULE ServiceRegistry ---------------------------
(***************************************************************************)
(* The replicated registry of services (crate openfiat-registry): what a   *)
(* provider registers, keeps healthy and withdraws.  A registration is     *)
(* accepted on its own key; a health update and a withdrawal only on the   *)
(* key already on file.  And the fee it declares, settled in another token *)
(* at an oracle rate (settlement.rs): the quote a payer is given and the   *)
(* check every node makes of the commitment signed over it.                *)
(*                                                                         *)
(* A rate is the fraction rate.num / rate.den of settlement-token units    *)
(* per fee-token unit.  The code multiplies in f64 and takes the ceiling:  *)
(* the ceiling of the exact product here, moved by F64Error.               *)
(***************************************************************************)
EXTENDS Wire, Integers

CONSTANTS HealthThreshold,      \* expire_stale's threshold
          MaxQuoteValidity,     \* MAX_QUOTE_VALIDITY
          MaxClockSkew,         \* MAX_CLOCK_SKEW
          MaxAmount,            \* the largest base-unit count of an Amount
          F64Error(_, _)        \* F64Error(units, rate): what rounding the
                                \* product to f64 adds to its ceiling, the
                                \* same on every node

HealthState == {"Online", "Maintenance", "Degraded", "Offline"}

\* The service types the other registries tell apart.
ServiceKind == {"MarketData", "RiskIntelligence", "Notifications",
                "SnapshotProvider", "PublicRpc"}

\* Declared texts are abstracted to whether each passes its check:
\* check_text, check_website, is_unresolvable and Cid::parse.
Declared == {"absent", "wellformed", "malformed"}

\* `pricing' is None or a mint and an amount; `channel' is the one a
\* notification gateway serves.
ServiceRecord(Prov, Price, Chan, Time) ==
    [provider : Prov, stype : ServiceKind, branding : Declared \ {"malformed"},
     pricing : Price, channel : Chan, payout_wallet : BOOLEAN,
     health : HealthState, registered_at : Time, last_health_update : Time]

\* ServiceBranding::validate: nothing declared may be malformed.
BrandingValid(e) == e.branding /= "malformed"

\* SignedRegistration::verify: a price needs a payout wallet, branding and
\* endpoints must pass their shape checks, and the provider must have signed.
RegistrationVerifies(e) ==
    /\ e.pricing /= None => e.payout_wallet
    /\ BrandingValid(e)
    /\ e.endpoints /= "malformed"
    /\ SelfSigned(e)

\* apply_registration: an id in use is updated only by its own provider.
CanRegister(services, e) ==
    /\ RegistrationVerifies(e)
    /\ e.id \in DOMAIN services => services[e.id].provider = e.wallet

\* into_record: a registration starts Online and replaces the whole record.
Registered(services, e) ==
    Put(services, e.id,
        [provider |-> e.wallet, stype |-> e.stype, branding |-> e.branding,
         pricing |-> e.pricing, channel |-> e.channel,
         payout_wallet |-> e.payout_wallet,
         health |-> "Online", registered_at |-> e.timestamp,
         last_health_update |-> e.timestamp])

\* The check apply_health_update and apply_withdrawal share.
OnFileProvider(services, e) ==
    e.id \in DOMAIN services /\ SignedBy(e, services[e.id].provider)

HealthUpdated(services, e) ==
    [services EXCEPT ![e.id].health = e.state,
                     ![e.id].last_health_update = e.timestamp]

Withdrawn(services, e) == Without(services, {e.id})

\* apply_event dispatches on the event type; a refusal changes nothing.
CanApply(services, e) ==
    CASE e.kind = "ServiceRegistered" -> CanRegister(services, e)
      [] e.kind \in {"ServiceUpdated", "ServiceUnregistered"} ->
            OnFileProvider(services, e)

Apply(services, e) ==
    IF ~CanApply(services, e) THEN services
    ELSE CASE e.kind = "ServiceRegistered"   -> Registered(services, e)
           [] e.kind = "ServiceUpdated"      -> HealthUpdated(services, e)
           [] e.kind = "ServiceUnregistered" -> Withdrawn(services, e)

\* expire_stale: services with no health update within the threshold go.
ExpireStale(services, now) ==
    Without(services, {id \in DOMAIN services :
        services[id].last_health_update < SaturatingSub(now, HealthThreshold)})

-----------------------------------------------------------------------------
(* Settling a fee                                                          *)

\* 10^n, for the few exponents an Amount's decimals differ by.
Pow10[n \in Nat] == IF n = 0 THEN 1 ELSE 10 * Pow10[n - 1]

CeilDiv(a, b) == (a + b - 1) \div b

\* convert: the fee in settlement-token base units; None for what an Amount
\* cannot hold.
Convert(amount, rate, decimals) ==
    LET up == Pow10[SaturatingSub(decimals, amount.decimals)]
        down == Pow10[SaturatingSub(amount.decimals, decimals)]
        units == CeilDiv(amount.units * rate.num * up, rate.den * down)
                   + F64Error(amount.units, rate)
    IN  IF units > MaxAmount THEN None ELSE [units |-> units, decimals |-> decimals]

Unsettleable(reason) == [status |-> "Unsettleable", reason |-> reason]

QuoteExpiry(feedExpiry, now) ==
    IF feedExpiry < now + MaxQuoteValidity THEN feedExpiry ELSE now + MaxQuoteValidity

\* ServicePricing::settle_in.  `read' is the oracle read in the shape
\* OracleIndex!AsSettlementRate gives it.
SettleIn(pricing, mint, decimals, read, now) ==
    CASE mint = pricing.mint -> [status |-> "Native", fee |-> pricing.amount]
      [] mint /= pricing.mint /\ read.found = "NoOracleData" ->
            Unsettleable("NoOracleData")
      [] mint /= pricing.mint /\ read.found = "StaleOracleData" ->
            Unsettleable("StaleOracleData")
      [] mint /= pricing.mint /\ read.found = "Available" ->
            LET expires == QuoteExpiry(read.expires_at, now)
                amount == Convert(pricing.amount, read.rate, decimals)
            IN  CASE read.rate.num <= 0 -> Unsettleable("RateOutOfRange")
                  [] read.rate.num > 0 /\ expires <= now ->
                        Unsettleable("StaleOracleData")
                  [] read.rate.num > 0 /\ expires > now /\ amount = None ->
                        Unsettleable("AmountOutOfRange")
                  [] OTHER -> [status |-> "Settleable", fee |-> pricing.amount,
                               fee_mint |-> pricing.mint, settlement_mint |-> mint,
                               amount |-> amount, rate |-> read.rate,
                               quoted_at |-> now, expires_at |-> expires]

\* The commitment a payer signs over a quote it was given.
Commitment(payer, quote) ==
    [payer |-> payer, signer |-> payer, fee |-> quote.fee,
     fee_mint |-> quote.fee_mint, settlement_mint |-> quote.settlement_mint,
     amount |-> quote.amount, rate |-> quote.rate,
     quoted_at |-> quote.quoted_at, expires_at |-> quote.expires_at]

\* Mutant: a verifier whose clock lags refuses a fresh quote.
WindowWithoutSkew(s, now) ==
    /\ s.expires_at >= s.quoted_at
    /\ s.expires_at - s.quoted_at <= MaxQuoteValidity
    /\ s.expires_at <= now + MaxQuoteValidity

\* The two bounds on the window: its length, and how far ahead of the
\* verifier's own clock it may end.
WindowPermitted(s, now) ==
    /\ s.expires_at >= s.quoted_at
    /\ s.expires_at - s.quoted_at <= MaxQuoteValidity
    /\ s.expires_at <= now + MaxQuoteValidity + MaxClockSkew

\* SignedFeeSettlement::accepts, against the pricing the verifier has on
\* file: None when the service declares no price.
AcceptsSettlement(s, pricing, now) ==
    /\ s.signer = s.payer
    /\ pricing /= None
    /\ pricing.mint = s.fee_mint /\ pricing.amount = s.fee
    /\ WindowPermitted(s, now)
    /\ now < s.expires_at
    /\ LET again == SettleIn(pricing, s.settlement_mint, s.amount.decimals,
                             [found |-> "Available", rate |-> s.rate,
                              expires_at |-> s.expires_at], s.quoted_at)
       IN  /\ again.status = "Settleable"
           /\ again.amount = s.amount
           /\ again.expires_at = s.expires_at

=============================================================================
