--------------------------- MODULE PaymentMethods ---------------------------
(***************************************************************************)
(* The payment-method taxonomy (crate openfiat-taxonomy): the catalog a    *)
(* build ships and the replicated index of merchant-defined methods.  A    *)
(* definition's id is its author and a digest of the record; the digest is *)
(* a number here, because only its order matters: when a merchant's shelf  *)
(* is full the smallest ids stay.                                          *)
(***************************************************************************)
EXTENDS Wire, Integers, FiniteSets

CONSTANTS MaxMethodsPerMerchant,  \* MAX_METHODS_PER_MERCHANT
          Catalog                 \* the compiled rows: a set of records with
                                  \* fields slug and names (the skeletons of
                                  \* name and aliases)

Builtin == "builtin"

\* PaymentMethodRef: a row of a build, or a merchant's own definition.  Form
\* is checked, membership of the catalog is not.
BuiltinRef(slug) == <<Builtin, slug>>
MerchantRef(merchant, digest) == <<merchant, digest>>

Owner(ref) == IF ref[1] = Builtin THEN None ELSE ref[1]

IsSelectableBy(ref, merchant) == Owner(ref) \in {None, merchant}

\* skeleton and check_name keep what a reader sees: a name is its skeleton
\* and whether it can be drawn as a label at all.
NameOK(name) == ~name.hazard /\ name.skeleton /= ""

Collides(name) == \E row \in Catalog : name.skeleton \in row.names

MethodValid(e) == NameOK(e.name) /\ ~Collides(e.name)

MethodOf(e) == [merchant |-> e.wallet, name |-> e.name, category |-> e.category]

MethodRef(e) == MerchantRef(e.wallet, e.digest)

ForMerchant(methods, merchant) == {id \in DOMAIN methods : id[1] = merchant}

LargestHeld(methods, merchant) ==
    CHOOSE id \in ForMerchant(methods, merchant) :
        \A other \in ForMerchant(methods, merchant) : other[2] <= id[2]

ShelfFull(methods, merchant) ==
    Cardinality(ForMerchant(methods, merchant)) >= MaxMethodsPerMerchant

\* What a full shelf asks of a newcomer: to be smaller than the largest held.
Fits(methods, e) ==
    ShelfFull(methods, e.wallet) => e.digest < LargestHeld(methods, e.wallet)[2]

\* SignedPaymentMethodDefine::verify: the payload names the merchant its key derives to, and
\* that key signed it.
DefineVerifies(e) == SelfSigned(e)

\* apply_define answers Ok for a definition it already holds and for one it
\* stores.
CanDefine(methods, e) ==
    /\ DefineVerifies(e)
    /\ MethodValid(e)
    /\ MethodRef(e) \in DOMAIN methods \/ Fits(methods, e)

Defined(methods, e) ==
    IF MethodRef(e) \in DOMAIN methods THEN methods
    ELSE LET kept == IF ShelfFull(methods, e.wallet)
                     THEN Without(methods, {LargestHeld(methods, e.wallet)})
                     ELSE methods
         IN  Put(kept, MethodRef(e), MethodOf(e))

Apply(methods, e) == IF CanDefine(methods, e) THEN Defined(methods, e) ELSE methods

=============================================================================
