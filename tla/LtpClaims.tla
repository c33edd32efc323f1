----------------------------- MODULE LtpClaims -----------------------------
(***************************************************************************)
(* The reception-claim arithmetic of an LTP session state record           *)
(* (SessionStateRecord::InsertClaim and its relatives).  The code keeps a  *)
(* std::set of claims ordered by offset alone, so two claims never share   *)
(* an offset: a claim set is modelled as a function from offsets to        *)
(* lengths, and "insert" leaves an offset that is already there as it is.  *)
(***************************************************************************)
EXTENDS Integers, FiniteSetsExt, SequencesExt

CONSTANT WordMod      \* 2^32 in the code: claim lengths are uint32_t

ASSUME WordModAssumption == WordMod \in Nat \ {0}

NoClaims == [o \in {} |-> 0]

\* The insertion into a std::set or std::map: a key that is there keeps what
\* it has.
Insert(f, k, v) == [x \in DOMAIN f \union {k} |-> IF x \in DOMAIN f THEN f[x] ELSE v]

Upper(cl, o) == o + cl[o]

Bytes(cl) == UNION {o .. Upper(cl, o) - 1 : o \in DOMAIN cl}

\* (Mutant: the two ends may lie in different claims.)
BugInClaims(cl, off, len) ==
    /\ \E o \in DOMAIN cl : off \in o .. Upper(cl, o)
    /\ \E o \in DOMAIN cl : off + len \in o .. Upper(cl, o)

\* Both ends of the claim lie in one and the same recorded claim.
InClaims(cl, off, len) ==
    \E o \in DOMAIN cl : {off, off + len} \subseteq o .. Upper(cl, o)

Before(cl, o) == {p \in DOMAIN cl : p < o}

\* (Mutant: the gap in front of the first claim is not seen.)
BugLastUpper(cl, o) ==
    IF Before(cl, o) = {} THEN o ELSE Upper(cl, Max(Before(cl, o)))

\* What the loops over the ordered set carry along as the upper end of the
\* claim just before o, 0 at the first one.
LastUpper(cl, o) ==
    IF Before(cl, o) = {} THEN 0 ELSE Upper(cl, Max(Before(cl, o)))

\* The claim at o starts where the claim just before it ends.
Continues(cl, o) == Before(cl, o) # {} /\ LastUpper(cl, o) = o

\* "while (CompactClaims ());": every run of claims that touch becomes one.
\* A merge keeps the upper end of the later claim, so whether a claim
\* continues its predecessor does not change while others are merged.
CompactClaims(cl) ==
    LET starts == {o \in DOMAIN cl : ~Continues(cl, o)}
        run(o) == {e \in DOMAIN cl : e >= o /\ \A s \in starts : s <= o \/ s > e}
    IN  [o \in starts |-> Upper(cl, Max(run(o))) - o]

\* (Mutant: a claim that ends behind the new one is expanded as well.)
BugExpandable(cl, off) == {o \in DOMAIN cl : Upper(cl, o) >= off}

Expandable(cl, off) == {o \in DOMAIN cl : Upper(cl, o) = off}

InsertClaim(cl, off, len) ==
    CompactClaims(
        IF InClaims(cl, off, len) THEN cl
        ELSE IF Expandable(cl, off) # {}
             THEN [cl EXCEPT ![Min(Expandable(cl, off))] = @ + len]
             ELSE Insert(cl, off, len))

\* The value InsertClaim returns.
ClaimInserted(cl, off, len) ==
    /\ ~InClaims(cl, off, len)
    /\ Expandable(cl, off) # {} \/ off \notin DOMAIN cl

\* The order of the std::set: the one at i has i - 1 smaller ones.
Ascending(offsets) ==
    [i \in 1 .. Cardinality(offsets) |->
        CHOOSE o \in offsets : Cardinality({p \in offsets : p < o}) = i - 1]

\* The claims of a report are inserted in order until one is refused.
StoreClaims(cl, report) ==
    LET offs == Ascending(DOMAIN report)
        stored[i \in 0 .. Len(offs)] ==
            IF i = 0 THEN cl ELSE InsertClaim(stored[i - 1], offs[i], report[offs[i]])
        refused == {i \in 1 .. Len(offs) :
                       ~ClaimInserted(stored[i - 1], offs[i], report[offs[i]])}
    IN  stored[IF refused = {} THEN Len(offs) ELSE Min(refused)]

\* (Mutant: the last gap is forgotten.)
BugFindMissingClaims(cl) ==
    LET gaps == {o \in DOMAIN cl : LastUpper(cl, o) # o /\ \E p \in DOMAIN cl : p > o}
    IN  [u \in {LastUpper(cl, o) : o \in gaps} |->
            Min({o \in gaps : LastUpper(cl, o) = u}) - u]

\* The gaps in front of the claims, with the unsigned subtraction of the
\* code; of two gaps with one offset the first is kept.
FindMissingClaims(cl) ==
    LET gaps == {o \in DOMAIN cl : LastUpper(cl, o) # o}
        first(u) == Min({o \in gaps : LastUpper(cl, o) = u})
    IN  [u \in {LastUpper(cl, o) : o \in gaps} |-> (first(u) - u) % WordMod]
=============================================================================
