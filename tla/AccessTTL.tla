----------------------------- MODULE AccessTTL -----------------------------
(***************************************************************************)
(* resolveAccessTTL: the lifetime of an app access token, from the         *)
(* optional accessTtlSeconds of a login, issue form, pairing or refresh.   *)
(* A time.Duration is a signed word of nanoseconds, and so is the product  *)
(* it is compared with the limit by: it wraps around before it is          *)
(* compared.                                                               *)
(***************************************************************************)
EXTENDS Integers, TLAPS

CONSTANTS
    Half,       \* half the number of values of a word: 2^63
    Second,     \* time.Second, in nanoseconds
    Limit,      \* AppMaxAccessTTL
    Default     \* AppAccessTTL

VARIABLES
    asked,      \* accessTtlSeconds of the last token issued, or zero for none given
    ttl         \* its lifetime

vars == <<asked, ttl>>

Word == (-Half)..(Half - 1)
Wrapped(n) == ((n + Half) % (2 * Half)) - Half
Resolved(seconds) == Wrapped(seconds * Second)
Accepts(seconds) == seconds > 0 /\ Resolved(seconds) <= Limit

Init == asked = 0 /\ ttl = Default

IssueDefault == asked' = 0 /\ ttl' = Default

IssueRequested ==
    /\ asked' \in {q \in Word : Accepts(q)}
    /\ ttl' = Resolved(asked')

Next == IssueDefault \/ IssueRequested
Spec == Init /\ [][Next]_vars

-----------------------------------------------------------------------------
\* What the error message of server.go 1839 says: a request for more than the limit is
\* refused.
NothingAskedAboveLimit == asked * Second <= Limit

-----------------------------------------------------------------------------
Sound ==
    /\ Half \in Nat \ {0} /\ Second \in Nat \ {0}
    /\ Limit \in Word /\ Limit >= 0 /\ Default \in Word

\* A duration that fits is left as it is.
LEMMA WrappedIsExact ==
    ASSUME NEW h \in Nat \ {0}, NEW n \in 0..(h - 1)
    PROVE  ((n + h) % (2 * h)) - h = n
<1>1. n + h \in 0..(2 * h - 1)
  OBVIOUS
<1> DEFINE m == 2 * h
           x == n + h
<1>2. m \in Nat \ {0} /\ x \in 0..(m - 1)
  BY <1>1
<1> HIDE DEF m, x
<1>3. x % m = x
  BY <1>2
<1> QED BY <1>3 DEF m, x

\* A lifetime within the limit is given to the second, and a longer one is refused as
\* long as it fits into a duration: the wrap-around is the only way past the limit.
THEOREM ExactUnlessItWraps ==
    ASSUME Sound, NEW q \in Nat \ {0}, q * Second < Half
    PROVE  /\ Resolved(q) = q * Second
           /\ Accepts(q) <=> q * Second <= Limit
<1> DEFINE n == q * Second
<1>1. n \in 0..(Half - 1)
  <2>1. n \in Nat
    BY DEF Sound
  <2> QED BY <2>1 DEF Sound
<1>2. Wrapped(n) = n
  BY <1>1, WrappedIsExact DEF Wrapped, Sound
<1> QED BY <1>1, <1>2 DEF Resolved, Accepts

\* Whatever is multiplied, the product is a duration.
LEMMA WrappedIsWord ==
    ASSUME NEW h \in Nat \ {0}, NEW n \in Int
    PROVE  ((n + h) % (2 * h)) - h \in (-h)..(h - 1)
<1> DEFINE m == 2 * h
           x == n + h
<1>1. m \in Nat \ {0} /\ x \in Int
  OBVIOUS
<1> HIDE DEF m, x
<1>2. x % m \in 0..(m - 1)
  BY <1>1
<1> QED BY <1>2 DEF m, x

\* Every token's lifetime is the default one, or within the limit even after a
\* wrap-around; it is the one asked for unless that is too long for a duration.
LifetimeInv ==
    /\ asked \in Word /\ ttl \in Word
    /\ asked = 0 \/ asked > 0
    /\ asked = 0 => ttl = Default
    /\ asked > 0 => ttl <= Limit
    /\ asked > 0 /\ asked * Second < Half => ttl = asked * Second

THEOREM LifetimesAreBounded == ASSUME Sound PROVE Spec => []LifetimeInv
<1>1. 0 \in Word
  BY DEF Sound, Word
<1>2. ASSUME NEW q \in Word, q > 0
      PROVE  Resolved(q) \in Word /\ (q * Second < Half => Resolved(q) = q * Second)
  <2>1. q \in Nat \ {0} /\ q * Second \in Int
    BY <1>2 DEF Sound, Word
  <2>2. Resolved(q) \in Word
    BY <2>1, WrappedIsWord DEF Sound, Word, Resolved, Wrapped
  <2> QED
    BY <2>1, <2>2, ExactUnlessItWraps
<1>3. Init => LifetimeInv
  BY <1>1 DEF Init, LifetimeInv, Sound
<1>4. LifetimeInv /\ [Next]_vars => LifetimeInv'
  <2> SUFFICES ASSUME LifetimeInv, [Next]_vars PROVE LifetimeInv'
    OBVIOUS
  <2>1. CASE IssueDefault
    BY <1>1, <2>1 DEF IssueDefault, LifetimeInv, Sound
  <2>2. CASE IssueRequested
    <3>1. asked' \in Word /\ asked' > 0 /\ ttl' = Resolved(asked') /\ ttl' <= Limit
      BY <2>2 DEF IssueRequested, Accepts
    <3>2. ttl' \in Word /\ (asked' * Second < Half => ttl' = asked' * Second)
      BY <1>2, <3>1
    <3>3. asked' # 0
      BY <3>1
    <3> QED
      BY <3>1, <3>2, <3>3 DEF LifetimeInv
  <2>3. CASE UNCHANGED vars
    BY <2>3 DEF vars, LifetimeInv
  <2> QED
    BY <2>1, <2>2, <2>3 DEF Next
<1> QED BY <1>3, <1>4, PTL DEF Spec

\* The limit is exceeded by requests only that are too long for a duration.
COROLLARY OnlyWrapsPassTheLimit ==
    ASSUME Sound PROVE Spec => [](asked * Second >= Half \/ NothingAskedAboveLimit)
<1>1. LifetimeInv => asked * Second >= Half \/ NothingAskedAboveLimit
  <2> SUFFICES ASSUME LifetimeInv, ~(asked * Second >= Half) PROVE asked * Second <= Limit
    BY DEF NothingAskedAboveLimit
  <2>1. CASE asked = 0
    BY <2>1 DEF Sound, Word
  <2>2. CASE asked > 0
    <3>1. asked * Second \in Int /\ Half \in Int
      BY DEF LifetimeInv, Word, Sound
    <3>2. asked * Second < Half
      BY <3>1
    <3> QED
      BY <2>2, <3>2 DEF LifetimeInv
  <2> QED
    BY <2>1, <2>2 DEF LifetimeInv
<1> QED
  BY <1>1, LifetimesAreBounded, PTL
=============================================================================
