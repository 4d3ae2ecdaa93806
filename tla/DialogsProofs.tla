------------------------------ MODULE DialogsProofs -----------------------------
(***************************************************************************)
(* What Dialogs promises of the dialogs, the selector, the editor, the     *)
(* page before a session and the controls, for any data and bounds.        *)
(*                                                                         *)
(* Sequences and Filter come first.  Then each kind has an invariant of    *)
(* its page and its server, lemmas about its handlers, and three that are  *)
(* used at the end: it holds at first, each step keeps it, and it implies  *)
(* the properties.                                                         *)
(***************************************************************************)
EXTENDS Dialogs, Arrays, TLAPS, FiniteSetTheorems

--------------------------------------------------------------------------------
(* Sequences: what they hold, Filter, sets as sequences *)

Elements(s) == {s[i] : i \in DOMAIN s}
EachOnce(s) == \A i, j \in DOMAIN s : s[i] = s[j] => i = j

\* Where the n-th element that is kept stands.
KeptAt(s, kept) == {i \in DOMAIN s : s[i] \in kept}
PlaceOf(s, kept, i) == Cardinality({j \in KeptAt(s, kept) : j <= i})
PlaceAt(s, kept, n) == CHOOSE i \in KeptAt(s, kept) : PlaceOf(s, kept, i) = n

LEMMA EmptySeq == ASSUME NEW S PROVE <<>> \in Seq(S)
OBVIOUS

LEMMA FilterIs ==
  ASSUME NEW s, NEW kept
  PROVE  Filter(s, kept) = [n \in 1..Cardinality(KeptAt(s, kept)) |-> s[PlaceAt(s, kept, n)]]
BY DEF Filter, KeptAt, PlaceOf, PlaceAt

LEMMA KeptFinite ==
  ASSUME NEW T, NEW s \in Seq(T), NEW kept
  PROVE  /\ IsFiniteSet(KeptAt(s, kept)) /\ Cardinality(KeptAt(s, kept)) \in Nat
         /\ KeptAt(s, kept) \subseteq 1..Len(s) /\ Len(s) \in Nat /\ DOMAIN s = 1..Len(s)
<1>1. KeptAt(s, kept) \subseteq 1..Len(s) /\ Len(s) \in Nat /\ DOMAIN s = 1..Len(s)
  BY DEF KeptAt
<1>2. IsFiniteSet(1..Len(s))
  BY <1>1, FS_Interval
<1>3. IsFiniteSet(KeptAt(s, kept))
  BY <1>1, <1>2, FS_Subset
<1> QED BY <1>1, <1>3, FS_CardinalityType

\* Places grow with the indices, so that each is taken once.
LEMMA PlacesGrow ==
  ASSUME NEW T, NEW s \in Seq(T), NEW kept, NEW i \in KeptAt(s, kept), NEW j \in KeptAt(s, kept), i < j
  PROVE  /\ PlaceOf(s, kept, i) \in Nat /\ PlaceOf(s, kept, j) \in Nat
         /\ PlaceOf(s, kept, i) < PlaceOf(s, kept, j)
<1> DEFINE K == KeptAt(s, kept)
           I == {k \in K : k <= i}
           J == {k \in K : k <= j}
<1>1. i \in Nat /\ j \in Nat /\ K \subseteq Nat /\ IsFiniteSet(K)
  BY KeptFinite
<1>2. IsFiniteSet(J) /\ Cardinality(J) \in Nat
  BY <1>1, FS_Subset, FS_CardinalityType
<1>3. I \in SUBSET J /\ j \in J /\ j \notin I
  BY <1>1
<1>4. IsFiniteSet(I) /\ Cardinality(I) <= Cardinality(J) /\ Cardinality(I) # Cardinality(J)
  BY <1>2, <1>3, FS_Subset
<1>5. Cardinality(I) \in Nat
  BY <1>4, FS_CardinalityType
<1> QED BY <1>2, <1>4, <1>5 DEF PlaceOf

LEMMA PlacesAreTaken ==
  ASSUME NEW T, NEW s \in Seq(T), NEW kept
  PROVE  /\ \A i \in KeptAt(s, kept) : PlaceOf(s, kept, i) \in 1..Cardinality(KeptAt(s, kept))
         /\ \A n \in 1..Cardinality(KeptAt(s, kept)) : \E i \in KeptAt(s, kept) : PlaceOf(s, kept, i) = n
         /\ \A i, j \in KeptAt(s, kept) : PlaceOf(s, kept, i) = PlaceOf(s, kept, j) => i = j
<1> DEFINE K == KeptAt(s, kept)
           N == Cardinality(K)
           f == [i \in K |-> PlaceOf(s, kept, i)]
<1>1. IsFiniteSet(K) /\ N \in Nat /\ K \subseteq Nat
  BY KeptFinite
<1>2. ASSUME NEW i \in K
      PROVE  PlaceOf(s, kept, i) \in 1..N
  <2> DEFINE I == {k \in K : k <= i}
  <2>1. I \in SUBSET K /\ i \in I
    BY <1>1
  <2>2. IsFiniteSet(I) /\ Cardinality(I) <= N
    BY <1>1, <2>1, FS_Subset
  <2>3. Cardinality(I) \in Nat /\ Cardinality(I) # 0
    BY <2>1, <2>2, FS_CardinalityType, FS_EmptySet
  <2> QED BY <1>1, <2>2, <2>3 DEF PlaceOf
<1>3. ASSUME NEW i \in K, NEW j \in K, PlaceOf(s, kept, i) = PlaceOf(s, kept, j)
      PROVE  i = j
  <2>1. i \in Nat /\ j \in Nat
    BY <1>1
  <2>2. ~ (i < j) /\ ~ (j < i)
    BY <1>3, PlacesGrow
  <2> QED BY <2>1, <2>2
<1>4. f \in Injection(K, 1..N)
  BY <1>2, <1>3 DEF Injection, IsInjective
<1>5. IsFiniteSet(1..N) /\ Cardinality(1..N) = N
  BY <1>1, FS_Interval
<1>6. f \in Surjection(K, 1..N)
  BY <1>4, <1>5, FS_Injection
<1> QED BY <1>2, <1>3, <1>6, Zenon DEF Surjection

\* What is kept is kept once at each of its indices, in their order.
LEMMA FilterKeeps ==
  ASSUME NEW T, NEW s \in Seq(T), NEW kept, NEW t, t = Filter(s, kept)
  PROVE  /\ t \in Seq(T) /\ Len(t) = Cardinality(KeptAt(s, kept))
         /\ Elements(t) = Elements(s) \cap kept /\ (EachOnce(s) => EachOnce(t))
<1> DEFINE K == KeptAt(s, kept)
           N == Cardinality(K)
           p == [n \in 1..N |-> PlaceAt(s, kept, n)]
<1>1. IsFiniteSet(K) /\ N \in Nat /\ K \subseteq DOMAIN s
  BY KeptFinite
<1>2. \A n \in 1..N : p[n] \in K /\ PlaceOf(s, kept, p[n]) = n
  BY PlacesAreTaken DEF PlaceAt
<1>3. \A i \in K : \E n \in 1..N : p[n] = i
  BY <1>2, PlacesAreTaken
<1>4. t = [n \in 1..N |-> s[p[n]]]
  BY FilterIs
<1>5. \A i \in K : s[i] \in kept /\ s[i] \in T
  BY <1>1 DEF KeptAt
<1>6. \A i \in DOMAIN s : s[i] \in kept => i \in K
  BY DEF KeptAt
<1> HIDE DEF K, N, p
<1>7. t \in Seq(T) /\ Len(t) = N
  BY <1>1, <1>2, <1>4, <1>5
<1>8. {t[n] : n \in DOMAIN t} = {s[i] : i \in DOMAIN s} \cap kept
  <2>1. DOMAIN t = 1..N /\ \A n \in 1..N : t[n] = s[p[n]]
    BY <1>4
  <2>2. ASSUME NEW n \in DOMAIN t
        PROVE  t[n] \in {s[i] : i \in DOMAIN s} \cap kept
    BY <1>1, <1>2, <1>5, <2>1
  <2>3. ASSUME NEW i \in DOMAIN s, s[i] \in kept
        PROVE  s[i] \in {t[n] : n \in DOMAIN t}
    BY <1>3, <1>6, <2>1, <2>3
  <2> QED BY <2>2, <2>3
<1>9. ASSUME \A i, j \in DOMAIN s : s[i] = s[j] => i = j, NEW n \in DOMAIN t, NEW m \in DOMAIN t, t[n] = t[m]
      PROVE  n = m
  BY <1>1, <1>2, <1>4, <1>9
<1> QED BY <1>7, <1>8, <1>9, Zenon DEF K, N, Elements, EachOnce

\* The indices p grow through all that is kept.
GrowsThrough(s, kept, N, p) ==
  /\ p \in [1..N -> KeptAt(s, kept)]
  /\ \A n, m \in 1..N : n < m => p[n] < p[m]
  /\ \A i \in KeptAt(s, kept) : \E n \in 1..N : p[n] = i

\* Such a sequence of indices gives the result.
LEMMA FilterBy ==
  ASSUME NEW T, NEW s \in Seq(T), NEW kept, NEW N \in Nat, NEW p, GrowsThrough(s, kept, N, p)
  PROVE  Filter(s, kept) = [n \in 1..N |-> s[p[n]]]
<1> USE DEF GrowsThrough
<1> DEFINE K == KeptAt(s, kept)
<1>1. IsFiniteSet(K) /\ K \subseteq Nat
  BY KeptFinite
<1>2. \A n, m \in 1..N : p[n] = p[m] => n = m
  <2> SUFFICES ASSUME NEW n \in 1..N, NEW m \in 1..N, p[n] = p[m], n # m
               PROVE  FALSE
    OBVIOUS
  <2>1. n < m \/ m < n
    OBVIOUS
  <2>2. p[n] \in Nat /\ p[m] \in Nat
    BY <1>1
  <2> QED BY <2>1, <2>2
<1>3. p \in Bijection(1..N, K)
  BY <1>2 DEF Bijection, Injection, Surjection, IsInjective
<1>4. IsFiniteSet(1..N) /\ Cardinality(1..N) = N
  BY FS_Interval
<1>5. Cardinality(K) = N
  BY <1>3, <1>4, FS_Bijection DEF ExistsBijection
<1>6. ASSUME NEW n \in 1..N
      PROVE  PlaceOf(s, kept, p[n]) = n
  <2> DEFINE I == {k \in K : k <= p[n]}
             f == [m \in 1..n |-> p[m]]
  <2>1. \A m \in 1..n : m \in 1..N /\ p[m] \in Nat /\ (m < n => p[m] < p[n])
    BY <1>1
  <2>2. \A m \in 1..n : f[m] \in I
    <3> TAKE m \in 1..n
    <3>1. p[m] \in K /\ p[n] \in Nat
      BY <1>1
    <3>2. p[m] <= p[n]
      BY <2>1, <3>1
    <3> QED BY <3>1, <3>2
  <2>3. \A k \in I : \E m \in 1..n : f[m] = k
    <3> TAKE k \in I
    <3> PICK m \in 1..N : p[m] = k
      OBVIOUS
    <3>1. ~ (n < m)
      BY <1>1
    <3> QED BY <3>1
  <2>4. f \in Bijection(1..n, I)
    BY <1>2, <2>1, <2>2, <2>3, Zenon DEF Bijection, Injection, Surjection, IsInjective
  <2>5. IsFiniteSet(1..n) /\ Cardinality(1..n) = n
    BY FS_Interval
  <2>6. Cardinality(I) = n
    BY <2>4, <2>5, FS_Bijection DEF ExistsBijection
  <2> QED BY <2>6 DEF PlaceOf
<1>7. ASSUME NEW n \in 1..N
      PROVE  PlaceAt(s, kept, n) = p[n]
  <2>1. \E i \in K : PlaceOf(s, kept, i) = n
    BY <1>6
  <2>2. PlaceAt(s, kept, n) \in K /\ PlaceOf(s, kept, PlaceAt(s, kept, n)) = n
    BY <2>1 DEF PlaceAt
  <2> QED BY <1>6, <2>2, PlacesAreTaken
<1> QED BY <1>5, <1>7, FilterIs

LEMMA FilterNone ==
  ASSUME NEW T, NEW s \in Seq(T), NEW kept, \A i \in DOMAIN s : s[i] \in kept
  PROVE  Filter(s, kept) = s
<1> DEFINE p == [n \in 1..Len(s) |-> n]
<1>1. KeptAt(s, kept) = 1..Len(s) /\ Len(s) \in Nat
  BY DEF KeptAt
<1>2. Filter(s, kept) = [n \in 1..Len(s) |-> s[p[n]]]
  <2>1. p \in [1..Len(s) -> KeptAt(s, kept)]
    BY <1>1
  <2>2. \A n, m \in 1..Len(s) : n < m => p[n] < p[m]
    OBVIOUS
  <2>3. \A i \in KeptAt(s, kept) : \E n \in 1..Len(s) : p[n] = i
    BY <1>1
  <2>4. Len(s) \in Nat
    OBVIOUS
  <2> HIDE DEF p
  <2> QED BY <2>1, <2>2, <2>3, <2>4, FilterBy DEF GrowsThrough
<1> QED BY <1>2

\* The elements of a finite set can be listed, each once, and every list
\* that is as long and repeats nothing has them all.
LEMMA SetIsListed ==
  ASSUME NEW S, IsFiniteSet(S)
  PROVE  /\ \E f \in [1..Cardinality(S) -> S] : EachOnce(f)
         /\ \A f \in [1..Cardinality(S) -> S] : EachOnce(f) => f \in Seq(S) /\ Elements(f) = S
<1> DEFINE N == Cardinality(S)
<1>1. N \in Nat /\ ExistsBijection(1..N, S)
  BY FS_CardinalityType
<1>2. IsFiniteSet(1..N) /\ Cardinality(1..N) = N
  BY <1>1, FS_Interval
<1>3. \E f \in [1..N -> S] : \A a, b \in DOMAIN f : f[a] = f[b] => a = b
  BY <1>1 DEF ExistsBijection, Bijection, Injection, IsInjective
<1>4. ASSUME NEW f \in [1..N -> S], \A a, b \in DOMAIN f : f[a] = f[b] => a = b
      PROVE  f \in Seq(S) /\ {f[i] : i \in DOMAIN f} = S
  <2>1. f \in Injection(1..N, S)
    BY <1>4 DEF Injection, IsInjective
  <2>2. f \in Surjection(1..N, S)
    BY <1>2, <2>1, FS_Injection
  <2>3. \A e \in S : \E i \in DOMAIN f : f[i] = e
    BY <2>2 DEF Surjection
  <2>4. f \in Seq(S)
    BY <1>1
  <2> QED BY <2>3, <2>4
<1> QED BY <1>3, <1>4, Zenon DEF EachOnce, Elements

\* The form that Prepended is cited in.
First(e, s) == <<e>> \o s

LEMMA Prepended ==
  ASSUME NEW T, NEW s \in Seq(T), NEW e \in T, NEW t, t = First(e, s)
  PROVE  /\ t \in Seq(T) /\ Elements(t) = Elements(s) \cup {e}
         /\ EachOnce(s) /\ e \notin Elements(s) => EachOnce(t)
<1> USE DEF First
<1>1. t \in Seq(T) /\ Len(t) = Len(s) + 1 /\ t[1] = e /\ Len(s) \in Nat
  OBVIOUS
<1>2. \A i \in 1..Len(s) : t[i + 1] = s[i]
  OBVIOUS
<1>3. DOMAIN t = 1..Len(s) + 1 /\ DOMAIN s = 1..Len(s)
  BY <1>1
<1>4. ASSUME NEW i \in DOMAIN t
      PROVE  i = 1 \/ (i - 1 \in 1..Len(s) /\ t[i] = s[i - 1])
  <2>1. i = 1 \/ i - 1 \in 1..Len(s)
    BY <1>1, <1>3
  <2>2. i = (i - 1) + 1
    BY <1>3
  <2> QED BY <1>2, <2>1, <2>2
<1>5. ASSUME NEW i \in DOMAIN t
      PROVE  t[i] \in {s[j] : j \in DOMAIN s} \cup {e}
  BY <1>1, <1>3, <1>4
<1>6. ASSUME NEW d \in {s[j] : j \in DOMAIN s} \cup {e}
      PROVE  d \in {t[i] : i \in DOMAIN t}
  <2>1. CASE d = e
    BY <1>1, <1>3, <2>1
  <2>2. CASE d # e
    <3> PICK j \in DOMAIN s : s[j] = d
      BY <2>2
    <3>1. j + 1 \in DOMAIN t /\ t[j + 1] = d
      BY <1>1, <1>2, <1>3
    <3> QED BY <3>1
  <2> QED BY <2>1, <2>2
<1>7. ASSUME \A i, j \in DOMAIN s : s[i] = s[j] => i = j, e \notin {s[i] : i \in DOMAIN s},
             NEW i \in DOMAIN t, NEW j \in DOMAIN t, t[i] = t[j]
      PROVE  i = j
  <2>1. i \in Nat /\ j \in Nat
    BY <1>3
  <2>2. i = 1 => j = 1
    BY <1>1, <1>3, <1>4, <1>7
  <2>3. j = 1 => i = 1
    BY <1>1, <1>3, <1>4, <1>7
  <2>4. i # 1 /\ j # 1 => i - 1 = j - 1
    BY <1>3, <1>4, <1>7
  <2> QED BY <2>1, <2>2, <2>3, <2>4
<1>8. {t[i] : i \in DOMAIN t} = {s[i] : i \in DOMAIN s} \cup {e}
  BY <1>5, <1>6
<1> QED BY <1>1, <1>7, <1>8, Zenon DEF Elements, EachOnce

--------------------------------------------------------------------------------
(* The security dialog *)

\* An exchange is under way only where the dialog lets one begin.
SecurityWaits ==
  /\ Security!Loading => ui.totpStatus = "unknown" /\ ui.secret = None
  /\ ui.totpStatus = "unknown" \/ ~ ui.open \/ ~ ui.here => ~ Security!Busy
  /\ ~ ui.here => ~ Security!Loading
  /\ ui.http["setup"] # None => ui.secret = None
  /\ ui.http["confirm"] # None => ui.totpStatus # "ENABLED"
  /\ ui.http["disable"] # None => ui.totpStatus = "ENABLED"

\* A secret of a pending setup, on the screen or on its way there, is the
\* one that the server has.
SecuritySecrets ==
  /\ server.state = "PENDING" => server.secret # None /\ (ui.secret # None => ui.secret = server.secret)
  /\ LET q == ui.http["setup"] IN
     q # None /\ q.at = "answered" => q.what # None /\ (server.state = "PENDING" => server.secret = q.what)
  /\ LET q == ui.http["status"] IN
     q # None /\ q.at = "answered" =>
       /\ q.what # None /\ (q.what.state = "ENABLED" <=> server.state = "ENABLED")
       /\ q.what.state = "PENDING" => q.what.secret # None /\ (server.state = "PENDING" => server.secret = q.what.secret)

\* Whether TOTP is enabled can be told from the status on the screen and the
\* answers on their way.
SecurityShows ==
  LET told(k) == ui.http[k] # None /\ ui.http[k].at = "answered"
  IN  ui.here /\ ui.totpStatus # "unknown" /\ ~ ui.lost =>
        (server.state = "ENABLED" <=> (ui.totpStatus = "ENABLED" /\ ~ told("disable")) \/ told("confirm"))

SecurityGood == Security!SecretsStayInView /\ SecurityWaits /\ SecuritySecrets /\ SecurityShows

SecurityInv == Security!TypeOK /\ SecurityGood

LEMMA SecurityInit == Security!Init => SecurityInv
BY NoneAssumption
  DEF Security!Init, SecurityInv, SecurityGood, Security!TypeOK, Security!SecretsStayInView, SecurityWaits, SecuritySecrets, SecurityShows,
      Security!Pages, Security!Exchanges, Security!Slots, Security!States, Security!Loading, Security!Busy

LEMMA SecurityPage ==
  ASSUME NEW u \in Security!Pages
  PROVE  /\ \A k \in Security!Slots : [u EXCEPT !.http[k] = None] \in Security!Pages
         /\ \A k \in Security!Slots, q \in Security!Exchanges(Security!Snapshots \cup Secrets \cup {None}) :
              [u EXCEPT !.http[k] = q] \in Security!Pages
         /\ \A e \in BOOLEAN, s \in Secrets :
              Security!Apply(u, s, e) \in Security!Pages /\ Security!Apply(u, s, e).http = u.http
         /\ Security!ResetTotp(u) \in Security!Pages
<1>1. ASSUME NEW k \in Security!Slots, NEW q \in Security!Exchanges(Security!Snapshots \cup Secrets \cup {None})
      PROVE  [u EXCEPT !.http[k] = q] \in Security!Pages
  BY Zenon DEF Security!Pages
<1>2. Security!ResetTotp(u) \in Security!Pages /\ Security!ResetTotp(u).http = u.http
  BY Zenon DEF Security!Pages, Security!ResetTotp
<1>3. ASSUME NEW e \in BOOLEAN, NEW s \in Secrets
      PROVE  Security!Apply(u, s, e) \in Security!Pages /\ Security!Apply(u, s, e).http = u.http
  <2> PICK v : v = IF e THEN Security!ResetTotp(u) ELSE [u EXCEPT !.secret = s, !.timer = TRUE]
    OBVIOUS
  <2>1. v \in Security!Pages /\ v.http = u.http
    <3>1. [u EXCEPT !.secret = s, !.timer = TRUE] \in Security!Pages
      BY DEF Security!Pages
    <3> QED BY <1>2, <3>1, Zenon DEF Security!Pages
  <2>2. [v EXCEPT !.drawing = @ \cup {s}, !.outlived = ~ u.open /\ ~ e] \in Security!Pages
    <3>1. PICK w : w = [v EXCEPT !.drawing = @ \cup {s}]
      BY Zenon
    <3>2. w \in Security!Pages
      BY <2>1, <3>1, ZenonT(40) DEF Security!Pages
    <3>3. [w EXCEPT !.outlived = ~ u.open /\ ~ e] \in Security!Pages
      BY <3>2, Zenon DEF Security!Pages
    <3>4. [v EXCEPT !.drawing = @ \cup {s}, !.outlived = ~ u.open /\ ~ e] = [w EXCEPT !.outlived = ~ u.open /\ ~ e]
      BY <3>1, Zenon
    <3> QED BY <3>3, <3>4
  <2>3. [v EXCEPT !.drawing = @ \cup {s}, !.outlived = ~ u.open /\ ~ e].http = u.http
    BY <2>1 DEF Security!Pages
  <2> QED BY <2>2, <2>3 DEF Security!Apply
<1> QED BY <1>1, <1>2, <1>3, Zenon DEF Security!Exchanges

LEMMA SecurityReplied ==
  ASSUME Security!TypeOK, NEW k \in Security!Slots, NEW how \in {"answered", "refused"}, NEW what,
         what \in (IF k = "status" THEN Security!Snapshots ELSE Secrets) \cup {None}, Security!Reply(k, how, what),
         server' \in [state: Security!States, secret: Secrets \cup {None}, issued: SUBSET Secrets]
  PROVE  Security!TypeOK'
<1> DEFINE q == [at |-> how, what |-> what]
<1>1. q \in Security!Exchanges(Security!Snapshots \cup Secrets \cup {None})
  BY DEF Security!Exchanges, Security!Asked
<1>2. ui' = [ui EXCEPT !.http[k] = q] /\ ui \in Security!Pages
  BY DEF Security!Reply, Security!TypeOK
<1>3. ui' \in Security!Pages
  BY <1>1, <1>2, SecurityPage, Zenon
<1>4. ui'.http = [ui.http EXCEPT ![k] = q] /\ ui.http \in [Security!Slots -> Security!Exchanges(Security!Snapshots \cup Secrets \cup {None})]
  BY <1>2, Zenon DEF Security!Pages
<1>5. k = "status" => q \in Security!Exchanges(Security!Snapshots \cup {None})
  BY DEF Security!Exchanges, Security!Asked
<1>6. k # "status" => q \in Security!Exchanges(Secrets \cup {None})
  BY DEF Security!Exchanges, Security!Asked
<1> HIDE DEF q
<1>7. ui'.http["status"] \in Security!Exchanges(Security!Snapshots \cup {None})
  BY <1>4, <1>5 DEF Security!TypeOK, Security!Slots
<1>8. \A j \in Security!Slots \ {"status"} : ui'.http[j] \in Security!Exchanges(Secrets \cup {None})
  BY <1>4, <1>6 DEF Security!TypeOK, Security!Slots
<1> QED BY <1>3, <1>7, <1>8, Zenon DEF Security!TypeOK

LEMMA SecurityDone ==
  ASSUME Security!TypeOK, NEW k \in Security!Slots
  PROVE  LET u == Security!Done(k) IN
         /\ u \in Security!Pages
         /\ u.http["status"] \in Security!Exchanges(Security!Snapshots \cup {None})
         /\ \A j \in Security!Slots \ {"status"} : u.http[j] \in Security!Exchanges(Secrets \cup {None})
<1>1. Security!Done(k) \in Security!Pages
  BY SecurityPage DEF Security!TypeOK, Security!Done
<1>2. Security!Done(k).http = [ui.http EXCEPT ![k] = None]
  BY DEF Security!TypeOK, Security!Pages, Security!Done
<1> QED BY <1>1, <1>2, Zenon DEF Security!TypeOK, Security!Pages, Security!Exchanges, Security!Slots

LEMMA SecurityTypes ==
  ASSUME SecurityInv, Security!Next
  PROVE  Security!TypeOK'
<1> DEFINE Servers == [state: Security!States, secret: Secrets \cup {None}, issued: SUBSET Secrets]
<1>1. /\ Security!TypeOK /\ ui \in Security!Pages /\ server \in Servers
      /\ ui.http \in [Security!Slots -> Security!Exchanges(Security!Snapshots \cup Secrets \cup {None})]
  BY Zenon DEF SecurityInv, Security!TypeOK, Security!Pages
<1>2. ASSUME ui' \in Security!Pages, ui'.http = ui.http, server' \in Servers
      PROVE  Security!TypeOK'
  BY <1>1, <1>2, Zenon DEF Security!TypeOK
<1>3. ASSUME NEW u \in Security!Pages, u.http = ui.http, NEW k \in Security!Slots, NEW what,
             what \in (IF k = "status" THEN {None} ELSE Secrets \cup {None}), Security!Become(Security!Ask(u, k, what))
      PROVE  Security!TypeOK'
  <2> DEFINE q == [at |-> "sent", what |-> what]
  <2>1. q \in Security!Exchanges(Security!Snapshots \cup Secrets \cup {None}) /\ q \in Security!Exchanges(Secrets \cup {None})
        /\ (k = "status" => q \in Security!Exchanges(Security!Snapshots \cup {None}))
    BY <1>3 DEF Security!Exchanges, Security!Asked
  <2>2. ui' = [u EXCEPT !.http[k] = q] /\ UNCHANGED server
    BY <1>3 DEF Security!Become, Security!Ask
  <2> HIDE DEF q
  <2>3. ui' \in Security!Pages
    BY <1>3, <2>1, <2>2, SecurityPage, Zenon
  <2>4. ui'.http = [ui.http EXCEPT ![k] = q]
    BY <1>3, <2>2 DEF Security!Pages
  <2> QED BY <1>1, <1>3, <2>1, <2>2, <2>3, <2>4, ZenonT(40) DEF Security!TypeOK, Security!Slots
<1>4. ASSUME NEW u \in Security!Pages, u.http = ui.http, Security!Become(Security!LoadTotpStatus(u))
      PROVE  Security!TypeOK'
  <2>1. CASE u.http["status"] # None
    BY <1>1, <1>2, <1>4, <2>1 DEF Security!LoadTotpStatus, Security!Become
  <2>2. CASE u.http["status"] = None
    <3> DEFINE v == [Security!ResetTotp(u) EXCEPT !.totpStatus = "unknown"]
    <3>1. v \in Security!Pages /\ v.http = ui.http
      BY <1>4, Zenon DEF Security!Pages, Security!ResetTotp
    <3>2. Security!Become(Security!Ask(v, "status", None))
      BY <1>4, <2>2 DEF Security!LoadTotpStatus
    <3> HIDE DEF v
    <3> QED BY <1>3, <3>1, <3>2 DEF Security!Slots
  <2> QED BY <2>1, <2>2
<1>5. ASSUME Security!Open \/ Security!Return
      PROVE  Security!TypeOK'
  <2>1. PICK u : /\ u = [Security!ResetTotp(ui) EXCEPT !.open = TRUE, !.outlived = FALSE] \/ u = [ui EXCEPT !.here = TRUE]
                 /\ Security!Become(Security!LoadTotpStatus(u))
    BY <1>5 DEF Security!Open, Security!Return
  <2>2. u \in Security!Pages /\ u.http = ui.http
    BY <1>1, <2>1, ZenonT(40) DEF Security!Pages, Security!ResetTotp
  <2> QED BY <1>4, <2>1, <2>2
<1>6. CASE Security!RequestClose \/ Security!UpdateSetupExpiry
  <2>1. UNCHANGED server /\ (ui' = Security!ResetTotp(ui) \/ ui' = [Security!ResetTotp(ui) EXCEPT !.open = FALSE])
    BY <1>6 DEF Security!RequestClose, Security!UpdateSetupExpiry, Security!Become
  <2>2. ui' \in Security!Pages /\ ui'.http = ui.http
    BY <1>1, <2>1, Zenon DEF Security!Pages, Security!ResetTotp
  <2> QED BY <1>1, <1>2, <2>1, <2>2
<1>7. CASE Security!ChangePassword \/ Security!StartTotpSetup \/ Security!ConfirmTotp \/ Security!DisableTotp
  <2>1. PICK k \in Security!Slots \ {"status"} :
          Security!Become(Security!Ask(ui, k, None)) \/ Security!Become(Security!Ask(ui, k, ui.secret))
    BY <1>7 DEF Security!ChangePassword, Security!StartTotpSetup, Security!ConfirmTotp, Security!DisableTotp, Security!Slots
  <2>2. ui.secret \in Secrets \cup {None}
    BY <1>1 DEF Security!Pages
  <2> QED BY <1>1, <1>3, <2>1, <2>2
<1>8. ASSUME NEW s \in Secrets, Security!RenderQrCode(s)
      PROVE  Security!TypeOK'
  <2> PICK qr \in Secrets \cup {None} : ui' = [ui EXCEPT !.drawing = @ \ {s}, !.qr = qr]
    BY <1>1, <1>8 DEF Security!RenderQrCode, Security!Become, Security!Pages
  <2>1. ui' \in Security!Pages /\ ui'.http = ui.http
    BY <1>1, Zenon DEF Security!Pages
  <2> QED BY <1>1, <1>2, <1>8, <2>1 DEF Security!RenderQrCode, Security!Become
<1>9. ASSUME NEW k \in Security!Slots, Security!Serve(k)
      PROVE  Security!TypeOK'
  <2>1. /\ server' \in Servers
        /\ \E how \in {"answered", "refused"}, what \in Security!Snapshots \cup Secrets \cup {None} :
             what \in (IF k = "status" THEN Security!Snapshots ELSE Secrets) \cup {None} /\ Security!Reply(k, how, what)
    <3>1. CASE Security!Refuse(k)
      BY <1>1, <3>1 DEF Security!Refuse
    <3>2. CASE k = "status" /\ Security!ServeStatus
      BY <1>1, <3>2 DEF Security!ServeStatus, Security!Snapshots
    <3>3. CASE k = "password" /\ Security!Reply(k, "answered", None) /\ UNCHANGED server
      BY <1>1, <3>3
    <3>4. CASE k = "setup" /\ Security!ServeSetup
      BY <1>1, <3>4 DEF Security!ServeSetup, Security!States
    <3>5. CASE k = "confirm" /\ Security!ServeConfirm
      BY <1>1, <3>5, Zenon DEF Security!ServeConfirm, Security!States
    <3>6. CASE k = "disable" /\ Security!ServeDisable
      BY <1>1, <3>6 DEF Security!ServeDisable, Security!States
    <3> QED BY <1>9, <3>1, <3>2, <3>3, <3>4, <3>5, <3>6 DEF Security!Serve
  <2> QED BY <1>1, <2>1, SecurityReplied
<1>10. ASSUME NEW k \in Security!Slots, NEW u \in Security!Pages, u.http = Security!Done(k).http, Security!Become(u)
       PROVE  Security!TypeOK'
  BY <1>1, <1>10, SecurityDone, Zenon DEF Security!TypeOK, Security!Become
<1>11. ASSUME NEW k \in Security!Slots, Security!Refused(k) \/ Security!Lose(k)
       PROVE  Security!TypeOK'
  <2> PICK lost \in BOOLEAN : ui' = Security!Done(k) \/ ui' = [Security!Done(k) EXCEPT !.lost = lost]
    BY <1>1, <1>11, Zenon DEF Security!Refused, Security!Lose, Security!Become, Security!Pages, Security!Done
  <2> PICK u \in Security!Pages : u = Security!Done(k)
    BY <1>1, SecurityDone
  <2>1. ui' \in Security!Pages /\ ui'.http = u.http
    BY DEF Security!Pages
  <2> QED BY <1>10, <1>11, <2>1 DEF Security!Refused, Security!Lose, Security!Become
<1>12. CASE Security!ServerExpires
  BY <1>1, <1>2, <1>12, Zenon DEF Security!ServerExpires, Security!States
<1>13. ASSUME NEW e \in BOOLEAN, Security!StatusAnswer(e)
       PROVE  Security!TypeOK'
  <2> DEFINE q == ui.http["status"]
             known == [Security!Done("status") EXCEPT !.totpStatus = q.what.state, !.lost = FALSE]
  <2>1. q # None /\ q.at = "answered" /\ q \in Security!Exchanges(Security!Snapshots \cup {None})
    BY <1>13 DEF Security!StatusAnswer, SecurityInv, Security!TypeOK
  <2>2. q.what \in Security!Snapshots /\ (q.what.state = "PENDING" => q.what.secret # None)
    BY <2>1 DEF SecurityInv, SecurityGood, SecuritySecrets, Security!Exchanges, Security!Asked
  <2>3. q.what.state \in Security!States /\ (q.what.state = "PENDING" => q.what.secret \in Secrets)
    BY <2>2 DEF Security!Snapshots
  <2>4. known \in Security!Pages /\ known.http = Security!Done("status").http
    <3> PICK u \in Security!Pages : u = Security!Done("status")
      BY <1>1, SecurityDone DEF Security!Slots
    <3> QED BY <2>3, Zenon DEF Security!Pages
  <2>5. Security!Become(IF q.what.state = "PENDING" THEN Security!Apply(known, q.what.secret, e) ELSE known)
    BY <1>13 DEF Security!StatusAnswer
  <2> HIDE DEF known, q
  <2>6. ui' \in Security!Pages /\ ui'.http = known.http
    <3>1. CASE q.what.state = "PENDING"
      BY <2>3, <2>4, <2>5, <3>1, <1>13, SecurityPage DEF Security!Become
    <3>2. CASE q.what.state # "PENDING"
      BY <2>4, <2>5, <3>2 DEF Security!Become
    <3> QED BY <3>1, <3>2
  <2> QED BY <1>10, <2>4, <2>5, <2>6 DEF Security!Become, Security!Slots
<1>14. ASSUME NEW e \in BOOLEAN, Security!SetupAnswer(e)
       PROVE  Security!TypeOK'
  <2>1. PICK s \in Secrets : Security!Become(Security!Apply(Security!Done("setup"), s, e))
    BY <1>14 DEF Security!SetupAnswer, SecurityInv, SecurityGood, SecuritySecrets, Security!TypeOK, Security!Exchanges, Security!Asked, Security!Slots
  <2> PICK u \in Security!Pages : u = Security!Done("setup")
    BY <1>1, SecurityDone DEF Security!Slots
  <2>2. ui' \in Security!Pages /\ ui'.http = u.http
    BY <1>14, <2>1, SecurityPage DEF Security!Become
  <2> QED BY <1>10, <2>1, <2>2 DEF Security!Become, Security!Slots
<1>15. CASE Security!ConfirmAnswer \/ Security!DisableAnswer
  <2> PICK k \in Security!Slots, s \in Security!States :
        Security!Become([Security!ResetTotp(Security!Done(k)) EXCEPT !.totpStatus = s])
    BY <1>15 DEF Security!ConfirmAnswer, Security!DisableAnswer, Security!Slots, Security!States
  <2> PICK u \in Security!Pages : u = Security!Done(k)
    BY <1>1, SecurityDone
  <2>1. ui' \in Security!Pages /\ ui'.http = u.http
    BY DEF Security!Become, Security!ResetTotp, Security!Pages
  <2> QED BY <1>10, <2>1, Zenon DEF Security!Become
<1>16. CASE Security!PasswordAnswer
  BY <1>1, <1>16, Zenon DEF Security!PasswordAnswer, Security!Become, Security!ResetTotp, Security!Pages, Security!TypeOK, Security!Exchanges, Security!Slots
<1> QED
  BY <1>5, <1>6, <1>7, <1>8, <1>9, <1>11, <1>12, <1>13, <1>14, <1>15, <1>16 DEF Security!Next

LEMMA SecurityServed ==
  ASSUME SecurityInv, NEW k \in Security!Slots, Security!Serve(k)
  PROVE  SecurityGood'
<1> USE NoneAssumption
    DEF SecurityInv, SecurityGood, Security!TypeOK, Security!SecretsStayInView, Security!Pages, Security!Exchanges, Security!Asked,
        Security!Snapshots, Security!Slots, Security!States, Security!Loading, Security!Busy, Security!Reply,
        SecurityWaits, SecuritySecrets, SecurityShows
<1>1. CASE Security!Refuse(k)
  <2>1. Security!SecretsStayInView' /\ SecurityWaits'
    BY <1>1 DEF Security!Serve, Security!Refuse
  <2>2. SecuritySecrets'
    BY <1>1 DEF Security!Serve, Security!Refuse
  <2>3. SecurityShows'
    BY <1>1 DEF Security!Serve, Security!Refuse
  <2> QED BY <2>1, <2>2, <2>3
<1>2. CASE k = "status" /\ Security!ServeStatus
  <2> DEFINE q == [at |-> "answered", what |-> [state |-> server.state, secret |-> server.secret]]
  <2>1. ui' = [ui EXCEPT !.http["status"] = q] /\ UNCHANGED server /\ ui.http["status"] # None
    BY <1>2 DEF Security!Serve, Security!ServeStatus
  <2>2. q # None /\ q.what # None /\ q.what.state = server.state /\ q.what.secret = server.secret
    OBVIOUS
  <2>3. ui'.http["status"] = q /\ (\A j \in Security!Slots \ {"status"} : ui'.http[j] = ui.http[j])
    BY <2>1
  <2> HIDE DEF q
  <2>4. ui'.secret = ui.secret
    BY <2>1
  <2>5. SecuritySecrets'
    BY <2>1, <2>2, <2>3, <2>4
  <2>6. Security!SecretsStayInView' /\ SecurityWaits'
    BY <2>1, <2>2
  <2>7. SecurityShows'
    BY <2>1
  <2> QED BY <2>5, <2>6, <2>7
<1>3. CASE k = "password" /\ Security!Reply(k, "answered", None) /\ UNCHANGED server
  <2>1. Security!SecretsStayInView' /\ SecurityWaits'
    BY <1>3 DEF Security!Serve
  <2>2. SecuritySecrets' /\ SecurityShows'
    BY <1>3 DEF Security!Serve
  <2> QED BY <2>1, <2>2
<1>4. CASE k = "setup" /\ Security!ServeSetup
  <2> PICK s \in Secrets \ server.issued :
        /\ server' = [state |-> "PENDING", secret |-> s, issued |-> server.issued \cup {s}]
        /\ ui' = [ui EXCEPT !.http["setup"] = [at |-> "answered", what |-> s]]
    BY <1>4, Zenon DEF Security!ServeSetup
  <2>1. Security!SecretsStayInView' /\ SecurityWaits'
    BY <1>4 DEF Security!Serve
  <2>2. ui.http["setup"] # None /\ ui.http["status"] = None /\ server.state # "ENABLED"
    BY <1>4 DEF Security!Serve, Security!ServeSetup
  <2>3. SecuritySecrets'
    BY <2>2
  <2>4. ui.http["confirm"] # None => ui.http["confirm"].at # "answered" \/ ui.lost
    BY <2>2
  <2>5. SecurityShows'
    BY <2>2, <2>4
  <2> QED BY <2>1, <2>3, <2>5
<1>5. CASE k = "confirm" /\ Security!ServeConfirm
  <2>1. Security!SecretsStayInView' /\ SecurityWaits'
    BY <1>5 DEF Security!Serve, Security!ServeConfirm
  <2>2. SecuritySecrets'
    BY <1>5 DEF Security!Serve, Security!ServeConfirm
  <2>3. SecurityShows'
    BY <1>5 DEF Security!Serve, Security!ServeConfirm
  <2> QED BY <2>1, <2>2, <2>3
<1>6. CASE k = "disable" /\ Security!ServeDisable
  <2>1. Security!SecretsStayInView' /\ SecurityWaits'
    BY <1>6 DEF Security!Serve, Security!ServeDisable
  <2>2. SecuritySecrets'
    BY <1>6 DEF Security!Serve, Security!ServeDisable
  <2>3. SecurityShows'
    BY <1>6 DEF Security!Serve, Security!ServeDisable
  <2> QED BY <2>1, <2>2, <2>3
<1> QED BY <1>1, <1>2, <1>3, <1>4, <1>5, <1>6 DEF Security!Serve

LEMMA SecurityAnswered ==
  ASSUME SecurityInv, NEW e \in BOOLEAN, Security!StatusAnswer(e) \/ Security!SetupAnswer(e)
  PROVE  SecurityGood'
<1> USE NoneAssumption
    DEF SecurityInv, SecurityGood, Security!TypeOK, Security!SecretsStayInView, Security!Pages, Security!Exchanges, Security!Asked,
        Security!Snapshots, Security!Slots, Security!States, Security!Loading, Security!Busy, Security!Become,
        Security!Done, Security!ResetTotp, Security!Apply, SecurityWaits, SecuritySecrets, SecurityShows
<1>1. CASE Security!StatusAnswer(e)
  <2>1. Security!SecretsStayInView'
    BY <1>1 DEF Security!StatusAnswer
  <2>2. SecurityWaits'
    BY <1>1 DEF Security!StatusAnswer
  <2>3. SecuritySecrets' /\ SecurityShows'
    BY <1>1 DEF Security!StatusAnswer
  <2> QED BY <2>1, <2>2, <2>3
<1>2. CASE Security!SetupAnswer(e)
  <2>1. Security!SecretsStayInView'
    BY <1>2 DEF Security!SetupAnswer
  <2>2. SecurityWaits'
    BY <1>2 DEF Security!SetupAnswer
  <2>3. SecuritySecrets' /\ SecurityShows'
    BY <1>2 DEF Security!SetupAnswer
  <2> QED BY <2>1, <2>2, <2>3
<1> QED BY <1>1, <1>2

LEMMA SecurityKept ==
  ASSUME SecurityInv, Security!Next
  PROVE  SecurityGood'
<1> USE NoneAssumption
    DEF SecurityInv, SecurityGood, Security!TypeOK, Security!SecretsStayInView, Security!Pages, Security!Exchanges, Security!Asked,
        Security!Snapshots, Security!Slots, Security!States, Security!Loading, Security!Busy, Security!Become, Security!Ask,
        Security!Shown, Security!SetupShown, Security!Done, Security!ResetTotp, Security!LoadTotpStatus,
        SecurityWaits, SecuritySecrets, SecurityShows
<1>1. CASE Security!Open
  <2>1. Security!SecretsStayInView' /\ SecurityWaits'
    BY <1>1 DEF Security!Open
  <2>2. SecuritySecrets' /\ SecurityShows'
    BY <1>1 DEF Security!Open
  <2> QED BY <2>1, <2>2
<1>2. CASE Security!RequestClose
  <2>1. Security!SecretsStayInView' /\ SecurityWaits'
    BY <1>2 DEF Security!RequestClose
  <2>2. SecuritySecrets' /\ SecurityShows'
    BY <1>2 DEF Security!RequestClose
  <2> QED BY <2>1, <2>2
<1>3. CASE Security!ChangePassword
  BY <1>3 DEF Security!ChangePassword
<1>4. CASE Security!StartTotpSetup
  BY <1>4 DEF Security!StartTotpSetup
<1>5. CASE Security!ConfirmTotp
  BY <1>5 DEF Security!ConfirmTotp
<1>6. CASE Security!DisableTotp
  BY <1>6 DEF Security!DisableTotp
<1>7. CASE Security!Return
  <2>1. Security!SecretsStayInView' /\ SecurityWaits'
    BY <1>7 DEF Security!Return
  <2>2. SecuritySecrets' /\ SecurityShows'
    BY <1>7 DEF Security!Return
  <2> QED BY <2>1, <2>2
<1>8. CASE Security!UpdateSetupExpiry
  <2>1. Security!SecretsStayInView' /\ SecurityWaits'
    BY <1>8 DEF Security!UpdateSetupExpiry
  <2>2. SecuritySecrets' /\ SecurityShows'
    BY <1>8 DEF Security!UpdateSetupExpiry
  <2> QED BY <2>1, <2>2
<1>9. ASSUME NEW s \in Secrets, Security!RenderQrCode(s)
      PROVE  SecurityGood'
  <2> PICK drawn \in {s, None} :
        /\ ui' = [ui EXCEPT !.drawing = @ \ {s}, !.qr = IF ui.secret = s THEN drawn ELSE @]
        /\ UNCHANGED server
    BY <1>9, Zenon DEF Security!RenderQrCode
  <2>1. Security!SecretsStayInView' /\ SecurityWaits'
    OBVIOUS
  <2>2. SecuritySecrets' /\ SecurityShows'
    OBVIOUS
  <2> QED BY <2>1, <2>2
<1>10. ASSUME NEW k \in Security!Slots, Security!Refused(k)
       PROVE  SecurityGood'
  BY <1>10 DEF Security!Refused
<1>11. ASSUME NEW k \in Security!Slots, Security!Lose(k)
       PROVE  SecurityGood'
  <2>1. Security!SecretsStayInView' /\ SecurityWaits'
    BY <1>11 DEF Security!Lose
  <2>2. SecuritySecrets' /\ SecurityShows'
    BY <1>11 DEF Security!Lose
  <2> QED BY <2>1, <2>2
<1>12. CASE Security!ServerExpires
  <2>1. Security!SecretsStayInView' /\ SecurityWaits'
    BY <1>12 DEF Security!ServerExpires
  <2>2. SecuritySecrets' /\ SecurityShows'
    BY <1>12 DEF Security!ServerExpires
  <2> QED BY <2>1, <2>2
<1>13. CASE Security!PasswordAnswer
  BY <1>13 DEF Security!PasswordAnswer
<1>14. CASE Security!ConfirmAnswer
  BY <1>14 DEF Security!ConfirmAnswer
<1>15. CASE Security!DisableAnswer
  BY <1>15 DEF Security!DisableAnswer
<1> QED
  BY <1>1, <1>2, <1>3, <1>4, <1>5, <1>6, <1>7, <1>8, <1>9, <1>10, <1>11, <1>12, <1>13, <1>14, <1>15,
     SecurityServed, SecurityAnswered, ZenonT(40) DEF Security!Next

LEMMA SecurityNext ==
  ASSUME SecurityInv, Security!Next
  PROVE  SecurityInv'
BY SecurityTypes, SecurityKept DEF SecurityInv

--------------------------------------------------------------------------------
(* The dialog of external accesses *)

AccessForms ==
  /\ \A l \in Ledgers : IsFiniteSet(server.active[l]) /\ server.active[l] \subseteq server.created
  /\ ui.http["list"] # None => IsFiniteSet(ui.http["list"].what) /\ ui.http["list"].at # "refused"
  /\ ui.http["create"] # None /\ ui.http["create"].at = "answered" => ui.http["create"].what # None
  /\ ui.http["revoke"] # None => ui.http["revoke"].what # None

\* Until the host resets it, what is under way is for the ledger at hand and
\* from the form on the screen.
AccessWaits ==
  /\ \A k \in Access!Slots : ui.http[k] # None => ui.http[k].ledger = ui.ledger
  /\ ui.view # "list" => ui.open /\ ui.http["list"] = None
  /\ ui.http["create"] # None => ui.view = "create"
  /\ ui.http["revoke"] # None => ui.view = "revoke" /\ ui.http["revoke"].what = ui.selected

\* The active accesses can be told from the list on the screen and the
\* answers on their way.
AccessShows ==
  LET told(k) == ui.http[k] # None /\ ui.http[k].at = "answered"
      shown == Elements(ui.accesses)
      active == server.active[ui.ledger]
  IN  /\ told("list") => ui.http["list"].what = active
      /\ ui.open /\ ~ ui.loadError /\ ~ ui.lost /\ ui.http["list"] = None =>
           /\ EachOnce(ui.accesses)
           /\ ui.view = "revoke" => ui.selected \in shown
           /\ told("create") => ui.http["create"].what \notin shown /\ active = shown \cup {ui.http["create"].what}
           /\ told("revoke") => active = shown \ {ui.http["revoke"].what}
           /\ ~ told("create") /\ ~ told("revoke") => active = shown

AccessGood ==
  /\ Access!BusyIsPending /\ Access!SecretsStayInView /\ AccessForms
  /\ ~ ui.rebound => AccessWaits /\ AccessShows

AccessInv == Access!TypeOK /\ AccessGood

\* What TypeOK says of the dialog.
AccessPage(u) ==
  /\ u \in Access!Pages
  /\ u.http["list"] \in Access!Exchanges(SUBSET Grants)
  /\ \A k \in Access!Slots \ {"list"} : u.http[k] \in Access!Exchanges(Grants \cup {None})

LEMMA AccessWhats ==
  ASSUME NEW k \in Access!Slots, NEW q \in Access!Asked(IF k = "list" THEN SUBSET Grants ELSE Grants \cup {None})
  PROVE  /\ q \in Access!Asked((SUBSET Grants) \cup Grants \cup {None}) /\ q # None
         /\ q = [at |-> q.at, ledger |-> q.ledger, what |-> q.what]
<1>1. q = [at |-> q.at, ledger |-> q.ledger, what |-> q.what]
  BY DEF Access!Asked
<1>2. q \in Access!Asked(SUBSET Grants) \/ q \in Access!Asked(Grants \cup {None})
  OBVIOUS
<1>3. q \in Access!Asked((SUBSET Grants) \cup Grants \cup {None})
  <2>1. CASE q \in Access!Asked(SUBSET Grants)
    BY <2>1 DEF Access!Asked
  <2>2. CASE q \in Access!Asked(Grants \cup {None})
    BY <2>2 DEF Access!Asked
  <2> QED BY <1>2, <2>1, <2>2
<1> QED BY <1>1, <1>3, NoneAssumption

LEMMA AccessPut ==
  ASSUME NEW u, AccessPage(u), NEW k \in Access!Slots,
         NEW q \in Access!Exchanges(IF k = "list" THEN SUBSET Grants ELSE Grants \cup {None})
  PROVE  AccessPage([u EXCEPT !.http[k] = q])
<1>1. q \in Access!Exchanges((SUBSET Grants) \cup Grants \cup {None})
  BY AccessWhats, Zenon DEF Access!Exchanges
<1>2. [u EXCEPT !.http[k] = q] \in Access!Pages
  BY <1>1, Zenon DEF AccessPage, Access!Pages
<1>3. [u EXCEPT !.http[k] = q].http = [u.http EXCEPT ![k] = q] /\ DOMAIN u.http = Access!Slots
  BY DEF AccessPage, Access!Pages
<1> QED BY <1>2, <1>3, Zenon DEF AccessPage, Access!Slots

LEMMA AccessAsk ==
  ASSUME NEW u, AccessPage(u), NEW k \in Access!Slots, NEW what \in IF k = "list" THEN SUBSET Grants ELSE Grants \cup {None}
  PROVE  /\ AccessPage(Access!Ask(u, k, what))
         /\ \E q : /\ q # None /\ q.at = "sent" /\ q.ledger = u.ledger /\ q.what = what
                   /\ Access!Ask(u, k, what) = [u EXCEPT !.http[k] = q]
<1> DEFINE q == [at |-> "sent", ledger |-> u.ledger, what |-> what]
<1>1. q \in Access!Asked(IF k = "list" THEN SUBSET Grants ELSE Grants \cup {None})
  BY DEF Access!Asked, AccessPage, Access!Pages
<1>2. q # None
  BY <1>1, AccessWhats, Zenon
<1>3. q.at = "sent" /\ q.ledger = u.ledger /\ q.what = what
  OBVIOUS
<1>4. Access!Ask(u, k, what) = [u EXCEPT !.http[k] = q]
  BY DEF Access!Ask
<1> HIDE DEF q
<1>5. AccessPage([u EXCEPT !.http[k] = q])
  BY <1>1, AccessPut DEF Access!Exchanges
<1> QED BY <1>2, <1>3, <1>4, <1>5, Zenon

LEMMA AccessReset ==
  ASSUME NEW u, AccessPage(u)
  PROVE  AccessPage(Access!ResetDialog(u))
<1> PICK a \in Seq(Grants) : a = <<>>
  BY EmptySeq, Zenon
<1> PICK h : h = [u.http EXCEPT !["list"] = None, !["totp"] = None]
  BY Zenon
<1>1. h \in [Access!Slots -> Access!Exchanges((SUBSET Grants) \cup Grants \cup {None})]
  BY DEF AccessPage, Access!Pages, Access!Slots, Access!Exchanges
<1>2. Access!ResetDialog(u) =
        [u EXCEPT !.view = "list", !.accesses = a, !.selected = None, !.token = None, !.http = h,
                  !.loading = FALSE, !.loadingTotp = FALSE, !.creating = FALSE, !.revoking = FALSE,
                  !.loadError = FALSE, !.totpError = FALSE]
  BY ZenonT(40) DEF Access!ResetDialog, AccessPage, Access!Pages
<1>3. Access!ResetDialog(u) \in Access!Pages
  <2>1. u \in Access!Pages
    BY DEF AccessPage
  <2> QED BY <1>1, <1>2, <2>1, ZenonT(40) DEF Access!Pages
<1>4. Access!ResetDialog(u).http = h
  BY <1>2 DEF AccessPage, Access!Pages
<1> QED BY <1>3, <1>4, ZenonT(40) DEF AccessPage, Access!Pages, Access!Slots, Access!Exchanges

LEMMA AccessLoad ==
  ASSUME NEW u, AccessPage(u)
  PROVE  AccessPage(Access!LoadAccesses(u)) /\ AccessPage(Access!LoadTotpStatus(u)) /\ AccessPage(Access!Effect(u))
<1>1. ASSUME NEW v, AccessPage(v)
      PROVE  AccessPage(Access!LoadAccesses(v))
  <2> PICK w : w = [v EXCEPT !.loading = TRUE, !.loadError = FALSE]
    OBVIOUS
  <2>1. AccessPage(w)
    BY <1>1, Zenon DEF AccessPage, Access!Pages
  <2> QED BY <2>1, AccessAsk DEF Access!LoadAccesses, Access!Slots
<1>2. ASSUME NEW v, AccessPage(v)
      PROVE  AccessPage(Access!LoadTotpStatus(v))
  <2> PICK w : w = [v EXCEPT !.loadingTotp = TRUE, !.totpError = FALSE, !.totpKnown = FALSE]
    OBVIOUS
  <2>1. AccessPage(w)
    BY <1>2, ZenonT(40) DEF AccessPage, Access!Pages
  <2> QED BY <2>1, AccessAsk DEF Access!LoadTotpStatus, Access!Slots
<1>3. AccessPage([u EXCEPT !.token = None])
  BY Zenon DEF AccessPage, Access!Pages
<1> QED BY <1>1, <1>2, <1>3, AccessReset DEF Access!Effect

LEMMA AccessEnded ==
  ASSUME Access!TypeOK, NEW k \in Access!Slots
  PROVE  AccessPage(Access!Ended(k)) /\ Access!Ended(k).accesses = ui.accesses
<1>1. AccessPage(ui)
  BY Zenon DEF Access!TypeOK, AccessPage
<1> PICK u : u = [ui EXCEPT !.http[k] = None]
  BY Zenon
<1>2. AccessPage(u)
  BY <1>1, AccessPut DEF Access!Exchanges
<1>3. \/ Access!Ended(k) = [u EXCEPT !.loading = FALSE] \/ Access!Ended(k) = [u EXCEPT !.loadingTotp = FALSE]
      \/ Access!Ended(k) = [u EXCEPT !.creating = FALSE] \/ Access!Ended(k) = [u EXCEPT !.revoking = FALSE]
  BY DEF Access!Ended, Access!Slots
<1>4. u.accesses = ui.accesses
  BY <1>1 DEF AccessPage, Access!Pages
<1> PICK e : e = Access!Ended(k)
  OBVIOUS
<1>5. e \in Access!Pages /\ e.http = u.http /\ e.accesses = u.accesses
  <2>1. u \in Access!Pages
    BY <1>2 DEF AccessPage
  <2>2. CASE e = [u EXCEPT !.loading = FALSE]
    BY <2>1, <2>2, ZenonT(40) DEF Access!Pages
  <2>3. CASE e = [u EXCEPT !.loadingTotp = FALSE]
    BY <2>1, <2>3, ZenonT(40) DEF Access!Pages
  <2>4. CASE e = [u EXCEPT !.creating = FALSE]
    BY <2>1, <2>4, ZenonT(40) DEF Access!Pages
  <2>5. CASE e = [u EXCEPT !.revoking = FALSE]
    BY <2>1, <2>5, ZenonT(40) DEF Access!Pages
  <2> QED BY <1>3, <2>2, <2>3, <2>4, <2>5
<1>6. AccessPage(e)
  BY <1>2, <1>5, Zenon DEF AccessPage
<1>7. e.accesses = ui.accesses
  BY <1>4, <1>5
<1> QED BY <1>6, <1>7

LEMMA AccessReplied ==
  ASSUME Access!TypeOK, NEW k \in Access!Slots, ui.http[k] # None, NEW how \in {"answered", "refused"},
         NEW what \in IF k = "list" THEN SUBSET Grants ELSE Grants \cup {None}, Access!Reply(k, how, what)
  PROVE  /\ AccessPage(ui')
         /\ \E q : /\ q # None /\ q.at = how /\ q.what = what /\ q.ledger = ui.http[k].ledger
                   /\ ui' = [ui EXCEPT !.http[k] = q]
<1> DEFINE q == [at |-> how, ledger |-> ui.http[k].ledger, what |-> what]
<1>1. AccessPage(ui) /\ ui.http[k] \in Access!Asked(IF k = "list" THEN SUBSET Grants ELSE Grants \cup {None})
  BY Zenon DEF Access!TypeOK, AccessPage, Access!Exchanges
<1>2. q \in Access!Asked(IF k = "list" THEN SUBSET Grants ELSE Grants \cup {None})
  BY <1>1 DEF Access!Asked
<1>3. q # None
  BY <1>2, AccessWhats, Zenon
<1>7. ui' = [ui EXCEPT !.http[k] = q]
  BY DEF Access!Reply
<1>8. q.at = how /\ q.what = what /\ q.ledger = ui.http[k].ledger
  OBVIOUS
<1> HIDE DEF q
<1>9. AccessPage(ui')
  BY <1>1, <1>2, <1>7, AccessPut DEF Access!Exchanges
<1> QED BY <1>3, <1>7, <1>8, <1>9, Zenon

LEMMA AccessCardinality == \A S : Access!Cardinality(S) = Cardinality(S)
BY DEF Access!Cardinality, Cardinality

LEMMA AccessFilter ==
  ASSUME NEW s, NEW kept
  PROVE  Access!Filter(s, kept) = Filter(s, kept)
BY Zenon DEF Access!Filter, Filter, Access!Cardinality, Cardinality

LEMMA AccessListed ==
  ASSUME NEW S, IsFiniteSet(S), NEW s, s = Access!Listed(S)
  PROVE  s \in Seq(S) /\ Elements(s) = S /\ EachOnce(s)
<1>1. s \in [1..Cardinality(S) -> S] /\ EachOnce(s)
  BY SetIsListed, AccessCardinality DEF Access!Listed, Access!Injection, Access!IsInjective, EachOnce
<1> QED BY <1>1, SetIsListed

LEMMA AccessInit == Access!Init => AccessInv
<1> SUFFICES ASSUME Access!Init
             PROVE  AccessInv
  OBVIOUS
<1> PICK a \in Seq(Grants) : a = <<>>
  BY EmptySeq, Zenon
<1> PICK h \in {"selector", "layout"}, l \in Ledgers :
      ui = [host |-> h, ledger |-> l, open |-> FALSE, view |-> "list", accesses |-> a,
               selected |-> None, token |-> None, http |-> [k \in Access!Slots |-> None],
               loading |-> FALSE, loadError |-> FALSE, loadingTotp |-> FALSE, totpError |-> FALSE,
               totpKnown |-> FALSE, creating |-> FALSE, revoking |-> FALSE,
               rebound |-> FALSE, lost |-> FALSE]
  BY DEF Access!Init
<1>1. server = [active |-> [j \in Ledgers |-> {}], created |-> {}]
  BY DEF Access!Init
<1>2. server \in [active: [Ledgers -> SUBSET Grants], created: SUBSET Grants]
  BY <1>1
<1>3. AccessPage(ui)
  BY DEF AccessPage, Access!Pages, Access!Exchanges, Access!Slots
<1>4. Access!TypeOK
  BY <1>2, <1>3, Zenon DEF AccessPage, Access!TypeOK
<1>5. IsFiniteSet({})
  BY FS_EmptySet
<1>6. Access!BusyIsPending /\ Access!SecretsStayInView
  BY DEF Access!BusyIsPending, Access!SecretsStayInView, Access!Slots
<1>7. AccessForms
  BY <1>1, <1>5 DEF AccessForms, Access!Slots
<1>8. AccessWaits /\ AccessShows
  BY DEF AccessWaits, AccessShows, Access!Slots
<1> QED BY <1>4, <1>6, <1>7, <1>8 DEF AccessInv, AccessGood

LEMMA AccessTypes ==
  ASSUME AccessInv, Access!Next
  PROVE  Access!TypeOK'
<1> DEFINE Servers == [active: [Ledgers -> SUBSET Grants], created: SUBSET Grants]
<1>1. Access!TypeOK /\ AccessPage(ui) /\ server \in Servers /\ ui \in Access!Pages
  BY Zenon DEF AccessInv, Access!TypeOK, AccessPage
<1>2. ASSUME AccessPage(ui'), server' \in Servers
      PROVE  Access!TypeOK'
  BY <1>2, Zenon DEF Access!TypeOK, AccessPage
<1>3. ASSUME NEW u, AccessPage(u), Access!Become(u)
      PROVE  Access!TypeOK'
  BY <1>1, <1>2, <1>3 DEF Access!Become
<1>4. ASSUME NEW u \in Access!Pages, u.http = ui.http
      PROVE  AccessPage(u)
  BY <1>1, <1>4, Zenon DEF AccessPage
<1>5. CASE Access!Open
  <2> PICK u : u = [ui EXCEPT !.open = TRUE]
    BY Zenon
  <2>1. AccessPage(u)
    BY <1>1, <1>4, Zenon DEF Access!Pages
  <2> QED BY <1>3, <1>5, <2>1, AccessLoad DEF Access!Open
<1>6. ASSUME NEW l \in Ledgers, Access!Rebind(l)
      PROVE  Access!TypeOK'
  <2> PICK u : u = [ui EXCEPT !.ledger = l, !.rebound = TRUE]
    OBVIOUS
  <2>1. AccessPage(u)
    BY <1>1, <1>4, Zenon DEF Access!Pages
  <2> QED BY <1>3, <1>6, <2>1, AccessLoad DEF Access!Rebind
<1>7. CASE Access!RequestClose
  <2> PICK u \in Access!Pages : u = Access!ResetDialog(ui) /\ AccessPage(u)
    BY <1>1, AccessReset, Zenon DEF AccessPage
  <2>1. [u EXCEPT !.open = FALSE] \in Access!Pages /\ [u EXCEPT !.open = FALSE].http = u.http
    BY Zenon DEF Access!Pages
  <2>2. AccessPage([u EXCEPT !.open = FALSE])
    BY <2>1 DEF AccessPage
  <2>3. AccessPage(Access!Effect([u EXCEPT !.open = FALSE]))
    BY <2>2, AccessLoad
  <2> QED BY <1>3, <1>7, <2>3 DEF Access!RequestClose
<1>8. CASE Access!RetryAccesses \/ Access!RetryTotpStatus
  BY <1>1, <1>3, <1>8, AccessLoad DEF Access!RetryAccesses, Access!RetryTotpStatus
<1>9. CASE Access!ShowCreate \/ Access!ShowList
  <2>1. PICK v \in {"list", "create"} : Access!Become([ui EXCEPT !.token = None, !.selected = None, !.view = v])
    BY <1>9 DEF Access!ShowCreate, Access!ShowList
  <2>2. AccessPage([ui EXCEPT !.token = None, !.selected = None, !.view = v])
    BY <1>1, <1>4, Zenon DEF Access!Pages
  <2> QED BY <1>3, <2>1, <2>2
<1>10. ASSUME NEW g \in Grants, Access!ShowRevoke(g)
       PROVE  Access!TypeOK'
  <2>1. AccessPage([ui EXCEPT !.token = None, !.selected = g, !.view = "revoke"])
    BY <1>1, <1>4, Zenon DEF Access!Pages
  <2> QED BY <1>3, <1>10, <2>1 DEF Access!ShowRevoke
<1>11. CASE Access!CreateAccess
  <2> PICK u : u = [ui EXCEPT !.creating = TRUE]
    OBVIOUS
  <2>1. AccessPage(u)
    BY <1>1, <1>4, Zenon DEF Access!Pages
  <2> QED BY <1>3, <1>11, <2>1, AccessAsk DEF Access!CreateAccess, Access!Slots
<1>12. CASE Access!RevokeAccess
  <2> PICK u : u = [ui EXCEPT !.revoking = TRUE]
    OBVIOUS
  <2>1. AccessPage(u) /\ ui.selected \in Grants \cup {None}
    BY <1>1, <1>4, Zenon DEF Access!Pages
  <2> QED BY <1>3, <1>12, <2>1, AccessAsk DEF Access!RevokeAccess, Access!Slots
<1>13. ASSUME NEW k \in Access!Slots, Access!Serve(k)
       PROVE  Access!TypeOK'
  <2>1. ui.http[k] # None /\ ui.http[k] \in Access!Asked(IF k = "list" THEN SUBSET Grants ELSE Grants \cup {None})
    BY <1>1, <1>13, Zenon DEF Access!Serve, AccessPage, Access!Exchanges
  <2>2. ui.http[k].ledger \in Ledgers /\ ui.http[k].what \in IF k = "list" THEN SUBSET Grants ELSE Grants \cup {None}
    BY <2>1 DEF Access!Asked
  <2>3. PICK how \in {"answered", "refused"}, what \in IF k = "list" THEN SUBSET Grants ELSE Grants \cup {None} :
          Access!Reply(k, how, what)
    BY <1>1, <1>13, <2>2, ZenonT(40) DEF Access!Serve, Access!ServeList, Access!ServeCreate, Access!ServeRevoke
  <2>4. server' \in Servers
    <3>1. \/ UNCHANGED server
          \/ \E l \in Ledgers, g \in Grants : server' = [server EXCEPT !.active[l] = @ \cup {g}, !.created = @ \cup {g}]
          \/ \E l \in Ledgers : \E g : server' = [server EXCEPT !.active[l] = @ \ {g}]
      BY <1>13, <2>2, Zenon DEF Access!Serve, Access!ServeList, Access!ServeCreate, Access!ServeRevoke
    <3>2. ASSUME NEW l \in Ledgers, NEW g \in Grants, server' = [server EXCEPT !.active[l] = @ \cup {g}, !.created = @ \cup {g}]
          PROVE  server' \in Servers
      BY <1>1, <3>2, Zenon
    <3>3. ASSUME NEW l \in Ledgers, NEW g, server' = [server EXCEPT !.active[l] = @ \ {g}]
          PROVE  server' \in Servers
      BY <1>1, <3>3
    <3> QED BY <1>1, <3>1, <3>2, <3>3
  <2> QED BY <1>1, <1>2, <2>1, <2>3, <2>4, AccessReplied
<1>14. ASSUME NEW k \in Access!Slots, NEW u, AccessPage(u), Access!Ended(k) = u
       PROVE  Access!Refused(k) \/ Access!Lose(k) => Access!TypeOK'
  <2> PICK e \in BOOLEAN, t \in BOOLEAN, l \in BOOLEAN :
        e = (u.loadError \/ k = "list") /\ t = (u.totpError \/ k = "totp")
        /\ l = (u.lost \/ (k \in {"create", "revoke"} /\ ui.http[k].at = "answered"))
    BY Zenon
  <2>1. u \in Access!Pages
    BY <1>14 DEF AccessPage
  <2>5. [u EXCEPT !.loadError = e, !.totpError = t, !.lost = l] \in Access!Pages
    <3>1. [u EXCEPT !.loadError = e, !.totpError = t] \in Access!Pages
      BY <2>1, ZenonT(40) DEF Access!Pages
    <3>2. ASSUME NEW v \in Access!Pages, NEW b \in BOOLEAN
          PROVE  [v EXCEPT !.lost = b] \in Access!Pages
      BY <3>2, Zenon DEF Access!Pages
    <3>3. [u EXCEPT !.loadError = e, !.totpError = t, !.lost = l] = [[u EXCEPT !.loadError = e, !.totpError = t] EXCEPT !.lost = l]
      BY Zenon
    <3> QED BY <3>1, <3>2, <3>3, Zenon
  <2>6. [u EXCEPT !.loadError = e, !.totpError = t, !.lost = l].http = u.http
    BY <2>1 DEF Access!Pages
  <2>2. AccessPage([u EXCEPT !.loadError = e, !.totpError = t, !.lost = l])
    BY <1>14, <2>5, <2>6, Zenon DEF AccessPage
  <2>3. Access!Refused(k) => Access!Become(u)
    BY <1>14 DEF Access!Refused
  <2>4. Access!Lose(k) => Access!Become([u EXCEPT !.loadError = e, !.totpError = t, !.lost = l])
    BY <1>14 DEF Access!Lose
  <2> QED BY <1>3, <1>14, <2>2, <2>3, <2>4
<1>15. ASSUME NEW k \in Access!Slots, NEW u \in Access!Pages, u.http = Access!Ended(k).http
       PROVE  AccessPage(u)
  <2>1. AccessPage(Access!Ended(k))
    BY <1>1, AccessEnded
  <2> QED BY <1>15, <2>1, Zenon DEF AccessPage
<1>16. \A k \in Access!Slots : Access!Ended(k) \in Access!Pages /\ Access!Ended(k).accesses = ui.accesses /\ ui.accesses \in Seq(Grants)
  BY <1>1, AccessEnded, Zenon DEF AccessPage, Access!Pages
<1>17. ASSUME NEW k \in Access!Slots, Access!Answered(k)
       PROVE  ui.http[k].what \in IF k = "list" THEN SUBSET Grants ELSE Grants \cup {None}
  BY <1>1, <1>17 DEF Access!Answered, AccessPage, Access!Exchanges, Access!Asked
<1>18. CASE Access!ListAnswer
  <2> PICK a : a = Access!Listed(ui.http["list"].what)
    OBVIOUS
  <2>1. ui.http["list"].what \in SUBSET Grants /\ IsFiniteSet(ui.http["list"].what)
    BY <1>17, <1>18 DEF Access!ListAnswer, AccessInv, AccessGood, AccessForms, Access!Answered, Access!Slots
  <2>2. a \in Seq(Grants)
    <3> PICK S \in SUBSET Grants : S = ui.http["list"].what /\ IsFiniteSet(S)
      BY <2>1
    <3>1. a \in Seq(S)
      BY AccessListed
    <3> QED BY <3>1
  <2> PICK u \in Access!Pages : u = Access!Ended("list")
    BY <1>16 DEF Access!Slots
  <2>3. [u EXCEPT !.accesses = a, !.lost = FALSE] \in Access!Pages
    BY <2>2, ZenonT(40) DEF Access!Pages
  <2>4. [u EXCEPT !.accesses = a, !.lost = FALSE].http = u.http
    BY DEF Access!Pages
  <2>5. AccessPage([u EXCEPT !.accesses = a, !.lost = FALSE])
    BY <1>15, <2>3, <2>4, Zenon DEF Access!Slots
  <2>6. Access!Become([u EXCEPT !.accesses = a, !.lost = FALSE])
    BY <1>18 DEF Access!ListAnswer
  <2> QED BY <1>3, <2>5, <2>6
<1>19. CASE Access!TotpAnswer
  <2> PICK u \in Access!Pages : u = Access!Ended("totp") /\ AccessPage(u)
    BY <1>1, <1>16, AccessEnded DEF Access!Slots
  <2>1. [u EXCEPT !.totpKnown = TRUE] \in Access!Pages /\ [u EXCEPT !.totpKnown = TRUE].http = u.http
    BY Zenon DEF Access!Pages
  <2>2. AccessPage([u EXCEPT !.totpKnown = TRUE])
    BY <2>1, Zenon DEF AccessPage
  <2> QED BY <1>3, <1>19, <2>2 DEF Access!TotpAnswer
<1>20. CASE Access!CreateAnswer
  <2> PICK g : g = ui.http["create"].what
    OBVIOUS
  <2> PICK u \in Access!Pages : u = Access!Ended("create") /\ u.accesses \in Seq(Grants)
    BY <1>16 DEF Access!Slots
  <2>1. g \in Grants
    BY <1>17, <1>20 DEF Access!CreateAnswer, AccessInv, AccessGood, AccessForms, Access!Answered, Access!Slots
  <2> PICK a \in Seq(Grants) : a = First(g, u.accesses)
    BY <2>1, Prepended
  <2>2. [u EXCEPT !.accesses = a, !.token = g, !.view = "created"] \in Access!Pages
    BY <2>1, ZenonT(40) DEF Access!Pages
  <2>3. [u EXCEPT !.accesses = a, !.token = g, !.view = "created"].http = u.http
    BY DEF Access!Pages
  <2>4. AccessPage([u EXCEPT !.accesses = a, !.token = g, !.view = "created"])
    BY <1>15, <2>2, <2>3, Zenon DEF Access!Slots
  <2>5. Access!Become([u EXCEPT !.accesses = <<g>> \o u.accesses, !.token = g, !.view = "created"])
    BY <1>20 DEF Access!CreateAnswer
  <2> QED BY <1>3, <2>4, <2>5 DEF First
<1>21. CASE Access!RevokeAnswer
  <2> PICK u \in Access!Pages : u = Access!Ended("revoke") /\ u.accesses \in Seq(Grants)
    BY <1>16 DEF Access!Slots
  <2> PICK a \in Seq(Grants) : a = Access!Filter(u.accesses, Grants \ {ui.http["revoke"].what})
    BY AccessFilter, FilterKeeps
  <2>1. [u EXCEPT !.accesses = a, !.selected = None, !.view = "list"] \in Access!Pages
    BY ZenonT(40) DEF Access!Pages
  <2>2. [u EXCEPT !.accesses = a, !.selected = None, !.view = "list"].http = u.http
    BY DEF Access!Pages
  <2>3. AccessPage([u EXCEPT !.accesses = a, !.selected = None, !.view = "list"])
    BY <1>15, <2>1, <2>2, Zenon DEF Access!Slots
  <2>4. Access!Become([u EXCEPT !.accesses = a, !.selected = None, !.view = "list"])
    BY <1>21 DEF Access!RevokeAnswer
  <2> QED BY <1>3, <2>3, <2>4
<1>22. ASSUME NEW k \in Access!Slots
       PROVE  AccessPage(Access!Ended(k))
  BY <1>1, AccessEnded
<1> QED
  BY <1>5, <1>6, <1>7, <1>8, <1>9, <1>10, <1>11, <1>12, <1>13, <1>14, <1>18, <1>19, <1>20, <1>21, <1>22 DEF Access!Next

LEMMA AccessFields ==
  ASSUME Access!TypeOK, NEW k \in Access!Slots
  PROVE  LET u == Access!Ended(k) IN
         /\ u.http = [ui.http EXCEPT ![k] = None] /\ DOMAIN ui.http = Access!Slots
         /\ u.ledger = ui.ledger /\ u.open = ui.open /\ u.view = ui.view /\ u.accesses = ui.accesses
         /\ u.selected = ui.selected /\ u.loadError = ui.loadError /\ u.lost = ui.lost /\ u.rebound = ui.rebound
         /\ u \in Access!Pages
<1>1. Access!Ended(k) \in Access!Pages
  BY AccessEnded DEF AccessPage
<1> QED BY <1>1 DEF Access!TypeOK, Access!Pages, Access!Ended, Access!Slots

\* AccessShows is about the list, the forms and their exchanges.
LEMMA AccessSame ==
  ASSUME AccessShows, UNCHANGED server, ui'.ledger = ui.ledger, ui'.accesses = ui.accesses,
         ui'.view = ui.view, ui'.selected = ui.selected,
         ui'.open /\ ~ ui'.loadError /\ ~ ui'.lost /\ ui'.http["list"] = None
           => ui.open /\ ~ ui.loadError /\ ~ ui.lost /\ ui.http["list"] = None,
         ui'.http["list"] \in {ui.http["list"], None},
         \A k \in {"create", "revoke"} :
           \/ ui'.http[k] = ui.http[k]
           \/ ui.http[k] # None /\ ui.http[k].at # "answered" /\ (ui'.http[k] = None \/ ui'.http[k].at # "answered")
           \/ ui'.lost
  PROVE  AccessShows'
BY DEF AccessShows

LEMMA AccessShownOn ==
  ASSUME AccessInv, Access!Next, ~ ui.rebound
  PROVE  /\ \A g \in Grants : Access!ShowRevoke(g) => AccessShows'
         /\ \A k \in Access!Slots : Access!Refused(k) \/ Access!Lose(k) => AccessShows'
         /\ Access!ListAnswer \/ Access!TotpAnswer \/ Access!CreateAnswer \/ Access!RevokeAnswer => AccessShows'
<1>1. Access!TypeOK /\ AccessForms /\ AccessWaits /\ AccessShows
  BY DEF AccessInv, AccessGood
<1> DEFINE shown == Elements(ui.accesses)
<1>2. ui.accesses \in Seq(Grants) /\ shown \subseteq Grants
  BY <1>1 DEF Access!TypeOK, Access!Pages, Elements
<1>3. ASSUME NEW g \in Grants, Access!ShowRevoke(g)
      PROVE  AccessShows'
  <2>1. /\ ui'.ledger = ui.ledger /\ ui'.accesses = ui.accesses /\ ui'.open = ui.open /\ ui'.loadError = ui.loadError
        /\ ui'.lost = ui.lost /\ ui'.http = ui.http /\ ui'.view = "revoke" /\ ui'.selected = g /\ UNCHANGED server
    BY <1>1, <1>3 DEF Access!ShowRevoke, Access!Become, Access!TypeOK, Access!Pages
  <2>2. g \in shown
    BY <1>3 DEF Access!ShowRevoke, Access!Range, Elements
  <2> QED BY <1>1, <2>1, <2>2 DEF AccessShows
<1>4. ASSUME NEW k \in Access!Slots, Access!Refused(k)
      PROVE  AccessShows'
  <2>1. ui.http[k] # None /\ ui.http[k].at = "refused" /\ ui' = Access!Ended(k) /\ UNCHANGED server
    BY <1>4 DEF Access!Refused, Access!Become
  <2>2. k # "list"
    BY <1>1, <2>1 DEF AccessForms
  <2> PICK u : u = Access!Ended(k) /\ u.http = [ui.http EXCEPT ![k] = None] /\ DOMAIN ui.http = Access!Slots
               /\ u.ledger = ui.ledger /\ u.open = ui.open /\ u.view = ui.view /\ u.accesses = ui.accesses
               /\ u.selected = ui.selected /\ u.loadError = ui.loadError /\ u.lost = ui.lost
    BY <1>1, AccessFields
  <2>3. \A j \in {"list", "create", "revoke"} : ui'.http[j] = ui.http[j] \/ (j = k /\ ui'.http[j] = None)
    BY <2>1 DEF Access!Slots
  <2> QED BY <1>1, <2>1, <2>2, <2>3, AccessSame
<1>5. ASSUME NEW k \in Access!Slots, Access!Lose(k)
      PROVE  AccessShows'
  <2> PICK u \in Access!Pages : u = Access!Ended(k) /\ u.http = [ui.http EXCEPT ![k] = None] /\ DOMAIN ui.http = Access!Slots
        /\ u.ledger = ui.ledger /\ u.open = ui.open /\ u.view = ui.view /\ u.accesses = ui.accesses
        /\ u.selected = ui.selected /\ u.loadError = ui.loadError /\ u.lost = ui.lost
    BY <1>1, AccessFields
  <2>1. /\ ui.http[k] # None /\ ui.http[k].at # "refused" /\ UNCHANGED server
        /\ ui' = [u EXCEPT !.loadError = @ \/ k = "list", !.totpError = @ \/ k = "totp",
                           !.lost = @ \/ (k \in {"create", "revoke"} /\ ui.http[k].at = "answered")]
    BY <1>5, Zenon DEF Access!Lose, Access!Become
  <2>2. /\ ui'.http = u.http /\ ui'.ledger = ui.ledger /\ ui'.open = ui.open /\ ui'.view = ui.view /\ ui'.accesses = ui.accesses
        /\ ui'.selected = ui.selected
    BY <2>1 DEF Access!Pages
  <2>3. ui'.loadError = (ui.loadError \/ k = "list")
    BY <2>1 DEF Access!Pages
  <2>4. ui'.lost = (ui.lost \/ (k \in {"create", "revoke"} /\ ui.http[k].at = "answered"))
    BY <2>1 DEF Access!Pages
  <2>5. ui'.open /\ ~ ui'.loadError /\ ~ ui'.lost /\ ui'.http["list"] = None
          => ui.open /\ ~ ui.loadError /\ ~ ui.lost /\ ui.http["list"] = None
    BY <2>2, <2>3, <2>4, Zenon DEF Access!Slots
  <2>6. \A j \in {"create", "revoke"} :
          ui'.http[j] = ui.http[j] \/ (j = k /\ ui'.http[j] = None /\ ui.http[j] # None /\ (ui.http[j].at = "answered" => ui'.lost))
    <3> TAKE j \in {"create", "revoke"}
    <3>1. CASE j = k
      BY <2>1, <2>2, <2>4, <3>1, Zenon DEF Access!Slots
    <3>2. CASE j # k
      BY <2>2, <3>2 DEF Access!Slots
    <3> QED BY <3>1, <3>2
  <2>7. ui'.http["list"] \in {ui.http["list"], None}
    BY <2>2 DEF Access!Slots
  <2>8. UNCHANGED server
    BY <2>1
  <2> QED BY <1>1, <2>2, <2>5, <2>6, <2>7, <2>8, AccessSame
<1>6. ASSUME Access!TotpAnswer
      PROVE  AccessShows'
  <2> PICK u \in Access!Pages : u = Access!Ended("totp") /\ u.http = [ui.http EXCEPT !["totp"] = None] /\ DOMAIN ui.http = Access!Slots
        /\ u.ledger = ui.ledger /\ u.open = ui.open /\ u.view = ui.view /\ u.accesses = ui.accesses
        /\ u.selected = ui.selected /\ u.loadError = ui.loadError /\ u.lost = ui.lost
    BY <1>1, AccessFields DEF Access!Slots
  <2>1. ui' = [u EXCEPT !.totpKnown = TRUE] /\ UNCHANGED server
    BY <1>6 DEF Access!TotpAnswer, Access!Become
  <2>2. /\ ui'.http = u.http /\ ui'.ledger = ui.ledger /\ ui'.open = ui.open /\ ui'.view = ui.view /\ ui'.accesses = ui.accesses
        /\ ui'.selected = ui.selected /\ ui'.loadError = ui.loadError /\ ui'.lost = ui.lost
    BY <2>1 DEF Access!Pages
  <2>3. \A j \in {"list", "create", "revoke"} : ui'.http[j] = ui.http[j]
    BY <2>2 DEF Access!Slots
  <2> QED BY <1>1, <2>1, <2>2, <2>3, AccessSame
<1>7. ASSUME Access!ListAnswer
      PROVE  AccessShows'
  <2> PICK a : a = Access!Listed(ui.http["list"].what)
    OBVIOUS
  <2> PICK u \in Access!Pages : u = Access!Ended("list") /\ u.http = [ui.http EXCEPT !["list"] = None] /\ DOMAIN ui.http = Access!Slots
        /\ u.ledger = ui.ledger /\ u.open = ui.open /\ u.view = ui.view
    BY <1>1, AccessFields DEF Access!Slots
  <2>1. ui' = [u EXCEPT !.accesses = a, !.lost = FALSE] /\ UNCHANGED server /\ ui.http["list"] # None /\ ui.http["list"].at = "answered"
    BY <1>7 DEF Access!ListAnswer, Access!Become, Access!Answered
  <2>2. ui'.http = u.http /\ ui'.ledger = ui.ledger /\ ui'.open = ui.open /\ ui'.view = ui.view /\ ui'.accesses = a
    BY <2>1 DEF Access!Pages
  <2>3. ui.http["list"].what \in SUBSET Grants /\ IsFiniteSet(ui.http["list"].what)
    BY <1>1, <2>1 DEF AccessForms, Access!TypeOK, Access!Exchanges, Access!Asked
  <2>4. Elements(a) = ui.http["list"].what /\ EachOnce(a)
    <3> PICK S \in SUBSET Grants : S = ui.http["list"].what /\ IsFiniteSet(S)
      BY <2>3
    <3> QED BY AccessListed
  <2>5. ui.http["list"].what = server.active[ui.ledger]
    BY <1>1, <2>1 DEF AccessShows
  <2>6. ui.view = "list" /\ ui.http["create"] = None /\ ui.http["revoke"] = None
    BY <1>1, <2>1 DEF AccessWaits
  <2>7. ui'.view = "list" /\ ui'.http["create"] = None /\ ui'.http["revoke"] = None /\ ui'.http["list"] = None
    BY <2>2, <2>6 DEF Access!Slots
  <2>8. UNCHANGED server
    BY <2>1
  <2> QED BY <2>2, <2>4, <2>5, <2>7, <2>8 DEF AccessShows
<1>8. ASSUME Access!CreateAnswer
      PROVE  AccessShows'
  <2> PICK g : g = ui.http["create"].what
    OBVIOUS
  <2> PICK u \in Access!Pages : u = Access!Ended("create") /\ u.http = [ui.http EXCEPT !["create"] = None] /\ DOMAIN ui.http = Access!Slots
        /\ u.ledger = ui.ledger /\ u.open = ui.open /\ u.accesses = ui.accesses
        /\ u.loadError = ui.loadError /\ u.lost = ui.lost
    BY <1>1, AccessFields DEF Access!Slots
  <2> PICK a : a = First(g, ui.accesses)
    OBVIOUS
  <2>1. ui' = [u EXCEPT !.accesses = a, !.token = g, !.view = "created"] /\ UNCHANGED server
        /\ ui.http["create"] # None /\ ui.http["create"].at = "answered"
    BY <1>8, Zenon DEF Access!CreateAnswer, Access!Become, Access!Answered, First
  <2>2. ui'.http = u.http /\ ui'.ledger = ui.ledger /\ ui'.open = ui.open /\ ui'.view = "created" /\ ui'.accesses = a
        /\ ui'.loadError = ui.loadError /\ ui'.lost = ui.lost
    BY <2>1 DEF Access!Pages
  <2>3. g \in Grants
    BY <1>1, <2>1 DEF AccessForms, Access!TypeOK, Access!Exchanges, Access!Asked, Access!Slots
  <2>4. Elements(a) = shown \cup {g}
        /\ (EachOnce(ui.accesses) /\ g \notin shown
              => EachOnce(a))
    BY <1>2, <2>3, Prepended
  <2>5. ui.view = "create" /\ ui.http["list"] = None /\ ui.http["revoke"] = None
    BY <1>1, <2>1 DEF AccessWaits
  <2>6. ui'.http["create"] = None /\ ui'.http["revoke"] = None /\ ui'.http["list"] = None
    BY <2>2, <2>5 DEF Access!Slots
  <2>7. ui'.open /\ ~ ui'.loadError /\ ~ ui'.lost
          => /\ g \notin shown /\ server.active[ui.ledger] = shown \cup {g}
             /\ EachOnce(ui.accesses)
    BY <1>1, <2>1, <2>2, <2>5 DEF AccessShows
  <2>8. UNCHANGED server
    BY <2>1
  <2> QED BY <2>2, <2>4, <2>6, <2>7, <2>8 DEF AccessShows
<1>9. ASSUME Access!RevokeAnswer
      PROVE  AccessShows'
  <2> PICK g : g = ui.http["revoke"].what
    OBVIOUS
  <2> PICK u \in Access!Pages : u = Access!Ended("revoke") /\ u.http = [ui.http EXCEPT !["revoke"] = None] /\ DOMAIN ui.http = Access!Slots
        /\ u.ledger = ui.ledger /\ u.open = ui.open /\ u.accesses = ui.accesses
        /\ u.loadError = ui.loadError /\ u.lost = ui.lost
    BY <1>1, AccessFields DEF Access!Slots
  <2> PICK a : a = Filter(ui.accesses, Grants \ {g})
    OBVIOUS
  <2>1. ui' = [u EXCEPT !.accesses = a, !.selected = None, !.view = "list"] /\ UNCHANGED server
        /\ ui.http["revoke"] # None /\ ui.http["revoke"].at = "answered"
    BY <1>9, AccessFilter, Zenon DEF Access!RevokeAnswer, Access!Become, Access!Answered
  <2>2. ui'.http = u.http /\ ui'.ledger = ui.ledger /\ ui'.open = ui.open /\ ui'.view = "list" /\ ui'.accesses = a
        /\ ui'.loadError = ui.loadError /\ ui'.lost = ui.lost
    BY <2>1 DEF Access!Pages
  <2>3. Elements(a) = shown \cap (Grants \ {g})
        /\ (EachOnce(ui.accesses)
              => EachOnce(a))
    BY <1>2, FilterKeeps
  <2>4. Elements(a) = shown \ {g}
    BY <1>2, <2>3, Zenon
  <2>5. ui.view = "revoke" /\ ui.http["list"] = None /\ ui.http["create"] = None
    BY <1>1, <2>1 DEF AccessWaits
  <2>6. ui'.http["create"] = None /\ ui'.http["revoke"] = None /\ ui'.http["list"] = None
    BY <2>2, <2>5 DEF Access!Slots
  <2>7. ui'.open /\ ~ ui'.loadError /\ ~ ui'.lost
          => /\ server.active[ui.ledger] = shown \ {g}
             /\ EachOnce(ui.accesses)
    BY <1>1, <2>1, <2>2, <2>5 DEF AccessShows
  <2>8. UNCHANGED server
    BY <2>1
  <2> QED BY <2>2, <2>3, <2>4, <2>6, <2>7, <2>8, Zenon DEF AccessShows
<1> QED BY <1>3, <1>4, <1>5, <1>6, <1>7, <1>8, <1>9

LEMMA AccessSlot ==
  ASSUME Access!TypeOK, NEW k \in Access!Slots
  PROVE  ui.http[k] \in Access!Exchanges(IF k = "list" THEN SUBSET Grants ELSE Grants \cup {None})
BY Zenon DEF Access!TypeOK

LEMMA AccessServed ==
  ASSUME AccessInv, NEW k \in Access!Slots, Access!Serve(k)
  PROVE  AccessGood'
<1>1. Access!TypeOK /\ AccessGood /\ DOMAIN ui.http = Access!Slots /\ ui \in Access!Pages
  BY Zenon DEF AccessInv, Access!TypeOK, Access!Pages
<1>2. ui.http[k] # None /\ ui.http[k].at = "sent"
      /\ ui.http[k] \in Access!Asked(IF k = "list" THEN SUBSET Grants ELSE Grants \cup {None})
  BY <1>1, AccessSlot, Zenon DEF Access!Serve, Access!Exchanges
<1>3. ui.http[k].ledger \in Ledgers /\ ui.http[k].what \in IF k = "list" THEN SUBSET Grants ELSE Grants \cup {None}
  BY <1>2 DEF Access!Asked
<1>4. ASSUME NEW how \in {"answered", "refused"}, NEW what \in IF k = "list" THEN SUBSET Grants ELSE Grants \cup {None},
             Access!Reply(k, how, what)
      PROVE  /\ Access!BusyIsPending' /\ Access!SecretsStayInView'
             /\ ui'.http[k] # None /\ ui'.http[k].at = how /\ ui'.http[k].what = what /\ ui'.http[k].ledger = ui.http[k].ledger
             /\ \A j \in Access!Slots \ {k} : ui'.http[j] = ui.http[j]
             /\ ui'.ledger = ui.ledger /\ ui'.open = ui.open /\ ui'.view = ui.view /\ ui'.accesses = ui.accesses
             /\ ui'.selected = ui.selected /\ ui'.loadError = ui.loadError /\ ui'.lost = ui.lost /\ ui'.rebound = ui.rebound
  <2>1. PICK q : /\ q # None /\ q.at = how /\ q.what = what /\ q.ledger = ui.http[k].ledger
                 /\ ui' = [ui EXCEPT !.http[k] = q]
    BY <1>1, <1>2, <1>4, AccessReplied
  <2>2. /\ ui'.http = [ui.http EXCEPT ![k] = q]
        /\ ui'.ledger = ui.ledger /\ ui'.open = ui.open /\ ui'.view = ui.view /\ ui'.accesses = ui.accesses
        /\ ui'.selected = ui.selected /\ ui'.loadError = ui.loadError /\ ui'.lost = ui.lost /\ ui'.rebound = ui.rebound
        /\ ui'.loading = ui.loading /\ ui'.loadingTotp = ui.loadingTotp /\ ui'.creating = ui.creating
        /\ ui'.revoking = ui.revoking /\ ui'.token = ui.token
    BY <1>1, <2>1 DEF Access!Pages
  <2>3. ui'.http[k] = q /\ \A j \in Access!Slots \ {k} : ui'.http[j] = ui.http[j]
    BY <1>1, <2>2
  <2>4. \A j \in Access!Slots : ui'.http[j] # None <=> ui.http[j] # None
    BY <1>2, <2>1, <2>3
  <2>5. Access!BusyIsPending'
    BY <1>1, <2>2, <2>4 DEF AccessGood, Access!BusyIsPending, Access!Slots
  <2>6. Access!SecretsStayInView'
    BY <1>1, <2>2 DEF AccessGood, Access!SecretsStayInView
  <2> QED BY <2>1, <2>2, <2>3, <2>5, <2>6
<1>5. AccessForms /\ (~ ui.rebound => AccessWaits /\ AccessShows) /\ (\A l \in Ledgers : server.active[l] \subseteq Grants)
  BY <1>1 DEF AccessGood, Access!TypeOK
<1>6. CASE k \in {"create", "revoke"} /\ Access!Reply(k, "refused", ui.http[k].what) /\ UNCHANGED server
  <2>1. AccessForms' /\ (~ ui'.rebound => AccessWaits')
    BY <1>2, <1>3, <1>4, <1>5, <1>6 DEF AccessForms, AccessWaits, Access!Slots
  <2>2. ~ ui'.rebound => AccessShows'
    BY <1>2, <1>3, <1>4, <1>5, <1>6 DEF AccessShows, Access!Slots
  <2> QED BY <1>3, <1>4, <1>6, <2>1, <2>2 DEF AccessGood
<1>7. CASE k = "list" /\ Access!ServeList
  <2> PICK S \in SUBSET Grants : S = server.active[ui.http["list"].ledger] /\ IsFiniteSet(S)
    BY <1>3, <1>5, <1>7 DEF AccessForms
  <2>0. Access!Reply(k, "answered", S) /\ UNCHANGED server
    BY <1>7 DEF Access!ServeList
  <2>1. AccessForms' /\ (~ ui'.rebound => AccessWaits')
    BY <1>2, <1>4, <1>5, <1>7, <2>0 DEF AccessForms, AccessWaits, Access!Slots
  <2>2. ~ ui'.rebound => AccessShows'
    BY <1>2, <1>4, <1>5, <1>7, <2>0 DEF AccessShows, AccessWaits, Access!Slots
  <2> QED BY <1>4, <1>7, <2>0, <2>1, <2>2 DEF AccessGood
<1>8. CASE k = "totp" /\ Access!Reply(k, "answered", None) /\ UNCHANGED server
  <2>1. AccessForms' /\ (~ ui'.rebound => AccessWaits')
    BY <1>2, <1>4, <1>5, <1>8 DEF AccessForms, AccessWaits, Access!Slots
  <2>2. ~ ui'.rebound => AccessShows'
    BY <1>2, <1>4, <1>5, <1>8, AccessSame DEF Access!Slots
  <2> QED BY <1>4, <1>8, <2>1, <2>2 DEF AccessGood
<1>9. CASE k = "create" /\ Access!ServeCreate
  <2> PICK l \in Ledgers : l = ui.http["create"].ledger
    BY <1>3, <1>9
  <2> PICK g \in Grants \ server.created :
        /\ server' = [server EXCEPT !.active[l] = @ \cup {g}, !.created = @ \cup {g}]
        /\ Access!Reply("create", "answered", g)
    BY <1>9, Zenon DEF Access!ServeCreate
  <2>1. g # None /\ g \in Grants \cup {None}
    BY NoneAssumption
  <2>2. /\ server'.active = [server.active EXCEPT ![l] = server.active[l] \cup {g}]
        /\ server'.created = server.created \cup {g} /\ server.active \in [Ledgers -> SUBSET Grants]
    BY <1>1 DEF Access!TypeOK
  <2>3. IsFiniteSet(server.active[l] \cup {g})
    BY <1>5, FS_AddElement, Zenon DEF AccessForms
  <2>4. \A j \in Ledgers : IsFiniteSet(server'.active[j]) /\ server'.active[j] \subseteq server'.created
    <3> TAKE j \in Ledgers
    <3>1. CASE j = l
      BY <1>5, <2>2, <2>3, <3>1 DEF AccessForms
    <3>2. CASE j # l
      BY <1>5, <2>2, <3>2 DEF AccessForms
    <3> QED BY <3>1, <3>2
  <2>5. AccessForms'
    BY <1>2, <1>4, <1>5, <1>9, <2>1, <2>4, Zenon DEF AccessForms, Access!Slots
  <2>6. ~ ui'.rebound => AccessWaits'
    BY <1>2, <1>4, <1>5, <1>9, <2>1 DEF AccessWaits, Access!Slots
  <2>7. ASSUME ~ ui'.rebound
        PROVE  AccessShows'
    <3>1. AccessWaits /\ AccessShows /\ ui.view = "create" /\ l = ui.ledger /\ ui.http["list"] = None /\ ui.http["revoke"] = None
      BY <1>2, <1>4, <1>5, <1>9, <2>1, <2>7 DEF AccessWaits
    <3>2. g \notin server.active[l] /\ server'.active[ui.ledger] = server.active[ui.ledger] \cup {g}
      BY <1>5, <2>2, <3>1 DEF AccessForms
    <3> QED BY <1>2, <1>4, <1>9, <2>1, <3>1, <3>2 DEF AccessShows, Access!Slots
  <2> QED BY <1>4, <1>9, <2>1, <2>5, <2>6, <2>7 DEF AccessGood
<1>10. CASE k = "revoke" /\ Access!ServeRevoke
  <2> PICK l \in Ledgers : l = ui.http["revoke"].ledger
    BY <1>3, <1>10
  <2> PICK g \in Grants \cup {None} : g = ui.http["revoke"].what
    BY <1>3, <1>10
  <2>1. server' = [server EXCEPT !.active[l] = @ \ {g}] /\ Access!Reply("revoke", "answered", g)
    BY <1>10 DEF Access!ServeRevoke
  <2>2. /\ server'.active = [server.active EXCEPT ![l] = server.active[l] \ {g}]
        /\ server'.created = server.created /\ server.active \in [Ledgers -> SUBSET Grants]
    BY <1>1, <2>1 DEF Access!TypeOK
  <2>3. IsFiniteSet(server.active[l] \ {g})
    BY <1>5, FS_Subset DEF AccessForms
  <2>4. \A j \in Ledgers : IsFiniteSet(server'.active[j]) /\ server'.active[j] \subseteq server'.created
    <3> TAKE j \in Ledgers
    <3>1. CASE j = l
      BY <1>5, <2>2, <2>3, <3>1 DEF AccessForms
    <3>2. CASE j # l
      BY <1>5, <2>2, <3>2 DEF AccessForms
    <3> QED BY <3>1, <3>2
  <2>5. AccessForms'
    BY <1>2, <1>4, <1>5, <1>10, <2>1, <2>4, Zenon DEF AccessForms, Access!Slots
  <2>6. ~ ui'.rebound => AccessWaits'
    BY <1>2, <1>4, <1>5, <1>10, <2>1 DEF AccessWaits, Access!Slots
  <2>7. ASSUME ~ ui'.rebound
        PROVE  AccessShows'
    <3>1. AccessWaits /\ AccessShows /\ ui.view = "revoke" /\ l = ui.ledger /\ ui.http["list"] = None /\ ui.http["create"] = None
      BY <1>2, <1>4, <1>5, <1>10, <2>1, <2>7 DEF AccessWaits
    <3>2. server'.active[ui.ledger] = server.active[ui.ledger] \ {g}
      BY <2>2, <3>1
    <3> QED BY <1>2, <1>4, <1>10, <2>1, <3>1, <3>2 DEF AccessShows, Access!Slots
  <2> QED BY <1>4, <1>10, <2>1, <2>5, <2>6, <2>7 DEF AccessGood
<1> QED BY <1>6, <1>7, <1>8, <1>9, <1>10 DEF Access!Serve

LEMMA AccessKept ==
  ASSUME AccessInv, Access!Next
  PROVE  AccessGood'
<1>s. \A k \in Access!Slots : Access!Serve(k) => AccessGood'
  BY AccessServed
<1>a. ~ ui.rebound => /\ \A g \in Grants : Access!ShowRevoke(g) => AccessShows'
                      /\ \A k \in Access!Slots : Access!Refused(k) \/ Access!Lose(k) => AccessShows'
                      /\ Access!ListAnswer \/ Access!TotpAnswer \/ Access!CreateAnswer \/ Access!RevokeAnswer => AccessShows'
  BY AccessShownOn
<1>b. IsFiniteSet({})
  BY FS_EmptySet
<1> USE NoneAssumption
    DEF AccessInv, AccessGood, Access!TypeOK, Access!BusyIsPending, Access!SecretsStayInView, AccessForms, AccessWaits,
        Access!Pages, Access!Exchanges, Access!Asked, Access!Slots, Access!Become, Access!Busy, Access!Ask, Access!ResetDialog,
        Access!LoadAccesses, Access!LoadTotpStatus, Access!Effect, Access!ListShown, Access!Answered, Access!Ended
<1>1. CASE Access!Open
  <2>1. Access!BusyIsPending'
    BY <1>1 DEF Access!Open
  <2>2. Access!SecretsStayInView'
    BY <1>1 DEF Access!Open
  <2>3. AccessForms'
    BY <1>1 DEF Access!Open
  <2>4. (~ ui.rebound => AccessWaits)'
    BY <1>1 DEF Access!Open
  <2>5. (~ ui.rebound => AccessShows)'
    BY <1>1 DEF Access!Open, AccessShows
  <2> QED BY <2>1, <2>2, <2>3, <2>4, <2>5
<1>2. CASE Access!RequestClose
  <2>1. Access!BusyIsPending'
    BY <1>2 DEF Access!RequestClose
  <2>2. Access!SecretsStayInView'
    BY <1>2 DEF Access!RequestClose
  <2>3. AccessForms'
    BY <1>2 DEF Access!RequestClose
  <2>4. (~ ui.rebound => AccessWaits)'
    BY <1>2 DEF Access!RequestClose
  <2>5. (~ ui.rebound => AccessShows)'
    BY <1>2 DEF Access!RequestClose, AccessShows
  <2> QED BY <2>1, <2>2, <2>3, <2>4, <2>5
<1>3. CASE Access!RetryAccesses
  <2>1. Access!BusyIsPending'
    BY <1>3 DEF Access!RetryAccesses
  <2>2. Access!SecretsStayInView'
    BY <1>3 DEF Access!RetryAccesses
  <2>3. AccessForms'
    BY <1>3, <1>b DEF Access!RetryAccesses
  <2>4. (~ ui.rebound => AccessWaits)'
    BY <1>3 DEF Access!RetryAccesses
  <2>5. (~ ui.rebound => AccessShows)'
    BY <1>3 DEF Access!RetryAccesses, AccessShows
  <2> QED BY <2>1, <2>2, <2>3, <2>4, <2>5
<1>4. CASE Access!RetryTotpStatus
  <2>1. Access!BusyIsPending'
    BY <1>4 DEF Access!RetryTotpStatus
  <2>2. Access!SecretsStayInView'
    BY <1>4 DEF Access!RetryTotpStatus
  <2>3. AccessForms'
    BY <1>4 DEF Access!RetryTotpStatus
  <2>4. (~ ui.rebound => AccessWaits)'
    BY <1>4 DEF Access!RetryTotpStatus
  <2>5. (~ ui.rebound => AccessShows)'
    BY <1>4 DEF Access!RetryTotpStatus, AccessShows
  <2> QED BY <2>1, <2>2, <2>3, <2>4, <2>5
<1>5. CASE Access!ShowCreate
  <2>1. Access!BusyIsPending'
    BY <1>5 DEF Access!ShowCreate
  <2>2. Access!SecretsStayInView'
    BY <1>5 DEF Access!ShowCreate
  <2>3. AccessForms'
    BY <1>5 DEF Access!ShowCreate
  <2>4. (~ ui.rebound => AccessWaits)'
    BY <1>5 DEF Access!ShowCreate
  <2>5. (~ ui.rebound => AccessShows)'
    BY <1>5 DEF Access!ShowCreate, AccessShows
  <2> QED BY <2>1, <2>2, <2>3, <2>4, <2>5
<1>6. CASE Access!ShowList
  <2>1. Access!BusyIsPending'
    BY <1>6 DEF Access!ShowList
  <2>2. Access!SecretsStayInView'
    BY <1>6 DEF Access!ShowList
  <2>3. AccessForms'
    BY <1>6 DEF Access!ShowList
  <2>4. (~ ui.rebound => AccessWaits)'
    BY <1>6 DEF Access!ShowList
  <2>5. (~ ui.rebound => AccessShows)'
    BY <1>6 DEF Access!ShowList, AccessShows
  <2> QED BY <2>1, <2>2, <2>3, <2>4, <2>5
<1>7. CASE Access!CreateAccess
  <2>1. Access!BusyIsPending'
    BY <1>7 DEF Access!CreateAccess
  <2>2. Access!SecretsStayInView'
    BY <1>7 DEF Access!CreateAccess
  <2>3. AccessForms'
    BY <1>7 DEF Access!CreateAccess
  <2>4. (~ ui.rebound => AccessWaits)'
    BY <1>7 DEF Access!CreateAccess
  <2>5. (~ ui.rebound => AccessShows)'
    BY <1>7 DEF Access!CreateAccess, AccessShows
  <2> QED BY <2>1, <2>2, <2>3, <2>4, <2>5
<1>8. CASE Access!RevokeAccess
  <2>1. Access!BusyIsPending'
    BY <1>8 DEF Access!RevokeAccess
  <2>2. Access!SecretsStayInView'
    BY <1>8 DEF Access!RevokeAccess
  <2>3. AccessForms'
    BY <1>8 DEF Access!RevokeAccess
  <2>4. (~ ui.rebound => AccessWaits)'
    BY <1>8 DEF Access!RevokeAccess
  <2>5. (~ ui.rebound => AccessShows)'
    BY <1>8 DEF Access!RevokeAccess, AccessShows
  <2> QED BY <2>1, <2>2, <2>3, <2>4, <2>5
<1>9. ASSUME NEW l \in Ledgers, Access!Rebind(l)
      PROVE  AccessGood'
  <2>1. Access!BusyIsPending'
    BY <1>9 DEF Access!Rebind
  <2>2. Access!SecretsStayInView'
    BY <1>9 DEF Access!Rebind
  <2>3. AccessForms'
    BY <1>9 DEF Access!Rebind
  <2>4. (~ ui.rebound => AccessWaits)'
    BY <1>9 DEF Access!Rebind
  <2>5. (~ ui.rebound => AccessShows)'
    BY <1>9 DEF Access!Rebind, AccessShows
  <2> QED BY <2>1, <2>2, <2>3, <2>4, <2>5
<1>10. ASSUME NEW g \in Grants, Access!ShowRevoke(g)
      PROVE  AccessGood'
  <2>1. Access!BusyIsPending'
    BY <1>10 DEF Access!ShowRevoke
  <2>2. Access!SecretsStayInView'
    BY <1>10 DEF Access!ShowRevoke
  <2>3. AccessForms'
    BY <1>10 DEF Access!ShowRevoke
  <2>4. (~ ui.rebound => AccessWaits)'
    BY <1>10 DEF Access!ShowRevoke
  <2>5. (~ ui.rebound => AccessShows)'
    <3>1. ui'.rebound = ui.rebound
      BY <1>10 DEF Access!ShowRevoke
    <3> HIDE DEF AccessInv, AccessGood, Access!TypeOK
    <3> QED BY <1>a, <1>10, <3>1
  <2> QED BY <2>1, <2>2, <2>3, <2>4, <2>5
<1>11. ASSUME NEW k \in Access!Slots, Access!Refused(k)
      PROVE  AccessGood'
  <2>1. Access!BusyIsPending'
    BY <1>11 DEF Access!Refused
  <2>2. Access!SecretsStayInView'
    BY <1>11 DEF Access!Refused
  <2>3. AccessForms'
    BY <1>11 DEF Access!Refused
  <2>4. (~ ui.rebound => AccessWaits)'
    BY <1>11 DEF Access!Refused
  <2>5. (~ ui.rebound => AccessShows)'
    <3>1. ui'.rebound = ui.rebound
      BY <1>11 DEF Access!Refused
    <3> HIDE DEF AccessInv, AccessGood, Access!TypeOK
    <3> QED BY <1>a, <1>11, <3>1
  <2> QED BY <2>1, <2>2, <2>3, <2>4, <2>5
<1>12. ASSUME NEW k \in Access!Slots, Access!Lose(k)
      PROVE  AccessGood'
  <2>1. Access!BusyIsPending'
    BY <1>12 DEF Access!Lose
  <2>2. Access!SecretsStayInView'
    BY <1>12 DEF Access!Lose
  <2>3. AccessForms'
    BY <1>12 DEF Access!Lose
  <2>4. (~ ui.rebound => AccessWaits)'
    BY <1>12 DEF Access!Lose
  <2>5. (~ ui.rebound => AccessShows)'
    <3>1. ui'.rebound = ui.rebound
      BY <1>12 DEF Access!Lose
    <3> HIDE DEF AccessInv, AccessGood, Access!TypeOK
    <3> QED BY <1>a, <1>12, <3>1
  <2> QED BY <2>1, <2>2, <2>3, <2>4, <2>5
<1>13. CASE Access!ListAnswer
  <2>1. Access!BusyIsPending'
    BY <1>13, Zenon DEF Access!ListAnswer
  <2>2. Access!SecretsStayInView'
    BY <1>13, Zenon DEF Access!ListAnswer
  <2>3. AccessForms'
    BY <1>13, Zenon DEF Access!ListAnswer
  <2>4. (~ ui.rebound => AccessWaits)'
    BY <1>13, Zenon DEF Access!ListAnswer
  <2>5. (~ ui.rebound => AccessShows)'
    <3>1. ui'.rebound = ui.rebound
      BY <1>13, Zenon DEF Access!ListAnswer
    <3> HIDE DEF AccessInv, AccessGood, Access!TypeOK
    <3> QED BY <1>a, <1>13, <3>1
  <2> QED BY <2>1, <2>2, <2>3, <2>4, <2>5
<1>14. CASE Access!TotpAnswer
  <2>1. Access!BusyIsPending'
    BY <1>14, Zenon DEF Access!TotpAnswer
  <2>2. Access!SecretsStayInView'
    BY <1>14, Zenon DEF Access!TotpAnswer
  <2>3. AccessForms'
    BY <1>14, Zenon DEF Access!TotpAnswer
  <2>4. (~ ui.rebound => AccessWaits)'
    BY <1>14, Zenon DEF Access!TotpAnswer
  <2>5. (~ ui.rebound => AccessShows)'
    <3>1. ui'.rebound = ui.rebound
      BY <1>14, Zenon DEF Access!TotpAnswer
    <3> HIDE DEF AccessInv, AccessGood, Access!TypeOK
    <3> QED BY <1>a, <1>14, <3>1
  <2> QED BY <2>1, <2>2, <2>3, <2>4, <2>5
<1>15. CASE Access!CreateAnswer
  <2>1. Access!BusyIsPending'
    BY <1>15, Zenon DEF Access!CreateAnswer
  <2>2. Access!SecretsStayInView'
    BY <1>15, Zenon DEF Access!CreateAnswer
  <2>3. AccessForms'
    BY <1>15, Zenon DEF Access!CreateAnswer
  <2>4. (~ ui.rebound => AccessWaits)'
    BY <1>15, Zenon DEF Access!CreateAnswer
  <2>5. (~ ui.rebound => AccessShows)'
    <3>1. ui'.rebound = ui.rebound
      BY <1>15, Zenon DEF Access!CreateAnswer
    <3> HIDE DEF AccessInv, AccessGood, Access!TypeOK
    <3> QED BY <1>a, <1>15, <3>1
  <2> QED BY <2>1, <2>2, <2>3, <2>4, <2>5
<1>16. CASE Access!RevokeAnswer
  <2>1. Access!BusyIsPending'
    BY <1>16, Zenon DEF Access!RevokeAnswer
  <2>2. Access!SecretsStayInView'
    BY <1>16, Zenon DEF Access!RevokeAnswer
  <2>3. AccessForms'
    BY <1>16, Zenon DEF Access!RevokeAnswer
  <2>4. (~ ui.rebound => AccessWaits)'
    BY <1>16, Zenon DEF Access!RevokeAnswer
  <2>5. (~ ui.rebound => AccessShows)'
    <3>1. ui'.rebound = ui.rebound
      BY <1>16, Zenon DEF Access!RevokeAnswer
    <3> HIDE DEF AccessInv, AccessGood, Access!TypeOK
    <3> QED BY <1>a, <1>16, <3>1
  <2> QED BY <2>1, <2>2, <2>3, <2>4, <2>5
<1> HIDE DEF AccessInv, AccessGood, Access!TypeOK, Access!Slots
<1> QED
  BY <1>s, <1>1, <1>2, <1>3, <1>4, <1>5, <1>6, <1>7, <1>8, <1>9, <1>10, <1>11, <1>12, <1>13, <1>14, <1>15, <1>16 DEF Access!Next

LEMMA AccessNext ==
  ASSUME AccessInv, Access!Next
  PROVE  AccessInv'
BY AccessTypes, AccessKept DEF AccessInv

--------------------------------------------------------------------------------
(* The preferences *)

PreferencesWaits ==
  /\ Preferences!BusyIsPending
  /\ ui.http["save"] # None => ui.open /\ ui.http["latest"] = None /\ ui.http["save"].put
  /\ ui.http["latest"] # None => ui.open /\ ui.http["save"] = None /\ ~ ui.http["latest"].put

\* Until the dialog is opened before the start is over, each answer is what
\* the server has, and so is what is known, but for a save that was answered.
PreferencesShow ==
  LET told(k) == ui.http[k] # None /\ ui.http[k].at = "answered"
  IN  ~ ui.raced =>
        /\ ui.http["startup"] # None => ~ ui.open /\ ~ ui.fresh
        /\ ui.open => ui.last = ui.current
        /\ ~ ui.open => ui.shown = ui.current /\ ui.kept = ui.current
        /\ \A k \in Preferences!Slots : told(k) => ui.http[k].value = server
        /\ ui.fresh /\ ~ told("save") => ui.current = server

PreferencesInv == Preferences!TypeOK /\ PreferencesWaits /\ PreferencesShow

LEMMA PreferencesExchange ==
  ASSUME NEW put \in BOOLEAN, NEW value \in Preferences!Prefs, NEW q, q = Preferences!Exchange(put, value)
  PROVE  q \in Preferences!Asked /\ q # None /\ q.at = "sent" /\ q.put = put /\ q.value = value
<1>1. q \in Preferences!Asked /\ q.at = "sent" /\ q.put = put /\ q.value = value
  BY DEF Preferences!Exchange, Preferences!Asked
<1> QED BY <1>1, NoneAssumption

LEMMA PreferencesStart ==
  ASSUME NEW p \in Preferences!Prefs, NEW u, u = Preferences!Start(p)
  PROVE  /\ u \in Preferences!Pages
         /\ u.kept = p /\ u.shown = p /\ u.current = p /\ ~ u.open /\ ~ u.saving /\ ~ u.closing /\ ~ u.fresh /\ ~ u.raced
         /\ u.http["startup"] # None /\ u.http["startup"].at = "sent" /\ u.http["save"] = None /\ u.http["latest"] = None
<1> PICK q : q = Preferences!Exchange(FALSE, p)
  OBVIOUS
<1>1. q \in Preferences!Asked /\ q # None /\ q.at = "sent"
  BY PreferencesExchange
<1>6. PICK h : h = [k \in Preferences!Slots |-> IF k = "startup" THEN q ELSE None]
  OBVIOUS
<1>2. h \in [Preferences!Slots -> Preferences!Exchanges]
  BY <1>1, <1>6, Zenon DEF Preferences!Exchanges
<1>3. u = [kept |-> p, shown |-> p, current |-> p, last |-> p, form |-> p, open |-> FALSE, saving |-> FALSE, closing |-> FALSE,
           http |-> h, fresh |-> FALSE, raced |-> FALSE]
  BY <1>6, Zenon DEF Preferences!Start
<1>4. u \in Preferences!Pages
  BY <1>2, <1>3 DEF Preferences!Pages
<1>5. h["startup"] = q /\ h["save"] = None /\ h["latest"] = None
  BY <1>6 DEF Preferences!Slots
<1>7. /\ u.http = h /\ u.kept = p /\ u.shown = p /\ u.current = p
      /\ ~ u.open /\ ~ u.saving /\ ~ u.closing /\ ~ u.fresh /\ ~ u.raced
  BY <1>3
<1> QED BY <1>1, <1>4, <1>5, <1>7, Zenon

LEMMA PreferencesStarted ==
  ASSUME NEW p \in Preferences!Prefs, ui = Preferences!Start(p), server \in Preferences!Prefs \cup {None}
  PROVE  PreferencesInv
<1>1. Preferences!TypeOK
  BY PreferencesStart DEF Preferences!TypeOK
<1>2. PreferencesWaits /\ PreferencesShow
  BY PreferencesStart DEF PreferencesWaits, PreferencesShow, Preferences!BusyIsPending, Preferences!Slots
<1> QED BY <1>1, <1>2 DEF PreferencesInv

LEMMA PreferencesInit == Preferences!Init => PreferencesInv
BY PreferencesStarted DEF Preferences!Init

LEMMA PreferencesPage ==
  ASSUME NEW u \in Preferences!Pages
  PROVE  /\ \A k \in Preferences!Slots : [u EXCEPT !.http[k] = None] \in Preferences!Pages
         /\ \A p \in Preferences!Prefs :
              Preferences!Show(u, p) \in Preferences!Pages /\ Preferences!ApplyPreferences(u, p) \in Preferences!Pages
         /\ \A k \in Preferences!Slots, put \in BOOLEAN, p \in Preferences!Prefs : Preferences!Ask(u, k, put, p) \in Preferences!Pages
         /\ Preferences!Closed(u) \in Preferences!Pages /\ Preferences!RequestClose(u) \in Preferences!Pages
<1>1. ASSUME NEW v \in Preferences!Pages, NEW k \in Preferences!Slots, NEW q \in Preferences!Exchanges
      PROVE  [v EXCEPT !.http[k] = q] \in Preferences!Pages
  BY DEF Preferences!Pages
<1>2. ASSUME NEW p \in Preferences!Prefs
      PROVE  Preferences!Show(u, p) \in Preferences!Pages /\ Preferences!ApplyPreferences(u, p) \in Preferences!Pages
  <2>1. Preferences!Show(u, p) \in Preferences!Pages
    BY Zenon DEF Preferences!Pages, Preferences!Show
  <2>2. Preferences!ApplyPreferences(u, p) \in Preferences!Pages
    BY <2>1, Zenon DEF Preferences!Pages, Preferences!ApplyPreferences
  <2> QED BY <2>1, <2>2
<1>3. ASSUME NEW v \in Preferences!Pages, NEW k \in Preferences!Slots, NEW put \in BOOLEAN, NEW p \in Preferences!Prefs
      PROVE  Preferences!Ask(v, k, put, p) \in Preferences!Pages
  <2> PICK q \in Preferences!Exchanges : q = Preferences!Exchange(put, p)
    BY PreferencesExchange DEF Preferences!Exchanges
  <2> QED BY <1>1 DEF Preferences!Ask
<1>4. Preferences!Closed(u) \in Preferences!Pages
  BY Zenon DEF Preferences!Pages, Preferences!Closed
<1>5. Preferences!RequestClose(u) \in Preferences!Pages
  <2> PICK v : v = [u EXCEPT !.closing = TRUE]
    BY Zenon
  <2>1. v \in Preferences!Pages /\ u.form \in Preferences!Prefs
    BY DEF Preferences!Pages
  <2> QED BY <1>3, <2>1, Zenon DEF Preferences!RequestClose, Preferences!Slots
<1> QED BY <1>1, <1>2, <1>3, <1>4, <1>5 DEF Preferences!Exchanges

LEMMA PreferencesServed ==
  ASSUME Preferences!TypeOK, NEW k \in Preferences!Slots, Preferences!Serve(k)
  PROVE  /\ Preferences!TypeOK' /\ ui.http[k] # None /\ ui.http[k].at = "sent"
         /\ server' = (IF ui.http[k].put THEN ui.http[k].value ELSE server)
         /\ \E q \in Preferences!Asked :
              /\ q # None /\ q.put = ui.http[k].put /\ (q.at = "answered" => q.value = server') /\ q.at # "sent"
              /\ (q.at = "refused" => server' = None)
              /\ ui' = [ui EXCEPT !.http[k] = q]
<1> PICK s \in Preferences!Asked : s = ui.http[k] /\ s # None /\ s.at = "sent"
  BY DEF Preferences!Serve, Preferences!TypeOK, Preferences!Pages, Preferences!Exchanges
<1>1. server' = (IF s.put THEN s.value ELSE server) /\ server' \in Preferences!Prefs \cup {None}
  BY DEF Preferences!Serve, Preferences!TypeOK, Preferences!Asked
<1>2. PICK q : /\ q = (IF server' = None THEN [s EXCEPT !.at = "refused"] ELSE [s EXCEPT !.at = "answered", !.value = server'])
               /\ ui' = [ui EXCEPT !.http[k] = q]
  BY Zenon DEF Preferences!Serve
<1>3. CASE server' = None
  <2>1. q \in Preferences!Asked /\ q.put = s.put /\ q.at = "refused"
    BY <1>2, <1>3 DEF Preferences!Asked
  <2>2. ui' \in Preferences!Pages
    BY <1>2, <2>1 DEF Preferences!TypeOK, Preferences!Pages, Preferences!Exchanges
  <2>3. q # None
    BY <2>1, NoneAssumption
  <2>4. Preferences!TypeOK'
    BY <1>1, <2>2 DEF Preferences!TypeOK
  <2> QED BY <1>1, <1>2, <2>1, <2>3, <2>4, <1>3, Zenon
<1>4. CASE server' # None
  <2>1. q \in Preferences!Asked /\ q.put = s.put /\ q.at = "answered" /\ q.value = server'
    BY <1>1, <1>2, <1>4, Zenon DEF Preferences!Asked
  <2>2. ui' \in Preferences!Pages
    BY <1>2, <2>1 DEF Preferences!TypeOK, Preferences!Pages, Preferences!Exchanges
  <2>3. q # None
    BY <2>1, NoneAssumption
  <2>4. Preferences!TypeOK'
    BY <1>1, <2>2 DEF Preferences!TypeOK
  <2> QED BY <1>1, <1>2, <2>1, <2>3, <2>4, <1>4, Zenon
<1> QED BY <1>3, <1>4

LEMMA PreferencesTypes ==
  ASSUME PreferencesInv, Preferences!Next
  PROVE  Preferences!TypeOK'
<1>1. ui \in Preferences!Pages /\ server \in Preferences!Prefs \cup {None}
  BY DEF PreferencesInv, Preferences!TypeOK
<1>2. ASSUME NEW u \in Preferences!Pages, Preferences!Become(u)
      PROVE  Preferences!TypeOK'
  BY <1>1, <1>2 DEF Preferences!TypeOK, Preferences!Become
<1>3. /\ ui.current \in Preferences!Prefs /\ ui.form \in Preferences!Prefs /\ ui.last \in Preferences!Prefs
      /\ ui.shown \in Preferences!Prefs /\ ui.kept \in Preferences!Prefs
      /\ \A k \in Preferences!Slots : Preferences!Answered(k) => Preferences!Value(k) \in Preferences!Prefs
  BY <1>1 DEF Preferences!Pages, Preferences!Exchanges, Preferences!Asked, Preferences!Answered, Preferences!Value
<1>4. ASSUME NEW k \in Preferences!Slots, Preferences!Answered(k)
      PROVE  Preferences!Noted(k) \in Preferences!Pages
  <2> PICK u \in Preferences!Pages : u = [ui EXCEPT !.http[k] = None]
    BY <1>1, PreferencesPage, Zenon
  <2>1. [u EXCEPT !.current = Preferences!Value(k), !.fresh = TRUE] \in Preferences!Pages
    BY <1>3, <1>4, Zenon DEF Preferences!Pages
  <2>2. Preferences!Noted(k) = [u EXCEPT !.current = Preferences!Value(k), !.fresh = TRUE]
    BY DEF Preferences!Noted
  <2> QED BY <2>1, <2>2
<1>5. CASE Preferences!Open
  <2> PICK u \in Preferences!Pages : u = Preferences!ApplyPreferences(ui, ui.current)
    BY <1>1, <1>3, PreferencesPage
  <2>1. [u EXCEPT !.open = TRUE, !.raced = @ \/ ui.http["startup"] # None] \in Preferences!Pages
    BY Zenon DEF Preferences!Pages
  <2>2. Preferences!Become([u EXCEPT !.open = TRUE, !.raced = @ \/ ui.http["startup"] # None])
    BY <1>5 DEF Preferences!Open
  <2> QED BY <1>2, <2>1, <2>2
<1>6. CASE Preferences!Save
  <2> PICK u \in Preferences!Pages : u = [ui EXCEPT !.saving = TRUE]
    BY <1>1 DEF Preferences!Pages
  <2> QED BY <1>2, <1>3, <1>6, PreferencesPage, Zenon DEF Preferences!Save, Preferences!Slots
<1>7. CASE Preferences!Close
  BY <1>1, <1>2, <1>7, PreferencesPage DEF Preferences!Close
<1>8. CASE Preferences!Reload
  BY <1>2, <1>3, <1>8, PreferencesStart DEF Preferences!Reload
<1>9. ASSUME NEW l \in Languages, Preferences!SetLanguage(l)
      PROVE  Preferences!TypeOK'
  <2>1. /\ [ui.form EXCEPT !.language = l] \in Preferences!Prefs /\ [ui.shown EXCEPT !.language = l] \in Preferences!Prefs
        /\ [ui.kept EXCEPT !.language = l] \in Preferences!Prefs
    BY <1>3 DEF Preferences!Prefs
  <2>2. [ui EXCEPT !.form.language = l, !.shown.language = l, !.kept.language = l] \in Preferences!Pages
    BY <1>1, <2>1, Zenon DEF Preferences!Pages
  <2> QED BY <1>2, <1>9, <2>2 DEF Preferences!SetLanguage
<1>10. ASSUME NEW t \in Themes, Preferences!SetTheme(t)
       PROVE  Preferences!TypeOK'
  <2>1. [ui.form EXCEPT !.theme = t] \in Preferences!Prefs /\ [ui.shown EXCEPT !.theme = t] \in Preferences!Prefs
    BY <1>3 DEF Preferences!Prefs
  <2>2. [ui EXCEPT !.form.theme = t, !.shown.theme = t] \in Preferences!Pages
    BY <1>1, <2>1, Zenon DEF Preferences!Pages
  <2> QED BY <1>2, <1>10, <2>2 DEF Preferences!SetTheme
<1>11. ASSUME NEW k \in Preferences!Slots, Preferences!Serve(k)
       PROVE  Preferences!TypeOK'
  BY <1>11, PreferencesServed DEF PreferencesInv
<1>12. ASSUME NEW k \in Preferences!Slots, Preferences!Fail(k)
       PROVE  Preferences!TypeOK'
  <2>1. [ui EXCEPT !.saving = FALSE] \in Preferences!Pages /\ [ui EXCEPT !.saving = FALSE].form = ui.form
    BY <1>1, Zenon DEF Preferences!Pages
  <2>2. Preferences!SaveFailed \in Preferences!Pages
    BY <1>3, <2>1, PreferencesPage DEF Preferences!SaveFailed
  <2>3. Preferences!CloseOnFailure \in Preferences!Pages
    BY <1>1, <1>3, PreferencesPage DEF Preferences!CloseOnFailure
  <2>4. PICK u \in Preferences!Pages, f \in BOOLEAN : Preferences!Become([u EXCEPT !.http[k] = None, !.fresh = @ /\ f])
    <3> DEFINE u == CASE k = "startup" -> ui [] k = "save" -> Preferences!SaveFailed [] k = "latest" -> Preferences!CloseOnFailure
               f == ~ (ui.http[k].put /\ ui.http[k].at = "answered")
    <3>1. u \in Preferences!Pages /\ f \in BOOLEAN
      BY <1>1, <2>2, <2>3 DEF Preferences!Slots
    <3>2. Preferences!Become([u EXCEPT !.http[k] = None, !.fresh = @ /\ f])
      BY <1>12, Zenon DEF Preferences!Fail
    <3> HIDE DEF u, f
    <3> QED BY <3>1, <3>2, Zenon
  <2> PICK v \in Preferences!Pages : v = [u EXCEPT !.http[k] = None]
    BY <2>4, PreferencesPage, Zenon
  <2>5. [v EXCEPT !.fresh = @ /\ f] \in Preferences!Pages /\ v.fresh = u.fresh
    BY <2>4, Zenon DEF Preferences!Pages
  <2>6. [u EXCEPT !.http[k] = None, !.fresh = @ /\ f] = [v EXCEPT !.fresh = @ /\ f]
    BY <2>5
  <2> QED BY <1>2, <2>4, <2>5, <2>6
<1>13. CASE Preferences!StartupAnswer
  BY <1>2, <1>3, <1>4, <1>13, PreferencesPage, Zenon DEF Preferences!StartupAnswer, Preferences!Slots
<1>14. CASE Preferences!StartupNotFound
  BY <1>1, <1>2, <1>3, <1>14, PreferencesPage, Zenon DEF Preferences!StartupNotFound, Preferences!Slots
<1>15. CASE Preferences!SaveAnswer
  <2> PICK u \in Preferences!Pages, p \in Preferences!Prefs : u = Preferences!Noted("save") /\ p = Preferences!Value("save")
    BY <1>3, <1>4, <1>15 DEF Preferences!SaveAnswer, Preferences!Slots
  <2> PICK v \in Preferences!Pages : v = [u EXCEPT !.saving = FALSE, !.last = p]
    BY Zenon DEF Preferences!Pages
  <2>1. Preferences!RequestClose(Preferences!Show(v, p)) \in Preferences!Pages
    BY PreferencesPage
  <2>2. Preferences!Become(Preferences!RequestClose(Preferences!Show(v, p)))
    BY <1>15 DEF Preferences!SaveAnswer
  <2> QED BY <1>2, <2>1, <2>2
<1>16. CASE Preferences!LatestAnswer
  BY <1>2, <1>3, <1>4, <1>16, PreferencesPage, Zenon DEF Preferences!LatestAnswer, Preferences!Slots
<1> QED
  BY <1>5, <1>6, <1>7, <1>8, <1>9, <1>10, <1>11, <1>12, <1>13, <1>14, <1>15, <1>16 DEF Preferences!Next

LEMMA PreferencesKept ==
  ASSUME PreferencesInv, Preferences!Next
  PROVE  PreferencesWaits' /\ PreferencesShow'
<1>1. ASSUME NEW k \in Preferences!Slots, Preferences!Serve(k)
      PROVE  PreferencesWaits' /\ PreferencesShow'
  <2> PICK q \in Preferences!Asked :
        /\ q # None /\ q.put = ui.http[k].put /\ (q.at = "answered" => q.value = server') /\ q.at # "sent"
        /\ (q.at = "refused" => server' = None) /\ ui' = [ui EXCEPT !.http[k] = q]
    BY <1>1, PreferencesServed DEF PreferencesInv
  <2>1. ui.http[k] # None /\ ui.http[k].at = "sent" /\ server' = (IF ui.http[k].put THEN ui.http[k].value ELSE server)
    BY <1>1, PreferencesServed DEF PreferencesInv
  <2>2. /\ ui'.http = [ui.http EXCEPT ![k] = q] /\ DOMAIN ui.http = Preferences!Slots
        /\ ui'.saving = ui.saving /\ ui'.closing = ui.closing /\ ui'.open = ui.open /\ ui'.last = ui.last /\ ui'.current = ui.current
        /\ ui'.shown = ui.shown /\ ui'.kept = ui.kept /\ ui'.fresh = ui.fresh /\ ui'.raced = ui.raced
    BY DEF PreferencesInv, Preferences!TypeOK, Preferences!Pages
  <2>3. ui'.http[k] = q /\ \A j \in Preferences!Slots \ {k} : ui'.http[j] = ui.http[j]
    BY <2>2
  <2>4. PreferencesWaits'
    BY <2>1, <2>2, <2>3 DEF PreferencesInv, PreferencesWaits, Preferences!BusyIsPending, Preferences!Slots
  <2>5. CASE k = "latest"
    BY <2>1, <2>2, <2>3, <2>5 DEF PreferencesInv, PreferencesWaits, PreferencesShow, Preferences!BusyIsPending, Preferences!Slots
  <2>6. CASE k = "startup"
    BY <2>1, <2>2, <2>3, <2>6 DEF PreferencesInv, PreferencesWaits, PreferencesShow, Preferences!BusyIsPending, Preferences!Slots
  <2>8. ui.http[k].value # None
    BY <2>1, NoneAssumption DEF PreferencesInv, Preferences!TypeOK, Preferences!Pages, Preferences!Exchanges, Preferences!Asked
  <2>9. k = "save" => q.at = "answered"
    BY <2>1, <2>8 DEF PreferencesInv, PreferencesWaits, Preferences!Asked
  <2>7. CASE k = "save"
    BY <2>1, <2>9, <2>2, <2>3, <2>7 DEF PreferencesInv, PreferencesWaits, PreferencesShow, Preferences!BusyIsPending, Preferences!Slots
  <2> QED BY <2>4, <2>5, <2>6, <2>7 DEF Preferences!Slots
<1>2. CASE Preferences!Reload
  <2>1. ui' = Preferences!Start(ui.kept) /\ UNCHANGED server /\ ui.kept \in Preferences!Prefs /\ server \in Preferences!Prefs \cup {None}
    BY <1>2 DEF Preferences!Reload, Preferences!Become, PreferencesInv, Preferences!TypeOK, Preferences!Pages
  <2> PICK u : u = ui'
    OBVIOUS
  <2>2. /\ u.kept = ui.kept /\ u.shown = ui.kept /\ u.current = ui.kept /\ ~ u.open /\ ~ u.saving /\ ~ u.closing /\ ~ u.fresh /\ ~ u.raced
        /\ u.http["startup"] # None /\ u.http["startup"].at = "sent" /\ u.http["save"] = None /\ u.http["latest"] = None
    BY <2>1, PreferencesStart
  <2> QED BY <2>2 DEF PreferencesWaits, PreferencesShow, Preferences!BusyIsPending, Preferences!Slots
<1>3. ui.form \in Preferences!Prefs /\ ui.shown \in Preferences!Prefs
  BY DEF PreferencesInv, Preferences!TypeOK, Preferences!Pages
<1> USE DEF PreferencesInv, Preferences!TypeOK, Preferences!BusyIsPending, PreferencesWaits, PreferencesShow, Preferences!Pages,
        Preferences!Exchanges, Preferences!Slots, Preferences!Show, Preferences!ApplyPreferences, Preferences!Ask, Preferences!RequestClose,
        Preferences!Closed, Preferences!Become, Preferences!Answered, Preferences!Value, Preferences!Noted,
        Preferences!SaveFailed, Preferences!CloseOnFailure
<1>4. CASE Preferences!Open
  <2>1. PreferencesWaits'
    BY <1>4 DEF Preferences!Open
  <2>2. PreferencesShow'
    BY <1>4, Zenon DEF Preferences!Open
  <2> QED BY <2>1, <2>2
<1>5. ASSUME NEW l \in Languages, Preferences!SetLanguage(l)
      PROVE  PreferencesWaits' /\ PreferencesShow'
  <2>1. PreferencesWaits'
    BY <1>5 DEF Preferences!SetLanguage
  <2>2. PreferencesShow'
    BY <1>5 DEF Preferences!SetLanguage
  <2> QED BY <2>1, <2>2
<1>6. ASSUME NEW t \in Themes, Preferences!SetTheme(t)
      PROVE  PreferencesWaits' /\ PreferencesShow'
  <2>1. PreferencesWaits'
    BY <1>6 DEF Preferences!SetTheme
  <2>2. PreferencesShow'
    BY <1>6 DEF Preferences!SetTheme
  <2> QED BY <2>1, <2>2
<1>7. ASSUME NEW k \in Preferences!Slots, Preferences!Fail(k)
      PROVE  PreferencesWaits' /\ PreferencesShow'
  <2>1. PreferencesWaits'
    BY <1>7 DEF Preferences!Fail
  <2>2. PreferencesShow'
    BY <1>7 DEF Preferences!Fail
  <2> QED BY <2>1, <2>2
<1>8. CASE Preferences!StartupAnswer
  <2>1. PreferencesWaits'
    BY <1>8 DEF Preferences!StartupAnswer
  <2>2. PreferencesShow'
    BY <1>8 DEF Preferences!StartupAnswer
  <2> QED BY <2>1, <2>2
<1>9. CASE Preferences!LatestAnswer
  <2>1. PreferencesWaits'
    BY <1>9 DEF Preferences!LatestAnswer
  <2>2. PreferencesShow'
    BY <1>9 DEF Preferences!LatestAnswer
  <2> QED BY <2>1, <2>2
<1>10. CASE Preferences!Save
  <2> PICK q : q = Preferences!Exchange(TRUE, ui.form) /\ q # None /\ q.at = "sent" /\ q.put = TRUE
    <3> HIDE DEF PreferencesInv, Preferences!TypeOK
    <3> QED BY <1>3, PreferencesExchange, Zenon
  <2>1. PreferencesWaits'
    BY <1>10, Zenon DEF Preferences!Save
  <2>2. PreferencesShow'
    BY <1>10, Zenon DEF Preferences!Save
  <2> QED BY <2>1, <2>2
<1>11. CASE Preferences!Close
  <2> PICK q : q = Preferences!Exchange(FALSE, ui.form) /\ q # None /\ q.at = "sent" /\ q.put = FALSE
    <3> HIDE DEF PreferencesInv, Preferences!TypeOK
    <3> QED BY <1>3, PreferencesExchange
  <2>1. PreferencesWaits'
    BY <1>11, Zenon DEF Preferences!Close
  <2>2. PreferencesShow'
    BY <1>11, Zenon DEF Preferences!Close
  <2> QED BY <2>1, <2>2
<1>12. CASE Preferences!StartupNotFound
  <2> PICK q : q = Preferences!Exchange(TRUE, ui.shown) /\ q # None /\ q.at = "sent" /\ q.put = TRUE
    <3> HIDE DEF PreferencesInv, Preferences!TypeOK
    <3> QED BY <1>3, PreferencesExchange, Zenon
  <2>1. PreferencesWaits'
    BY <1>12 DEF Preferences!StartupNotFound
  <2>2. PreferencesShow'
    BY <1>12 DEF Preferences!StartupNotFound
  <2> QED BY <2>1, <2>2
<1>13. CASE Preferences!SaveAnswer
  <2> PICK q : q = Preferences!Exchange(FALSE, ui.form) /\ q # None /\ q.at = "sent" /\ q.put = FALSE
    <3> HIDE DEF PreferencesInv, Preferences!TypeOK
    <3> QED BY <1>3, PreferencesExchange
  <2>1. PreferencesWaits'
    BY <1>13 DEF Preferences!SaveAnswer
  <2>2. PreferencesShow'
    BY <1>13 DEF Preferences!SaveAnswer
  <2> QED BY <2>1, <2>2
<1> QED
  BY <1>1, <1>2, <1>4, <1>5, <1>6, <1>7, <1>8, <1>9, <1>10, <1>11, <1>12, <1>13 DEF Preferences!Next

LEMMA PreferencesNext ==
  ASSUME PreferencesInv, Preferences!Next
  PROVE  PreferencesInv'
BY PreferencesTypes, PreferencesKept DEF PreferencesInv

--------------------------------------------------------------------------------
(* The choice of a month *)

MonthInv == Month!TypeOK /\ Month!SettledIsServers

LEMMA MonthKeys ==
  ASSUME NEW m \in Month!Months, NEW k \in Month!NavigationKeys
  PROVE  Month!NextIndex(m - 1, 12, k) + 1 \in Month!Months
<1>1. m - 1 \in 0..11 /\ m \in Int
  BY DEF Month!Months
<1>2. CASE k = "Home" \/ k = "End"
  BY <1>2 DEF Month!NextIndex, Month!Months
<1>3. CASE k = "ArrowDown"
  <2>1. Month!NextIndex(m - 1, 12, k) = (m - 1 + 1) % 12
    BY <1>1, <1>3 DEF Month!NextIndex
  <2> QED BY <1>1, <2>1 DEF Month!Months
<1>4. CASE k = "ArrowUp"
  <2>1. Month!NextIndex(m - 1, 12, k) = (m - 1 + 11) % 12
    BY <1>1, <1>4 DEF Month!NextIndex
  <2> QED BY <1>1, <2>1 DEF Month!Months
<1> QED BY <1>2, <1>3, <1>4 DEF Month!NavigationKeys

LEMMA MonthInit == Month!Init => MonthInv
BY LastYearAssumption
  DEF Month!Init, MonthInv, Month!TypeOK, Month!SettledIsServers, Month!Months, Month!Years

LEMMA MonthNext ==
  ASSUME MonthInv, Month!Next
  PROVE  MonthInv'
<1> USE LastYearAssumption DEF MonthInv, Month!TypeOK, Month!SettledIsServers, Month!Show, Month!Close, Month!Open, Month!Marked, Month!Years, Month!Periods
<1>1. CASE Month!Toggle
  BY <1>1, Zenon DEF Month!Toggle
<1>2. CASE Month!Dismiss
  BY <1>2, Zenon DEF Month!Dismiss
<1>3. ASSUME NEW m \in Month!Months, Month!ChooseMonth(m)
      PROVE  MonthInv'
  BY <1>3, Zenon DEF Month!ChooseMonth
<1>4. ASSUME NEW k \in Month!NavigationKeys, Month!Navigate(k)
      PROVE  MonthInv'
  <2> PICK a \in Month!Months : a = Month!NextIndex(ui.active - 1, 12, k) + 1
    BY MonthKeys
  <2>1. Month!Show(IF ui.open THEN [ui EXCEPT !.active = a, !.touched = TRUE] ELSE Month!Open(ui))
    BY <1>4 DEF Month!Navigate
  <2> QED BY <2>1, Zenon
<1>5. ASSUME NEW delta \in {-1, 1}, Month!ChangeYear(delta)
      PROVE  MonthInv'
  <2> PICK y \in Month!Years : y = Month!Clamped(ui.year + delta)
    BY DEF Month!Clamped
  <2> QED BY <1>5, Zenon DEF Month!ChangeYear, Month!SetYear
<1>6. ASSUME NEW text \in Month!Years \cup {NotAYear}, Month!UpdateYear(text)
      PROVE  MonthInv'
  BY <1>6, Zenon DEF Month!UpdateYear
<1>7. ASSUME NEW p \in Month!Periods, Month!OwnerGives(p)
      PROVE  MonthInv'
  BY <1>7 DEF Month!OwnerGives
<1>8. CASE Month!Enter
  <2>1. ui.active \in Month!Months /\ Month!ChooseMonth(ui.active)
    BY <1>8 DEF Month!Enter
  <2> QED BY <1>3, <2>1
<1> QED BY <1>1, <1>2, <1>3, <1>4, <1>5, <1>6, <1>7, <1>8 DEF Month!Next

--------------------------------------------------------------------------------
(* The selector of ledgers *)

OnePerId(rows) == \A r, s \in rows : r.id = s.id => r = s
Unlike(rows, l) == {r \in rows : r.id # l}

SelectorForms ==
  /\ IsFiniteSet(server) /\ OnePerId(server)
  /\ \A k \in Selector!Slots : ui.http[k] # None => IsFiniteSet(ui.http[k].rows)
  /\ ui.http["save"] # None /\ ui.http["save"].at = "answered" => ui.http["save"].row # None

SelectorWaits ==
  /\ ~ ui.here => ui.http["list"] = None /\ ui.http["save"] = None /\ ui.editor = None /\ ui.deleting = None
  /\ ui.http["save"] # None => ui.editor # None
  /\ ui.deletingBusy => ui.deleting # None
  /\ ui.editor = None \/ ui.deleting = None
  /\ ui.here /\ ~ ui.raced => ui.http["late list"] = None /\ (ui.http["delete"] # None => ui.deletingBusy)

\* The ledgers of the user can be told from the list on the screen and the
\* answers on their way.
SelectorShows ==
  LET told(k) == ui.http[k] # None /\ ui.http[k].at = "answered"
      shown == Elements(ui.ledgers)
      row == ui.http["save"].row
  IN  ui.here /\ ~ ui.raced =>
        /\ ui.http["list"] # None => ~ told("save") /\ ~ told("delete")
        /\ told("list") => ui.http["list"].rows = server
        /\ ui.http["list"] = None /\ ~ ui.loadError /\ ~ ui.lost =>
             /\ EachOnce(ui.ledgers) /\ OnePerId(shown)
             /\ told("save") => /\ server = Unlike(shown, row.id) \cup {row}
                                /\ IF ui.http["save"].of = "new" THEN \A r \in shown : r.id # row.id
                                   ELSE \E r \in shown : r.id = row.id
             /\ told("delete") => server = Unlike(shown, ui.http["delete"].of)
             /\ ~ told("save") /\ ~ told("delete") => server = shown

SelectorGood == Selector!BusyIsPending /\ SelectorForms /\ SelectorWaits /\ SelectorShows
SelectorInv == Selector!TypeOK /\ SelectorGood

Sending == 0..MaxChanges

LEMMA SelectorSent ==
  ASSUME NEW of \in Ledgers \cup {None, "new"}, NEW q, q = Selector!Sent \/ q = [Selector!Sent EXCEPT !.of = of]
  PROVE  q \in Selector!Asked /\ q # None /\ q.at = "sent" /\ q.rows = {} /\ IsFiniteSet(q.rows)
<1>1. q \in Selector!Asked /\ q.at = "sent" /\ q.rows = {}
  BY DEF Selector!Sent, Selector!Asked
<1> QED BY <1>1, NoneAssumption, FS_EmptySet

LEMMA SelectorCreated ==
  ASSUME NEW ledgers \in Seq(Selector!Rows), NEW http \in [Selector!Slots -> Selector!Asked \cup {None}],
         NEW raced \in BOOLEAN, NEW changes \in Sending, NEW u, u = Selector!Created(ledgers, http, raced, changes)
  PROVE  /\ u \in Selector!Pages
         /\ u.here /\ u.ledgers = ledgers /\ u.editor = None /\ u.deleting = None
         /\ ~ u.saving /\ ~ u.deletingBusy /\ u.loading /\ ~ u.loadError
         /\ (u.raced <=> raced) /\ ~ u.lost
         /\ u.http["list"] # None /\ u.http["list"].at = "sent" /\ IsFiniteSet(u.http["list"].rows)
         /\ \A k \in Selector!Slots \ {"list"} : u.http[k] = http[k]
<1> PICK q \in Selector!Asked : q = Selector!Sent /\ q # None /\ q.at = "sent" /\ IsFiniteSet(q.rows)
  BY SelectorSent, Zenon
<1> PICK h : h = [http EXCEPT !["list"] = q]
  BY Zenon
<1>1. h \in [Selector!Slots -> Selector!Asked \cup {None}]
  BY DEF Selector!Slots
<1>2. u = [here |-> TRUE, ledgers |-> ledgers, changes |-> changes, search |-> NoText, selected |-> None,
           editor |-> None, saving |-> FALSE, deleting |-> None, deletingBusy |-> FALSE,
           loading |-> TRUE, loadError |-> FALSE, http |-> h, raced |-> raced, lost |-> FALSE]
  BY Zenon DEF Selector!Created
<1>3. u \in Selector!Pages
  BY <1>1, <1>2, SelectorAssumption DEF Selector!Pages, Sending
<1>4. /\ u.here /\ u.ledgers = ledgers /\ u.editor = None /\ u.deleting = None
      /\ ~ u.saving /\ ~ u.deletingBusy /\ u.loading /\ ~ u.loadError
      /\ (u.raced <=> raced) /\ ~ u.lost /\ u.http = h
  BY <1>2
<1>5. h["list"] = q /\ \A k \in Selector!Slots \ {"list"} : h[k] = http[k]
  BY DEF Selector!Slots
<1> QED BY <1>3, <1>4, <1>5

LEMMA SelectorCardinality == \A S : Selector!Cardinality(S) = Cardinality(S)
BY DEF Selector!Cardinality, Cardinality

LEMMA SelectorFilter ==
  ASSUME NEW s, NEW kept
  PROVE  Selector!Filter(s, kept) = Filter(s, kept)
BY Zenon DEF Selector!Filter, Filter, Selector!Cardinality, Cardinality

LEMMA SelectorListed ==
  ASSUME NEW S, IsFiniteSet(S), NEW s, s = Selector!Listed(S)
  PROVE  s \in Seq(S) /\ Elements(s) = S /\ EachOnce(s)
<1>1. s \in [1..Cardinality(S) -> S] /\ EachOnce(s)
  BY SetIsListed, SelectorCardinality DEF Selector!Listed, Selector!Injection, Selector!IsInjective, EachOnce
<1> QED BY <1>1, SetIsListed

\* A row takes the place of the one with its id, or the first.
LEMMA SelectorReplaced ==
  ASSUME NEW rows \in Seq(Selector!Rows), NEW next \in Selector!Rows, NEW t, t = Selector!Replace(rows, next)
  PROVE  /\ t \in Seq(Selector!Rows)
         /\ (\E r \in Elements(rows) : r.id = next.id) => Elements(t) = Unlike(Elements(rows), next.id) \cup {next}
         /\ (\E r \in Elements(rows) : r.id = next.id) /\ EachOnce(rows) /\ OnePerId(Elements(rows)) => EachOnce(t)
<1>1. CASE \E i \in DOMAIN rows : rows[i].id = next.id
  <2>1. t = [i \in DOMAIN rows |-> IF rows[i].id = next.id THEN next ELSE rows[i]]
    BY <1>1 DEF Selector!Replace
  <2>2. t \in Seq(Selector!Rows) /\ DOMAIN t = DOMAIN rows
    BY <2>1
  <2>3. \A i \in DOMAIN rows : t[i] = (IF rows[i].id = next.id THEN next ELSE rows[i])
    BY <2>1
  <2>4. Elements(t) = Unlike(Elements(rows), next.id) \cup {next}
    BY <1>1, <2>2, <2>3 DEF Elements, Unlike
  <2>5. ASSUME EachOnce(rows), OnePerId(Elements(rows)), NEW i \in DOMAIN t, NEW j \in DOMAIN t, t[i] = t[j]
        PROVE  i = j
    <3>1. rows[i].id = rows[j].id
      BY <2>2, <2>3, <2>5
    <3>2. rows[i] = rows[j]
      BY <2>2, <2>5, <3>1 DEF OnePerId, Elements
    <3> QED BY <2>2, <2>5, <3>2 DEF EachOnce
  <2> QED BY <2>2, <2>4, <2>5 DEF EachOnce
<1>2. CASE ~ \E i \in DOMAIN rows : rows[i].id = next.id
  <2>1. t = First(next, rows)
    BY <1>2 DEF Selector!Replace, First
  <2>2. t \in Seq(Selector!Rows)
    BY <2>1, Prepended
  <2>3. ~ \E r \in Elements(rows) : r.id = next.id
    BY <1>2 DEF Elements
  <2> QED BY <2>2, <2>3
<1> QED BY <1>1, <1>2

LEMMA SelectorOwned ==
  ASSUME NEW rows, rows = {[id |-> l, edited |-> FALSE] : l \in Owned}
  PROVE  rows \subseteq Selector!Rows /\ OnePerId(rows) /\ IsFiniteSet(rows)
<1>1. PICK f : f = [l \in Owned |-> [id |-> l, edited |-> FALSE]]
  OBVIOUS
<1>2. \A l \in Owned : f[l].id = l /\ f[l] \in Selector!Rows
  BY <1>1, SelectorAssumption DEF Selector!Rows
<1>3. rows = {f[l] : l \in Owned}
  BY <1>1
<1>4. rows \subseteq Selector!Rows /\ OnePerId(rows)
  BY <1>2, <1>3 DEF OnePerId
<1>5. IsFiniteSet(rows)
  <2>1. f \in [Owned -> rows]
    BY <1>1, <1>3, Zenon
  <2>2. f \in Surjection(Owned, rows)
    BY <1>3, <2>1 DEF Surjection
  <2> QED BY <2>2, SelectorAssumption, FS_Surjection
<1> QED BY <1>4, <1>5

LEMMA SelectorStarted ==
  ASSUME NEW ledgers \in Seq(Selector!Rows), NEW http \in [Selector!Slots -> Selector!Asked \cup {None}],
         NEW raced \in BOOLEAN, NEW changes \in Sending, ui = Selector!Created(ledgers, http, raced, changes),
         \A k \in Selector!Slots : http[k] = None,
         server \subseteq Selector!Rows, OnePerId(server), IsFiniteSet(server)
  PROVE  SelectorInv
<1>1. /\ ui \in Selector!Pages /\ ui.here /\ ui.editor = None /\ ui.deleting = None
      /\ ~ ui.saving /\ ~ ui.deletingBusy /\ ui.loading
  BY SelectorCreated
<1>2. /\ ui.http["list"] # None /\ ui.http["list"].at = "sent" /\ IsFiniteSet(ui.http["list"].rows)
      /\ \A k \in Selector!Slots \ {"list"} : ui.http[k] = None
  BY SelectorCreated
<1>4. Selector!TypeOK
  BY <1>1 DEF Selector!TypeOK
<1>5. Selector!BusyIsPending /\ SelectorForms /\ SelectorWaits /\ SelectorShows
  BY <1>1, <1>2, Zenon DEF Selector!BusyIsPending, SelectorForms, SelectorWaits, SelectorShows, Selector!Slots
<1> QED BY <1>4, <1>5 DEF SelectorInv, SelectorGood

LEMMA SelectorInit == Selector!Init => SelectorInv
<1> SUFFICES ASSUME Selector!Init
             PROVE  SelectorInv
  OBVIOUS
<1>1. PICK a \in Seq(Selector!Rows) : a = <<>>
  BY EmptySeq, Zenon
<1>2. PICK h \in [Selector!Slots -> Selector!Asked \cup {None}] : h = [k \in Selector!Slots |-> None]
  BY Zenon
<1>3. PICK raced \in BOOLEAN : raced = FALSE
  OBVIOUS
<1>4. PICK changes \in Sending : changes = 0
  BY SelectorAssumption DEF Sending
<1>5. ui = Selector!Created(a, h, raced, changes)
  BY <1>1, <1>2, <1>3, <1>4, Zenon DEF Selector!Init
<1>6. server \subseteq Selector!Rows /\ OnePerId(server) /\ IsFiniteSet(server)
  BY SelectorOwned DEF Selector!Init
<1>7. \A k \in Selector!Slots : h[k] = None
  BY <1>2
<1> QED BY <1>5, <1>6, <1>7, SelectorStarted

LEMMA SelectorTypes ==
  ASSUME SelectorInv, Selector!Next
  PROVE  Selector!TypeOK'
<1>1. Selector!TypeOK /\ server \subseteq Selector!Rows /\ ui \in Selector!Pages
  BY DEF SelectorInv, Selector!TypeOK
<1>2. ASSUME NEW u \in Selector!Pages, Selector!Become(u)
      PROVE  Selector!TypeOK'
  BY <1>1, <1>2 DEF Selector!Become, Selector!TypeOK
<1>3. /\ ui.ledgers \in Seq(Selector!Rows) /\ ui.http \in [Selector!Slots -> Selector!Asked \cup {None}]
      /\ ui.changes \in Sending /\ ui.raced \in BOOLEAN /\ ui.loading \in BOOLEAN /\ ui.selected \in Ledgers \cup {None}
      /\ ui.editor \in Ledgers \cup {None, "new"} /\ ui.deleting \in Ledgers \cup {None}
      /\ ui.loadError \in BOOLEAN /\ ui.saving \in BOOLEAN /\ ui.deletingBusy \in BOOLEAN /\ ui.lost \in BOOLEAN
  BY <1>1 DEF Selector!Pages, Sending
<1>4. \A k \in Selector!Slots : ui.http[k] \in Selector!Asked \cup {None}
  BY <1>3
<1>5. ASSUME NEW text \in Texts, Selector!SetSearch(text)
      PROVE  Selector!TypeOK'
  <2> PICK s \in Ledgers \cup {None} : Selector!Become([ui EXCEPT !.search = text, !.selected = s])
    BY <1>3, <1>5, Zenon DEF Selector!SetSearch
  <2>1. [ui EXCEPT !.search = text, !.selected = s] \in Selector!Pages
    BY <1>1, Zenon DEF Selector!Pages
  <2> QED BY <1>2, <2>1
<1>6. ASSUME NEW r \in Selector!Rows, Selector!SelectLedger(r) \/ Selector!OpenEdit(r) \/ Selector!OpenDelete(r)
      PROVE  Selector!TypeOK'
  <2>1. r.id \in Ledgers
    BY DEF Selector!Rows
  <2>2. /\ [ui EXCEPT !.selected = r.id] \in Selector!Pages /\ [ui EXCEPT !.editor = r.id] \in Selector!Pages
        /\ [ui EXCEPT !.deleting = r.id] \in Selector!Pages
    BY <1>1, <2>1, Zenon DEF Selector!Pages
  <2> QED BY <1>2, <1>6, <2>2 DEF Selector!SelectLedger, Selector!OpenEdit, Selector!OpenDelete
<1>7. CASE Selector!OpenCreate \/ Selector!CloseEditor \/ Selector!CloseDelete
  <2>1. /\ [ui EXCEPT !.editor = "new"] \in Selector!Pages /\ [ui EXCEPT !.editor = None] \in Selector!Pages
        /\ [ui EXCEPT !.deleting = None] \in Selector!Pages
    BY <1>1 DEF Selector!Pages
  <2> QED BY <1>2, <1>7, <2>1 DEF Selector!OpenCreate, Selector!CloseEditor, Selector!CloseDelete
<1>8. CASE Selector!SaveLedger
  <2> PICK q \in Selector!Asked : q = [Selector!Sent EXCEPT !.of = ui.editor]
    BY <1>3, SelectorSent, Zenon
  <2>1. ui.changes \in 0..MaxChanges /\ ui.changes < MaxChanges
    BY <1>1, <1>8 DEF Selector!SaveLedger, Selector!Pages
  <2>2. PICK c \in 0..MaxChanges : c = ui.changes + 1
    BY <2>1, SelectorAssumption
  <2>3. Selector!Become([ui EXCEPT !.saving = TRUE, !.changes = c, !.http["save"] = q])
    BY <1>8, <2>2 DEF Selector!SaveLedger
  <2>4. [ui EXCEPT !.saving = TRUE, !.changes = c, !.http["save"] = q] \in Selector!Pages
    BY <1>1 DEF Selector!Pages, Selector!Slots
  <2> QED BY <1>2, <2>3, <2>4
<1>9. CASE Selector!DeleteLedger
  <2> PICK q \in Selector!Asked : q = [Selector!Sent EXCEPT !.of = ui.deleting]
    BY <1>3, SelectorSent, Zenon
  <2>1. ui.changes \in 0..MaxChanges /\ ui.changes < MaxChanges
    BY <1>1, <1>9 DEF Selector!DeleteLedger, Selector!Pages
  <2>2. PICK c \in 0..MaxChanges : c = ui.changes + 1
    BY <2>1, SelectorAssumption
  <2>3. Selector!Become([ui EXCEPT !.deletingBusy = TRUE, !.changes = c, !.http["delete"] = q])
    BY <1>9, <2>2 DEF Selector!DeleteLedger
  <2>4. [ui EXCEPT !.deletingBusy = TRUE, !.changes = c, !.http["delete"] = q] \in Selector!Pages
    BY <1>1 DEF Selector!Pages, Selector!Slots
  <2> QED BY <1>2, <2>3, <2>4
<1>10. CASE Selector!Leave
  <2> PICK h : h = [ui.http EXCEPT !["save"] = None, !["late list"] = ui.http["list"], !["list"] = None]
    OBVIOUS
  <2>1. h \in [Selector!Slots -> Selector!Asked \cup {None}]
    BY <1>3 DEF Selector!Slots
  <2>2. ui' = [ui EXCEPT !.here = FALSE, !.editor = None, !.saving = FALSE, !.deleting = None,
                         !.deletingBusy = FALSE, !.selected = None, !.http = h] /\ UNCHANGED server
    BY <1>1, <1>10, ZenonT(40) DEF Selector!Leave, Selector!Become, Selector!Pages
  <2>3. ui' \in Selector!Pages
    BY <1>1, <2>1, <2>2 DEF Selector!Pages
  <2> QED BY <1>1, <2>2, <2>3, Zenon DEF Selector!TypeOK
<1>11. CASE Selector!Return
  <2>2. PICK raced \in BOOLEAN : raced = (ui.http["late list"] # None \/ ui.http["delete"] # None)
    BY Zenon
  <2>3. PICK u : u = Selector!Created(ui.ledgers, ui.http, raced, ui.changes)
    OBVIOUS
  <2>1. u \in Selector!Pages
    BY <1>3, <2>3, SelectorCreated
  <2> QED BY <1>2, <1>11, <2>1, <2>2, <2>3 DEF Selector!Return
<1>12. ASSUME NEW k \in Selector!Slots, NEW how \in {"answered", "refused"}, NEW row \in Selector!Rows \cup {None},
              NEW rows \in SUBSET Selector!Rows, ui.http[k] # None, Selector!Reply(k, how, row, rows)
       PROVE  ui' \in Selector!Pages
  <2> PICK q : q = [ui.http[k] EXCEPT !.at = how, !.row = row, !.rows = rows]
    OBVIOUS
  <2>1. q \in Selector!Asked
    BY <1>4, <1>12, Zenon DEF Selector!Asked
  <2> PICK raced \in BOOLEAN : raced = (ui.raced \/ (k \in {"save", "delete"} /\ \E j \in {"list", "late list"} : ui.http[j] # None))
    BY Zenon
  <2>2. ui' = [ui EXCEPT !.http[k] = q, !.raced = raced]
    BY <1>12 DEF Selector!Reply
  <2> QED BY <1>1, <2>1, <2>2, ZenonT(40) DEF Selector!Pages
<1>13. ASSUME NEW k \in Selector!Slots, Selector!Serve(k)
       PROVE  Selector!TypeOK'
  <2>1. ui.http[k] # None /\ ui.http[k] \in Selector!Asked
    BY <1>4, <1>13 DEF Selector!Serve
  <2>2. CASE Selector!ServeList(k)
    BY <1>1, <1>12, <2>1, <2>2 DEF Selector!ServeList, Selector!TypeOK
  <2>3. CASE k = "save" /\ Selector!ServeSave
    <3> PICK row \in Selector!Rows : /\ server' = {r \in server : r.id # row.id} \cup {row}
                                     /\ Selector!Reply(k, "answered", row, {})
      BY <2>3 DEF Selector!ServeSave
    <3> QED BY <1>1, <1>12, <2>1 DEF Selector!TypeOK
  <2>4. CASE k = "delete" /\ Selector!ServeDelete
    <3>1. server' \subseteq server /\ Selector!Reply(k, "answered", None, {})
      BY <2>4 DEF Selector!ServeDelete
    <3> QED BY <1>1, <1>12, <2>1, <3>1 DEF Selector!TypeOK
  <2>5. CASE Selector!Reply(k, "refused", None, {}) /\ UNCHANGED server
    BY <1>1, <1>12, <2>1, <2>5 DEF Selector!TypeOK
  <2> QED BY <1>13, <2>2, <2>3, <2>4, <2>5 DEF Selector!Serve
<1>14. ASSUME NEW k \in Selector!Slots, Selector!Fail(k)
       PROVE  Selector!TypeOK'
  <2>3. PICK l \in BOOLEAN, e \in BOOLEAN, s \in BOOLEAN, d \in BOOLEAN, t \in BOOLEAN :
        /\ l = (ui.loading /\ k # "list") /\ e = (ui.loadError \/ k = "list") /\ s = (ui.saving /\ k # "save")
        /\ d = (ui.deletingBusy /\ k # "delete") /\ t = (ui.lost \/ (k \in {"save", "delete"} /\ Selector!Answered(k)))
    BY Zenon
  <2>1. Selector!Become([ui EXCEPT !.http[k] = None, !.loading = l, !.loadError = e, !.saving = s, !.deletingBusy = d, !.lost = t])
    BY <1>14, <2>3 DEF Selector!Fail
  <2>2. [ui EXCEPT !.http[k] = None, !.loading = l, !.loadError = e, !.saving = s, !.deletingBusy = d, !.lost = t] \in Selector!Pages
    BY <1>1, Zenon DEF Selector!Pages
  <2> QED BY <1>2, <2>1, <2>2
<1>15. ASSUME NEW k \in Selector!Slots, Selector!Answered(k)
       PROVE  ui.http[k] \in Selector!Asked /\ ui.http[k].rows \subseteq Selector!Rows /\ IsFiniteSet(ui.http[k].rows)
              /\ ui.http[k].row \in Selector!Rows \cup {None} /\ (k = "save" => ui.http[k].row \in Selector!Rows)
  BY <1>4, <1>15 DEF Selector!Answered, Selector!Asked, SelectorInv, SelectorGood, SelectorForms
<1>16. ASSUME NEW S \in SUBSET Selector!Rows, IsFiniteSet(S)
       PROVE  Selector!Listed(S) \in Seq(Selector!Rows)
  <2> PICK s : s = Selector!Listed(S)
    OBVIOUS
  <2>1. s \in Seq(S)
    BY <1>16, SelectorListed
  <2>2. s \in Seq(Selector!Rows)
    BY <2>1
  <2> QED BY <2>2
<1>17. CASE Selector!ListAnswer
  <2> PICK a \in Seq(Selector!Rows) : a = Selector!Listed(ui.http["list"].rows)
    BY <1>15, <1>16, <1>17, Zenon DEF Selector!ListAnswer, Selector!Slots
  <2> PICK s \in Ledgers \cup {None} : s = (IF ui.selected \in {r.id : r \in ui.http["list"].rows} THEN ui.selected ELSE None)
    BY <1>3
  <2>1. Selector!Become([ui EXCEPT !.http["list"] = None, !.loading = FALSE, !.ledgers = a, !.selected = s])
    BY <1>17 DEF Selector!ListAnswer, Selector!Q
  <2>2. [ui EXCEPT !.http["list"] = None, !.loading = FALSE, !.ledgers = a, !.selected = s] \in Selector!Pages
    BY <1>1, ZenonT(40) DEF Selector!Pages, Selector!Slots
  <2> QED BY <1>2, <2>1, <2>2
<1>18. CASE Selector!LateListAnswer
  <2> PICK a \in Seq(Selector!Rows) : a = Selector!Listed(ui.http["late list"].rows)
    BY <1>15, <1>16, <1>18 DEF Selector!LateListAnswer, Selector!Slots
  <2>1. Selector!Become([ui EXCEPT !.http["late list"] = None, !.ledgers = a])
    BY <1>18 DEF Selector!LateListAnswer, Selector!Q
  <2>2. [ui EXCEPT !.http["late list"] = None, !.ledgers = a] \in Selector!Pages
    BY <1>1 DEF Selector!Pages, Selector!Slots
  <2> QED BY <1>2, <2>1, <2>2
<1>19. PICK raced \in BOOLEAN : raced = Selector!Raced
  BY Zenon DEF Selector!Raced
<1>20. CASE Selector!SaveAnswer
  <2> PICK row \in Selector!Rows : row = ui.http["save"].row
    BY <1>15, <1>20 DEF Selector!SaveAnswer, Selector!Slots
  <2>1. PICK a : a = (IF ui.http["save"].of = "new" THEN First(row, ui.ledgers) ELSE Selector!Replace(ui.ledgers, row))
    OBVIOUS
  <2>2. a \in Seq(Selector!Rows)
    <3>1. CASE a = First(row, ui.ledgers)
      BY <1>3, <3>1, Prepended
    <3>2. CASE a = Selector!Replace(ui.ledgers, row)
      BY <1>3, <3>2, SelectorReplaced
    <3> QED BY <2>1, <3>1, <3>2
  <2>3. Selector!Become([ui EXCEPT !.ledgers = a, !.http["save"] = None, !.saving = FALSE, !.editor = None,
                                   !.selected = row.id, !.raced = raced])
    BY <1>19, <1>20, <2>1 DEF Selector!SaveAnswer, Selector!Q, First
  <2>4. row.id \in Ledgers
    BY DEF Selector!Rows
  <2>5. [ui EXCEPT !.ledgers = a, !.http["save"] = None, !.saving = FALSE, !.editor = None,
                   !.selected = row.id, !.raced = raced] \in Selector!Pages
    BY <1>1, <2>2, <2>4, Zenon DEF Selector!Pages, Selector!Slots
  <2> QED BY <1>2, <2>3, <2>5
<1>21. CASE Selector!DeleteAnswer
  <2> PICK kept : kept = {r \in Selector!Rows : r.id # ui.http["delete"].of}
    OBVIOUS
  <2> PICK a : a = Filter(ui.ledgers, kept)
    OBVIOUS
  <2>1. a \in Seq(Selector!Rows)
    BY <1>3, FilterKeeps
  <2>5. PICK s \in Ledgers \cup {None} : s = (IF ui.selected = ui.http["delete"].of THEN None ELSE ui.selected)
    BY <1>3
  <2>6. PICK u : u = [ui EXCEPT !.http["delete"] = None, !.ledgers = a, !.raced = raced]
    OBVIOUS
  <2>2. u \in Selector!Pages /\ u.selected = ui.selected
    BY <1>1, <2>1, <2>6 DEF Selector!Pages, Selector!Slots
  <2>3. Selector!Become(u) \/ Selector!Become([u EXCEPT !.deletingBusy = FALSE, !.deleting = None, !.selected = s])
    BY <1>19, <1>21, <2>2, <2>5, <2>6, SelectorFilter, Zenon DEF Selector!DeleteAnswer, Selector!Q
  <2>4. [u EXCEPT !.deletingBusy = FALSE, !.deleting = None, !.selected = s] \in Selector!Pages
    BY <2>2, Zenon DEF Selector!Pages
  <2> QED BY <1>2, <2>2, <2>3, <2>4
<1> QED BY <1>5, <1>6, <1>7, <1>8, <1>9, <1>10, <1>11, <1>13, <1>14, <1>17, <1>18, <1>20, <1>21 DEF Selector!Next

\* What the user does on the page leaves the list and the exchanges alone.
SelectorKept ==
  /\ (ui'.here <=> ui.here) /\ ui'.ledgers = ui.ledgers /\ ui'.http = ui.http
  /\ (ui'.loading <=> ui.loading) /\ (ui'.loadError <=> ui.loadError) /\ (ui'.saving <=> ui.saving)
  /\ (ui'.deletingBusy <=> ui.deletingBusy) /\ (ui'.raced <=> ui.raced) /\ (ui'.lost <=> ui.lost)

LEMMA SelectorSame ==
  ASSUME SelectorGood, UNCHANGED server, SelectorKept,
         \/ ui'.editor = ui.editor /\ ui'.deleting = ui.deleting
         \/ Selector!Free /\ (ui'.editor = None \/ ui'.deleting = None)
         \/ ui'.editor = ui.editor /\ ui'.deleting = None /\ ~ ui.deletingBusy
         \/ ui'.editor = None /\ ui'.deleting = ui.deleting /\ ~ ui.saving
  PROVE  SelectorGood'
<1>1. Selector!BusyIsPending' /\ SelectorForms' /\ SelectorShows'
  BY DEF SelectorGood, Selector!BusyIsPending, SelectorForms, SelectorShows, SelectorKept
<1>2. SelectorWaits'
  BY DEF SelectorGood, Selector!BusyIsPending, SelectorKept, SelectorWaits, Selector!Free
<1> QED BY <1>1, <1>2 DEF SelectorGood

\* The same for one exchange that is put aside or taken up: what remains of
\* SelectorShows is about a list, a save and a deletion that were answered.
LEMMA SelectorSameShown ==
  ASSUME SelectorShows, UNCHANGED server, ui'.ledgers = ui.ledgers,
         ui'.here /\ ~ ui'.raced => ui.here /\ ~ ui.raced,
         ~ ui'.loadError /\ ~ ui'.lost => ~ ui.loadError /\ ~ ui.lost,
         ui'.http["list"] = ui.http["list"] \/ (ui'.http["list"] = None /\ ui'.loadError),
         \A k \in {"save", "delete"} :
           \/ ui'.http[k] = ui.http[k]
           \/ /\ ui.http[k] = None \/ ui.http[k].at # "answered" \/ ui'.lost
              /\ ui'.http[k] = None \/ ui'.http[k].at # "answered"
  PROVE  SelectorShows'
BY DEF SelectorShows

LEMMA SelectorUsed ==
  ASSUME SelectorInv
  PROVE  /\ \A text \in Texts : Selector!SetSearch(text) => SelectorGood'
         /\ \A r \in Selector!Rows : Selector!SelectLedger(r) \/ Selector!OpenEdit(r) \/ Selector!OpenDelete(r) => SelectorGood'
         /\ Selector!OpenCreate \/ Selector!CloseEditor \/ Selector!CloseDelete => SelectorGood'
<1>1. ui \in Selector!Pages /\ SelectorGood
  BY DEF SelectorInv, Selector!TypeOK
<1>2. ASSUME NEW text \in Texts, Selector!SetSearch(text)
      PROVE  SelectorGood'
  <2> PICK s : ui' = [ui EXCEPT !.search = text, !.selected = s] /\ UNCHANGED server
    BY <1>2, Zenon DEF Selector!SetSearch, Selector!Become
  <2>1. SelectorKept /\ ui'.editor = ui.editor /\ ui'.deleting = ui.deleting
    BY <1>1 DEF Selector!Pages, SelectorKept
  <2> QED BY <1>1, <2>1, SelectorSame
<1>3. ASSUME NEW r \in Selector!Rows, Selector!SelectLedger(r)
      PROVE  SelectorGood'
  <2>1. SelectorKept /\ UNCHANGED server /\ ui'.editor = ui.editor /\ ui'.deleting = ui.deleting
    BY <1>1, <1>3 DEF Selector!Pages, SelectorKept, Selector!SelectLedger, Selector!Become
  <2> QED BY <1>1, <1>3, <2>1, SelectorSame DEF Selector!SelectLedger
<1>4. ASSUME NEW r \in Selector!Rows, Selector!OpenEdit(r)
      PROVE  SelectorGood'
  <2>1. SelectorKept /\ UNCHANGED server /\ ui'.editor = r.id /\ ui'.deleting = ui.deleting
    BY <1>1, <1>4 DEF Selector!Pages, SelectorKept, Selector!OpenEdit, Selector!Become
  <2> QED BY <1>1, <1>4, <2>1, SelectorSame DEF Selector!OpenEdit, Selector!RowsShown, Selector!Free
<1>5. ASSUME NEW r \in Selector!Rows, Selector!OpenDelete(r)
      PROVE  SelectorGood'
  <2>1. SelectorKept /\ UNCHANGED server /\ ui'.editor = ui.editor /\ ui'.deleting = r.id
    BY <1>1, <1>5 DEF Selector!Pages, SelectorKept, Selector!OpenDelete, Selector!Become
  <2> QED BY <1>1, <1>5, <2>1, SelectorSame DEF Selector!OpenDelete, Selector!RowsShown, Selector!Free
<1>6. ASSUME Selector!OpenCreate
      PROVE  SelectorGood'
  <2>1. SelectorKept /\ UNCHANGED server /\ ui'.editor = "new" /\ ui'.deleting = ui.deleting
    BY <1>1, <1>6 DEF Selector!Pages, SelectorKept, Selector!OpenCreate, Selector!Become
  <2> QED BY <1>1, <1>6, <2>1, SelectorSame DEF Selector!OpenCreate, Selector!Free
<1>7. ASSUME Selector!CloseEditor
      PROVE  SelectorGood'
  <2>1. SelectorKept /\ UNCHANGED server /\ ui'.editor = None /\ ui'.deleting = ui.deleting
    BY <1>1, <1>7 DEF Selector!Pages, SelectorKept, Selector!CloseEditor, Selector!Become
  <2> QED BY <1>1, <1>7, <2>1, SelectorSame DEF Selector!CloseEditor
<1>8. ASSUME Selector!CloseDelete
      PROVE  SelectorGood'
  <2>1. SelectorKept /\ UNCHANGED server /\ ui'.editor = ui.editor /\ ui'.deleting = None
    BY <1>1, <1>8 DEF Selector!Pages, SelectorKept, Selector!CloseDelete, Selector!Become
  <2> QED BY <1>1, <1>8, <2>1, SelectorSame DEF Selector!CloseDelete
<1> QED BY <1>2, <1>3, <1>4, <1>5, <1>6, <1>7, <1>8

LEMMA SelectorSentOn ==
  ASSUME SelectorInv
  PROVE  /\ Selector!SaveLedger \/ Selector!DeleteLedger => SelectorGood'
         /\ Selector!Leave \/ Selector!Return => SelectorGood'
<1>1. ui \in Selector!Pages /\ SelectorGood /\ SelectorForms /\ SelectorWaits /\ SelectorShows /\ Selector!BusyIsPending
  BY DEF SelectorInv, SelectorGood, Selector!TypeOK
<1>2. DOMAIN ui.http = Selector!Slots
  BY <1>1 DEF Selector!Pages
<1>3. ASSUME Selector!SaveLedger
      PROVE  SelectorGood'
  <2>0. PICK q : q = [Selector!Sent EXCEPT !.of = ui.editor]
    OBVIOUS
  <2>q. q # None /\ q.at = "sent" /\ IsFiniteSet(q.rows)
    BY <1>1, <2>0, SelectorSent, Zenon DEF Selector!Pages
  <2>1. ui' = [ui EXCEPT !.saving = TRUE, !.changes = @ + 1, !.http["save"] = q]
    BY <1>3, <2>0 DEF Selector!SaveLedger, Selector!Become
  <2>g. UNCHANGED server /\ ui.editor # None /\ ~ ui.saving
    BY <1>3 DEF Selector!SaveLedger, Selector!Become
  <2>2. /\ (ui'.here <=> ui.here) /\ ui'.ledgers = ui.ledgers /\ ui'.http = [ui.http EXCEPT !["save"] = q]
        /\ (ui'.loading <=> ui.loading) /\ (ui'.loadError <=> ui.loadError) /\ ui'.saving
        /\ (ui'.deletingBusy <=> ui.deletingBusy) /\ (ui'.raced <=> ui.raced) /\ (ui'.lost <=> ui.lost)
        /\ ui'.editor = ui.editor /\ ui'.deleting = ui.deleting
    BY <1>1, <2>1 DEF Selector!Pages
  <2>3. ui'.http["save"] = q /\ ui'.http["list"] = ui.http["list"] /\ ui'.http["late list"] = ui.http["late list"] /\ ui'.http["delete"] = ui.http["delete"]
    BY <1>2, <2>2 DEF Selector!Slots
  <2>4. ui.http["save"] = None
    BY <1>1, <2>g DEF Selector!BusyIsPending
  <2>5. Selector!BusyIsPending' /\ SelectorWaits'
    BY <1>1, <2>g, <2>q, <2>2, <2>3 DEF Selector!BusyIsPending, SelectorWaits
  <2>7. SelectorForms'
    BY <1>1, <2>g, <2>q, <2>2, <2>3, Zenon DEF SelectorForms, Selector!Slots
  <2>6. SelectorShows'
    BY <1>1, <2>g, <2>q, <2>2, <2>3, <2>4, SelectorSameShown
  <2> QED BY <2>5, <2>6, <2>7 DEF SelectorGood
<1>4. ASSUME Selector!DeleteLedger
      PROVE  SelectorGood'
  <2>0. PICK q : q = [Selector!Sent EXCEPT !.of = ui.deleting]
    OBVIOUS
  <2>q. q # None /\ q.at = "sent" /\ IsFiniteSet(q.rows)
    BY <1>1, <2>0, SelectorSent, Zenon DEF Selector!Pages
  <2>1. ui' = [ui EXCEPT !.deletingBusy = TRUE, !.changes = @ + 1, !.http["delete"] = q]
    BY <1>4, <2>0 DEF Selector!DeleteLedger, Selector!Become
  <2>g. UNCHANGED server /\ ui.deleting # None /\ ~ ui.deletingBusy /\ ui.http["delete"] = None
    BY <1>4 DEF Selector!DeleteLedger, Selector!Become
  <2>2. /\ (ui'.here <=> ui.here) /\ ui'.ledgers = ui.ledgers /\ ui'.http = [ui.http EXCEPT !["delete"] = q]
        /\ (ui'.loading <=> ui.loading) /\ (ui'.loadError <=> ui.loadError) /\ (ui'.saving <=> ui.saving)
        /\ ui'.deletingBusy /\ (ui'.raced <=> ui.raced) /\ (ui'.lost <=> ui.lost)
        /\ ui'.editor = ui.editor /\ ui'.deleting = ui.deleting
    BY <1>1, <2>1 DEF Selector!Pages
  <2>3. ui'.http["delete"] = q /\ ui'.http["list"] = ui.http["list"] /\ ui'.http["late list"] = ui.http["late list"] /\ ui'.http["save"] = ui.http["save"]
    BY <1>2, <2>2 DEF Selector!Slots
  <2>5. Selector!BusyIsPending' /\ SelectorWaits'
    BY <1>1, <2>g, <2>q, <2>2, <2>3 DEF Selector!BusyIsPending, SelectorWaits
  <2>7. SelectorForms'
    BY <1>1, <2>g, <2>q, <2>2, <2>3, Zenon DEF SelectorForms, Selector!Slots
  <2>6. SelectorShows'
    BY <1>1, <2>g, <2>q, <2>2, <2>3, SelectorSameShown
  <2> QED BY <2>5, <2>6, <2>7 DEF SelectorGood
<1>5. ASSUME Selector!Leave
      PROVE  SelectorGood'
  <2>0. PICK h : h = [ui.http EXCEPT !["save"] = None, !["late list"] = ui.http["list"], !["list"] = None]
    OBVIOUS
  <2>1. ui' = [ui EXCEPT !.here = FALSE, !.editor = None, !.saving = FALSE, !.deleting = None,
                         !.deletingBusy = FALSE, !.selected = None, !.http = h] /\ UNCHANGED server
    BY <1>1, <1>5, <2>0, ZenonT(40) DEF Selector!Leave, Selector!Become, Selector!Pages
  <2>2. /\ ~ ui'.here /\ ui'.http = h /\ ~ ui'.saving /\ ~ ui'.deletingBusy
        /\ ui'.editor = None /\ ui'.deleting = None
    BY <1>1, <2>1 DEF Selector!Pages
  <2>3. h["save"] = None /\ h["late list"] = ui.http["list"] /\ h["list"] = None /\ h["delete"] = ui.http["delete"]
    BY <1>2, <2>0 DEF Selector!Slots
  <2>5. Selector!BusyIsPending' /\ SelectorForms' /\ SelectorWaits'
    BY <1>1, <2>1, <2>2, <2>3, Zenon DEF Selector!BusyIsPending, SelectorForms, SelectorWaits, Selector!Slots
  <2>6. SelectorShows'
    BY <2>2 DEF SelectorShows
  <2> QED BY <2>5, <2>6 DEF SelectorGood
<1>6. ASSUME Selector!Return
      PROVE  SelectorGood'
  <2>1. PICK raced \in BOOLEAN : raced = (ui.http["late list"] # None \/ ui.http["delete"] # None)
    BY Zenon
  <2>2. ui' = Selector!Created(ui.ledgers, ui.http, raced, ui.changes) /\ UNCHANGED server /\ ~ ui.here
    BY <1>6, <2>1 DEF Selector!Return, Selector!Become
  <2>3. /\ ui.ledgers \in Seq(Selector!Rows) /\ ui.http \in [Selector!Slots -> Selector!Asked \cup {None}]
        /\ ui.changes \in Sending
    BY <1>1 DEF Selector!Pages, Sending
  <2>4. /\ ui'.here /\ ui'.editor = None /\ ui'.deleting = None
        /\ ~ ui'.saving /\ ~ ui'.deletingBusy /\ ui'.loading /\ (ui'.raced <=> raced)
        /\ ui'.http["list"] # None /\ ui'.http["list"].at = "sent" /\ IsFiniteSet(ui'.http["list"].rows)
        /\ \A k \in Selector!Slots \ {"list"} : ui'.http[k] = ui.http[k]
    BY <2>2, <2>3, SelectorCreated
  <2>5. ui.http["list"] = None /\ ui.http["save"] = None
    BY <1>1, <2>2 DEF SelectorWaits
  <2>6. Selector!BusyIsPending' /\ SelectorForms' /\ SelectorWaits'
    BY <1>1, <2>1, <2>2, <2>4, <2>5, ZenonT(40) DEF Selector!BusyIsPending, SelectorForms, SelectorWaits, Selector!Slots
  <2>7. SelectorShows'
    BY <1>1, <2>1, <2>2, <2>4, <2>5, Zenon DEF SelectorShows, Selector!Slots
  <2> QED BY <2>6, <2>7 DEF SelectorGood
<1> QED BY <1>3, <1>4, <1>5, <1>6

LEMMA SelectorFailed ==
  ASSUME SelectorInv, NEW k \in Selector!Slots, Selector!Fail(k)
  PROVE  SelectorGood'
<1>1. ui \in Selector!Pages /\ SelectorGood /\ SelectorForms /\ SelectorWaits /\ SelectorShows /\ Selector!BusyIsPending
  BY DEF SelectorInv, SelectorGood, Selector!TypeOK
<1>2. PICK l \in BOOLEAN, e \in BOOLEAN, s \in BOOLEAN, d \in BOOLEAN, t \in BOOLEAN :
        /\ l = (ui.loading /\ k # "list") /\ e = (ui.loadError \/ k = "list") /\ s = (ui.saving /\ k # "save")
        /\ d = (ui.deletingBusy /\ k # "delete")
        /\ t = (ui.lost \/ (k \in {"save", "delete"} /\ ui.http[k] # None /\ ui.http[k].at = "answered"))
  BY Zenon
<1>3. ui' = [ui EXCEPT !.http[k] = None, !.loading = l, !.loadError = e, !.saving = s, !.deletingBusy = d, !.lost = t]
  BY <1>2 DEF Selector!Fail, Selector!Become, Selector!Answered
<1>8. UNCHANGED server /\ ui.http[k] # None
  BY DEF Selector!Fail, Selector!Become
<1>4. /\ (ui'.here <=> ui.here) /\ ui'.ledgers = ui.ledgers /\ ui'.http = [ui.http EXCEPT ![k] = None]
      /\ (ui'.loading <=> l) /\ (ui'.loadError <=> e) /\ (ui'.saving <=> s)
      /\ (ui'.deletingBusy <=> d) /\ (ui'.raced <=> ui.raced) /\ (ui'.lost <=> t)
      /\ ui'.editor = ui.editor /\ ui'.deleting = ui.deleting
  BY <1>1, <1>3 DEF Selector!Pages
<1>5. ui'.http[k] = None /\ \A j \in Selector!Slots \ {k} : ui'.http[j] = ui.http[j]
  BY <1>1, <1>4 DEF Selector!Pages
<1>6. Selector!BusyIsPending' /\ SelectorWaits'
  <2>1. \A j \in {"list", "save", "delete", "late list"} : ui'.http[j] = IF j = k THEN None ELSE ui.http[j]
    BY <1>5 DEF Selector!Slots
  <2> QED BY <1>1, <1>2, <1>8, <1>4, <2>1 DEF Selector!BusyIsPending, SelectorWaits
<1>9. SelectorForms'
  <2>1. \A j \in Selector!Slots : ui'.http[j] # None => ui'.http[j] = ui.http[j]
    BY <1>5
  <2> QED BY <1>1, <1>8, <2>1 DEF SelectorForms, Selector!Slots
<1>7. SelectorShows'
  <2>1. \A j \in {"save", "delete"} : \/ ui'.http[j] = ui.http[j]
                                      \/ /\ ui.http[j] = None \/ ui.http[j].at # "answered" \/ ui'.lost
                                         /\ ui'.http[j] = None \/ ui'.http[j].at # "answered"
    BY <1>2, <1>8, <1>4, <1>5, Zenon DEF Selector!Slots
  <2>2. ui'.http["list"] = ui.http["list"] \/ (ui'.http["list"] = None /\ ui'.loadError)
    BY <1>2, <1>4, <1>5, Zenon DEF Selector!Slots
  <2>3. ~ ui'.loadError /\ ~ ui'.lost => ~ ui.loadError /\ ~ ui.lost
    BY <1>2, <1>4, Zenon
  <2> QED BY <1>1, <1>8, <1>4, <2>1, <2>2, <2>3, SelectorSameShown
<1> QED BY <1>6, <1>7, <1>9 DEF SelectorGood

\* The exchange has its answer, the rest of the page is as it was.
SelectorReplies(k, how, row, rows) ==
  /\ ui'.http[k] # None /\ ui'.http[k].at = how /\ ui'.http[k].row = row /\ ui'.http[k].rows = rows
  /\ ui'.http[k].of = ui.http[k].of
  /\ \A j \in Selector!Slots \ {k} : ui'.http[j] = ui.http[j]
  /\ (ui'.here <=> ui.here) /\ ui'.ledgers = ui.ledgers
  /\ (ui'.loading <=> ui.loading) /\ (ui'.loadError <=> ui.loadError) /\ (ui'.saving <=> ui.saving)
  /\ (ui'.deletingBusy <=> ui.deletingBusy) /\ (ui'.lost <=> ui.lost)
  /\ ui'.editor = ui.editor /\ ui'.deleting = ui.deleting
  /\ (ui'.raced <=> ui.raced \/ (k \in {"save", "delete"} /\ (ui.http["list"] # None \/ ui.http["late list"] # None)))

LEMMA SelectorReplied ==
  ASSUME ui \in Selector!Pages, NEW k \in Selector!Slots, ui.http[k] # None, NEW how \in {"answered", "refused"},
         NEW row \in Selector!Rows \cup {None}, NEW rows \in SUBSET Selector!Rows, Selector!Reply(k, how, row, rows)
  PROVE  SelectorReplies(k, how, row, rows)
<1>1. PICK q : q = [ui.http[k] EXCEPT !.at = how, !.row = row, !.rows = rows]
  OBVIOUS
<1>2. ui.http[k] \in Selector!Asked
  BY DEF Selector!Pages
<1>3. q \in Selector!Asked /\ q.at = how /\ q.row = row /\ q.rows = rows /\ q.of = ui.http[k].of
  BY <1>1, <1>2, Zenon DEF Selector!Asked
<1>4. q # None
  BY <1>3, NoneAssumption
<1>5. PICK raced \in BOOLEAN :
        raced = (ui.raced \/ (k \in {"save", "delete"} /\ \E j \in {"list", "late list"} : ui.http[j] # None))
  BY Zenon
<1>6. ui' = [ui EXCEPT !.http[k] = q, !.raced = raced]
  BY <1>1, <1>5, Zenon DEF Selector!Reply
<1>7. /\ ui'.http = [ui.http EXCEPT ![k] = q] /\ DOMAIN ui.http = Selector!Slots
      /\ (ui'.here <=> ui.here) /\ ui'.ledgers = ui.ledgers
      /\ (ui'.loading <=> ui.loading) /\ (ui'.loadError <=> ui.loadError) /\ (ui'.saving <=> ui.saving)
      /\ (ui'.deletingBusy <=> ui.deletingBusy) /\ (ui'.lost <=> ui.lost)
      /\ ui'.editor = ui.editor /\ ui'.deleting = ui.deleting /\ (ui'.raced <=> raced)
  BY <1>6 DEF Selector!Pages
<1>8. ui'.http[k] = q /\ \A j \in Selector!Slots \ {k} : ui'.http[j] = ui.http[j]
  BY <1>7
<1>9. raced <=> ui.raced \/ (k \in {"save", "delete"} /\ (ui.http["list"] # None \/ ui.http["late list"] # None))
  BY <1>5
<1> QED BY <1>3, <1>4, <1>7, <1>8, <1>9, Zenon DEF SelectorReplies

LEMMA SelectorServed ==
  ASSUME SelectorInv, NEW k \in Selector!Slots, Selector!Serve(k)
  PROVE  SelectorGood'
<1>1. /\ ui \in Selector!Pages /\ SelectorForms /\ SelectorWaits /\ SelectorShows /\ Selector!BusyIsPending
      /\ server \subseteq Selector!Rows
  BY DEF SelectorInv, SelectorGood, Selector!TypeOK
<1>2. ui.http[k] # None /\ ui.http[k].at = "sent" /\ IsFiniteSet({})
  BY FS_EmptySet DEF Selector!Serve
<1>3. ASSUME NEW how \in {"answered", "refused"}, NEW row \in Selector!Rows \cup {None},
             NEW rows \in SUBSET Selector!Rows, IsFiniteSet(rows), Selector!Reply(k, how, row, rows),
             k = "save" => (how = "answered" => row # None), IsFiniteSet(server'), OnePerId(server')
      PROVE  Selector!BusyIsPending' /\ SelectorForms' /\ SelectorWaits'
  <2>0. SelectorReplies(k, how, row, rows)
    BY <1>1, <1>2, <1>3, SelectorReplied
  <2>1. \A j \in Selector!Slots : ui'.http[j] # None <=> ui.http[j] # None
    BY <1>2, <2>0, Zenon DEF SelectorReplies
  <2>2. /\ (ui'.here <=> ui.here) /\ (ui'.loading <=> ui.loading) /\ (ui'.saving <=> ui.saving)
        /\ (ui'.deletingBusy <=> ui.deletingBusy) /\ ui'.editor = ui.editor /\ ui'.deleting = ui.deleting
        /\ (ui.raced => ui'.raced)
    BY <2>0 DEF SelectorReplies
  <2>3. /\ ui'.http[k] # None /\ ui'.http[k].at = how /\ ui'.http[k].row = row /\ ui'.http[k].rows = rows
        /\ \A j \in Selector!Slots \ {k} : ui'.http[j] = ui.http[j]
    BY <2>0 DEF SelectorReplies
  <2>4. Selector!BusyIsPending' /\ SelectorWaits'
    BY <1>1, <2>1, <2>2, Zenon DEF Selector!BusyIsPending, SelectorWaits, Selector!Slots
  <2>5. SelectorForms'
    BY <1>1, <1>3, <2>3, Zenon DEF SelectorForms, Selector!Slots
  <2> QED BY <2>4, <2>5
<1>4. CASE k \in {"list", "late list"} /\ Selector!ServeList(k)
  <2>1. PICK rows \in SUBSET Selector!Rows : rows = server /\ IsFiniteSet(rows)
    BY <1>1 DEF SelectorForms
  <2>2. Selector!Reply(k, "answered", None, rows) /\ UNCHANGED server
    BY <1>4, <2>1 DEF Selector!ServeList
  <2>0. SelectorReplies(k, "answered", None, rows)
    BY <1>1, <1>2, <1>4, <2>2, SelectorReplied
  <2>3. /\ ui'.http[k] # None /\ ui'.http[k].at = "answered" /\ ui'.http[k].rows = rows
        /\ \A j \in Selector!Slots \ {k} : ui'.http[j] = ui.http[j]
        /\ (ui'.here <=> ui.here) /\ ui'.ledgers = ui.ledgers
        /\ (ui'.loadError <=> ui.loadError) /\ (ui'.lost <=> ui.lost) /\ (ui'.raced <=> ui.raced)
    BY <1>4, <2>0 DEF SelectorReplies
  <2>4. SelectorShows'
    BY <1>1, <1>2, <1>4, <2>1, <2>2, <2>3, ZenonT(40) DEF SelectorShows, Selector!Slots
  <2>5. IsFiniteSet(server') /\ OnePerId(server')
    BY <1>1, <2>2 DEF SelectorForms
  <2> QED BY <1>3, <1>4, <2>1, <2>2, <2>4, <2>5, Zenon DEF SelectorGood
<1>5. CASE k = "save" /\ Selector!ServeSave
  <2>1. PICK row \in Selector!Rows :
          /\ IF ui.http["save"].of = "new" THEN ~ row.edited /\ row.id \notin {r.id : r \in server}
             ELSE row = [id |-> ui.http["save"].of, edited |-> TRUE] /\ \E r \in server : r.id = ui.http["save"].of
          /\ server' = {r \in server : r.id # row.id} \cup {row}
          /\ Selector!Reply("save", "answered", row, {})
    BY <1>5 DEF Selector!ServeSave
  <2>2. row # None
    BY NoneAssumption
  <2>3. IsFiniteSet(server') /\ OnePerId(server')
    <3>1. IsFiniteSet(Unlike(server, row.id))
      BY <1>1, FS_Subset DEF SelectorForms, Unlike
    <3>2. server' = Unlike(server, row.id) \cup {row}
      BY <2>1 DEF Unlike
    <3> QED BY <1>1, <3>1, <3>2, FS_AddElement, Zenon DEF SelectorForms, OnePerId, Unlike
  <2>0. SelectorReplies("save", "answered", row, {})
    BY <1>1, <1>2, <1>5, <2>1, SelectorReplied
  <2>4. /\ ui'.http["save"] # None /\ ui'.http["save"].at = "answered" /\ ui'.http["save"].row = row
        /\ ui'.http["save"].of = ui.http["save"].of
        /\ \A j \in Selector!Slots \ {"save"} : ui'.http[j] = ui.http[j]
        /\ (ui'.here <=> ui.here) /\ ui'.ledgers = ui.ledgers
        /\ (ui'.loadError <=> ui.loadError) /\ (ui'.lost <=> ui.lost)
        /\ (ui'.raced <=> ui.raced \/ ui.http["list"] # None \/ ui.http["late list"] # None)
    BY <1>5, <2>0 DEF SelectorReplies
  <2>5. ASSUME ui'.here /\ ~ ui'.raced
        PROVE  /\ ui.http["list"] = None /\ ui'.http["list"] = None /\ ui'.http["delete"] = None
               /\ ~ ui'.loadError /\ ~ ui'.lost => EachOnce(ui.ledgers) /\ OnePerId(server) /\ server = Elements(ui.ledgers)
    <3>1. ui.here /\ ~ ui.raced /\ ui.http["list"] = None /\ ui.http["late list"] = None
      BY <2>4, <2>5
    <3>2. ui.http["delete"] = None
      BY <1>1, <1>2, <1>5, <3>1 DEF SelectorWaits
    <3> QED BY <1>1, <1>2, <1>5, <2>4, <3>1, <3>2 DEF SelectorShows, SelectorForms, Selector!Slots
  <2>6. /\ server' = Unlike(server, row.id) \cup {row}
        /\ IF ui.http["save"].of = "new" THEN \A r \in server : r.id # row.id ELSE \E r \in server : r.id = row.id
    BY <2>1 DEF Unlike
  <2>7. SelectorShows'
    BY <2>4, <2>5, <2>6, Zenon DEF SelectorShows
  <2> QED BY <1>2, <1>3, <1>5, <2>1, <2>2, <2>3, <2>7 DEF SelectorGood
<1>6. CASE k = "delete" /\ Selector!ServeDelete
  <2>1. server' = Unlike(server, ui.http["delete"].of) /\ Selector!Reply("delete", "answered", None, {})
    BY <1>6 DEF Selector!ServeDelete, Unlike
  <2>3. IsFiniteSet(server') /\ OnePerId(server')
    BY <1>1, <2>1, FS_Subset DEF SelectorForms, OnePerId, Unlike
  <2>0. SelectorReplies("delete", "answered", None, {})
    BY <1>1, <1>2, <1>6, <2>1, SelectorReplied
  <2>4. /\ ui'.http["delete"] # None /\ ui'.http["delete"].at = "answered"
        /\ ui'.http["delete"].of = ui.http["delete"].of
        /\ \A j \in Selector!Slots \ {"delete"} : ui'.http[j] = ui.http[j]
        /\ (ui'.here <=> ui.here) /\ ui'.ledgers = ui.ledgers
        /\ (ui'.loadError <=> ui.loadError) /\ (ui'.lost <=> ui.lost)
        /\ (ui'.raced <=> ui.raced \/ ui.http["list"] # None \/ ui.http["late list"] # None)
    BY <1>6, <2>0 DEF SelectorReplies
  <2>5. ASSUME ui'.here /\ ~ ui'.raced
        PROVE  /\ ui.http["list"] = None /\ ui'.http["list"] = None /\ ui'.http["save"] = None
               /\ ~ ui'.loadError /\ ~ ui'.lost => EachOnce(ui.ledgers) /\ OnePerId(server) /\ server = Elements(ui.ledgers)
    <3>1. ui.here /\ ~ ui.raced /\ ui.http["list"] = None /\ ui.http["late list"] = None
      BY <2>4, <2>5
    <3>2. ui.http["save"] = None
      BY <1>1, <1>2, <1>6, <3>1 DEF SelectorWaits
    <3> QED BY <1>1, <1>2, <1>6, <2>4, <3>1, <3>2 DEF SelectorShows, SelectorForms, Selector!Slots
  <2>7. SelectorShows'
    BY <2>1, <2>4, <2>5, Zenon DEF SelectorShows
  <2> QED BY <1>2, <1>3, <1>6, <2>1, <2>3, <2>7 DEF SelectorGood
<1>7. CASE k \in {"save", "delete"} /\ Selector!Reply(k, "refused", None, {}) /\ UNCHANGED server
  <2>0. SelectorReplies(k, "refused", None, {})
    BY <1>1, <1>2, <1>7, SelectorReplied
  <2>1. /\ ui'.http[k] # None /\ ui'.http[k].at = "refused"
        /\ \A j \in Selector!Slots \ {k} : ui'.http[j] = ui.http[j]
        /\ (ui'.here <=> ui.here) /\ ui'.ledgers = ui.ledgers
        /\ (ui'.loadError <=> ui.loadError) /\ (ui'.lost <=> ui.lost) /\ (ui.raced => ui'.raced)
    BY <1>7, <2>0 DEF SelectorReplies
  <2>2. SelectorShows'
    BY <1>1, <1>2, <1>7, <2>1, SelectorSameShown, Zenon DEF Selector!Slots
  <2>3. IsFiniteSet(server') /\ OnePerId(server')
    BY <1>1, <1>7 DEF SelectorForms
  <2> QED BY <1>2, <1>3, <1>7, <2>2, <2>3 DEF SelectorGood
<1> QED BY <1>4, <1>5, <1>6, <1>7 DEF Selector!Serve

LEMMA SelectorAnswered ==
  ASSUME SelectorInv
  PROVE  /\ Selector!ListAnswer \/ Selector!LateListAnswer => SelectorGood'
         /\ Selector!SaveAnswer \/ Selector!DeleteAnswer => SelectorGood'
<1>1. /\ ui \in Selector!Pages /\ SelectorForms /\ SelectorWaits /\ SelectorShows /\ Selector!BusyIsPending
      /\ server \subseteq Selector!Rows /\ DOMAIN ui.http = Selector!Slots
  BY DEF SelectorInv, SelectorGood, Selector!TypeOK, Selector!Pages
<1>2. ui.ledgers \in Seq(Selector!Rows) /\ Elements(ui.ledgers) \subseteq Selector!Rows
  BY <1>1 DEF Selector!Pages, Elements
<1>3. ASSUME Selector!ListAnswer
      PROVE  SelectorGood'
  <2>0. PICK rows : rows = ui.http["list"].rows
    OBVIOUS
  <2>1. PICK a : a = Selector!Listed(rows)
    OBVIOUS
  <2>2. PICK s : ui' = [ui EXCEPT !.http["list"] = None, !.loading = FALSE, !.ledgers = a, !.selected = s]
    BY <1>3, <2>0, <2>1, Zenon DEF Selector!ListAnswer, Selector!Become, Selector!Q
  <2>3. UNCHANGED server /\ ui.http["list"] # None /\ ui.http["list"].at = "answered"
    BY <1>3 DEF Selector!ListAnswer, Selector!Become, Selector!Answered
  <2>4. /\ ui'.http = [ui.http EXCEPT !["list"] = None]
        /\ (ui'.here <=> ui.here) /\ ui'.ledgers = a /\ ~ ui'.loading /\ (ui'.loadError <=> ui.loadError)
        /\ (ui'.saving <=> ui.saving) /\ (ui'.deletingBusy <=> ui.deletingBusy) /\ (ui'.lost <=> ui.lost)
        /\ (ui'.raced <=> ui.raced) /\ ui'.editor = ui.editor /\ ui'.deleting = ui.deleting
    BY <1>1, <2>2 DEF Selector!Pages
  <2>5. ui'.http["list"] = None /\ \A j \in Selector!Slots \ {"list"} : ui'.http[j] = ui.http[j]
    BY <1>1, <2>4 DEF Selector!Slots
  <2>6. Selector!BusyIsPending' /\ SelectorWaits'
    BY <1>1, <2>4, <2>5, Zenon DEF Selector!BusyIsPending, SelectorWaits, Selector!Slots
  <2>7. SelectorForms'
    BY <1>1, <2>3, <2>5, Zenon DEF SelectorForms, Selector!Slots
  <2>8. IsFiniteSet(rows)
    BY <1>1, <2>0, <2>3, Zenon DEF SelectorForms, Selector!Slots
  <2>9. Elements(a) = rows /\ EachOnce(a)
    BY <2>1, <2>8, SelectorListed
  <2>10. SelectorShows'
    BY <1>1, <2>0, <2>3, <2>4, <2>5, <2>9 DEF SelectorShows, SelectorForms, Selector!Slots
  <2> QED BY <2>6, <2>7, <2>10 DEF SelectorGood
<1>4. ASSUME Selector!LateListAnswer
      PROVE  SelectorGood'
  <2>1. PICK a : ui' = [ui EXCEPT !.http["late list"] = None, !.ledgers = a]
    BY <1>4 DEF Selector!LateListAnswer, Selector!Become
  <2>3. UNCHANGED server /\ ui.http["late list"] # None
    BY <1>4 DEF Selector!LateListAnswer, Selector!Become, Selector!Answered
  <2>4. /\ ui'.http = [ui.http EXCEPT !["late list"] = None]
        /\ (ui'.here <=> ui.here) /\ (ui'.loading <=> ui.loading)
        /\ (ui'.saving <=> ui.saving) /\ (ui'.deletingBusy <=> ui.deletingBusy)
        /\ (ui'.raced <=> ui.raced) /\ ui'.editor = ui.editor /\ ui'.deleting = ui.deleting
    BY <1>1, <2>1 DEF Selector!Pages
  <2>5. ui'.http["late list"] = None /\ \A j \in Selector!Slots \ {"late list"} : ui'.http[j] = ui.http[j]
    BY <1>1, <2>4 DEF Selector!Slots
  <2>6. Selector!BusyIsPending' /\ SelectorWaits'
    BY <1>1, <2>4, <2>5 DEF Selector!BusyIsPending, SelectorWaits, Selector!Slots
  <2>7. SelectorForms'
    BY <1>1, <2>3, <2>5, Zenon DEF SelectorForms, Selector!Slots
  <2>8. SelectorShows'
    BY <1>1, <2>3, <2>4, Zenon DEF SelectorWaits, SelectorShows
  <2> QED BY <2>6, <2>7, <2>8 DEF SelectorGood
<1>5. PICK raced \in BOOLEAN : raced = Selector!Raced
  BY Zenon DEF Selector!Raced
<1>6. raced <=> ui.raced \/ ui.http["list"] # None \/ ui.http["late list"] # None
  BY <1>5 DEF Selector!Raced
<1>7. ASSUME Selector!SaveAnswer
      PROVE  SelectorGood'
  <2>0. PICK row : row = ui.http["save"].row
    OBVIOUS
  <2>1. PICK a : a = (IF ui.http["save"].of = "new" THEN First(row, ui.ledgers) ELSE Selector!Replace(ui.ledgers, row))
    OBVIOUS
  <2>2. ui' = [ui EXCEPT !.ledgers = a, !.http["save"] = None, !.saving = FALSE, !.editor = None,
                         !.selected = row.id, !.raced = raced]
    BY <1>5, <1>7, <2>0, <2>1 DEF Selector!SaveAnswer, Selector!Become, Selector!Q, First
  <2>3. UNCHANGED server /\ ui.http["save"] # None /\ ui.http["save"].at = "answered"
    BY <1>7 DEF Selector!SaveAnswer, Selector!Become, Selector!Answered
  <2>4. /\ ui'.http = [ui.http EXCEPT !["save"] = None]
        /\ (ui'.here <=> ui.here) /\ ui'.ledgers = a /\ (ui'.loading <=> ui.loading) /\ (ui'.loadError <=> ui.loadError)
        /\ ~ ui'.saving /\ (ui'.deletingBusy <=> ui.deletingBusy) /\ (ui'.lost <=> ui.lost)
        /\ (ui'.raced <=> raced) /\ ui'.editor = None /\ ui'.deleting = ui.deleting
    BY <1>1, <2>2 DEF Selector!Pages
  <2>5. ui'.http["save"] = None /\ \A j \in Selector!Slots \ {"save"} : ui'.http[j] = ui.http[j]
    BY <1>1, <2>4 DEF Selector!Slots
  <2>6. Selector!BusyIsPending' /\ SelectorWaits'
    BY <1>1, <1>6, <2>3, <2>4, <2>5 DEF Selector!BusyIsPending, SelectorWaits, Selector!Slots
  <2>7. SelectorForms'
    BY <1>1, <2>3, <2>5 DEF SelectorForms, Selector!Slots
  <2>8. row \in Selector!Rows
    <3>1. ui.http["save"] \in Selector!Asked /\ row # None
      BY <1>1, <2>0, <2>3 DEF SelectorForms, Selector!Pages, Selector!Slots
    <3> QED BY <2>0, <3>1 DEF Selector!Asked
  <2>9. ASSUME ui'.here /\ ~ ui'.raced
        PROVE  /\ ui'.http["list"] = None /\ ui'.http["delete"] = None
               /\ ~ ui'.loadError /\ ~ ui'.lost => EachOnce(a) /\ OnePerId(Elements(a)) /\ server' = Elements(a)
    <3>1. ui.here /\ ~ ui.raced /\ ui.http["list"] = None
      BY <1>6, <2>4, <2>9
    <3>2. ui.http["delete"] = None
      BY <1>1, <2>3, <3>1 DEF SelectorWaits
    <3>3. ASSUME ~ ui'.loadError /\ ~ ui'.lost
          PROVE  EachOnce(a) /\ OnePerId(Elements(a)) /\ server' = Elements(a)
      <4>1. /\ EachOnce(ui.ledgers) /\ OnePerId(Elements(ui.ledgers))
            /\ server = Unlike(Elements(ui.ledgers), row.id) \cup {row} /\ OnePerId(server)
            /\ IF ui.http["save"].of = "new" THEN \A r \in Elements(ui.ledgers) : r.id # row.id
               ELSE \E r \in Elements(ui.ledgers) : r.id = row.id
        BY <1>1, <2>0, <2>3, <2>4, <3>1, <3>3 DEF SelectorShows, SelectorForms
      <4>2. CASE ui.http["save"].of = "new"
        <5>1. a = First(row, ui.ledgers) /\ row \notin Elements(ui.ledgers)
          BY <2>1, <4>1, <4>2
        <5>2. Elements(a) = Elements(ui.ledgers) \cup {row} /\ EachOnce(a)
          BY <1>2, <2>8, <4>1, <5>1, Prepended
        <5>3. Unlike(Elements(ui.ledgers), row.id) = Elements(ui.ledgers)
          BY <4>1, <4>2 DEF Unlike
        <5> QED BY <2>3, <4>1, <5>2, <5>3
      <4>3. CASE ui.http["save"].of # "new"
        <5>1. a = Selector!Replace(ui.ledgers, row)
          BY <2>1, <4>3
        <5>2. Elements(a) = Unlike(Elements(ui.ledgers), row.id) \cup {row} /\ EachOnce(a)
          BY <1>2, <2>8, <4>1, <4>3, <5>1, SelectorReplaced, Zenon
        <5> QED BY <2>3, <4>1, <5>2
      <4> QED BY <4>2, <4>3
    <3> QED BY <2>5, <3>1, <3>2, <3>3, Zenon DEF Selector!Slots
  <2>10. SelectorShows'
    BY <2>4, <2>5, <2>9 DEF SelectorShows
  <2> QED BY <2>6, <2>7, <2>10 DEF SelectorGood
<1>8. ASSUME Selector!DeleteAnswer
      PROVE  SelectorGood'
  <2>0. PICK of, kept : of = ui.http["delete"].of /\ kept = {r \in Selector!Rows : r.id # of}
    OBVIOUS
  <2>1. PICK a : a = Filter(ui.ledgers, kept)
    OBVIOUS
  <2>2. PICK u : u = [ui EXCEPT !.http["delete"] = None, !.ledgers = a, !.raced = raced]
    OBVIOUS
  <2>3. UNCHANGED server /\ ui.http["delete"] # None /\ ui.http["delete"].at = "answered"
    BY <1>8 DEF Selector!DeleteAnswer, Selector!Become, Selector!Answered
  <2>4. /\ u.http = [ui.http EXCEPT !["delete"] = None] /\ DOMAIN u = DOMAIN ui
        /\ (u.here <=> ui.here) /\ u.ledgers = a /\ (u.loading <=> ui.loading) /\ (u.loadError <=> ui.loadError)
        /\ (u.saving <=> ui.saving) /\ (u.deletingBusy <=> ui.deletingBusy) /\ (u.lost <=> ui.lost)
        /\ (u.raced <=> raced) /\ u.editor = ui.editor /\ u.deleting = ui.deleting
    BY <1>1, <2>2 DEF Selector!Pages
  <2>5. /\ ui'.http = [ui.http EXCEPT !["delete"] = None]
        /\ (ui'.here <=> ui.here) /\ ui'.ledgers = a /\ (ui'.loading <=> ui.loading) /\ (ui'.loadError <=> ui.loadError)
        /\ (ui'.saving <=> ui.saving) /\ ~ ui'.deletingBusy /\ (ui'.lost <=> ui.lost)
        /\ (ui'.raced <=> raced) /\ ui'.editor = ui.editor /\ (ui'.deleting = ui.deleting \/ ui'.deleting = None)
    <3>1. CASE ui.deletingBusy
      <4>1. PICK s : ui' = [u EXCEPT !.deletingBusy = FALSE, !.deleting = None, !.selected = s]
        BY <1>5, <1>8, <2>0, <2>1, <2>2, <3>1, SelectorFilter, Zenon DEF Selector!DeleteAnswer, Selector!Become, Selector!Q
      <4>2. DOMAIN u = DOMAIN ui /\ "deletingBusy" \in DOMAIN ui /\ "deleting" \in DOMAIN ui
        BY <1>1, <2>4 DEF Selector!Pages
      <4> QED BY <2>4, <4>1, <4>2
    <3>2. CASE ~ ui.deletingBusy
      <4>1. ui' = u
        BY <1>5, <1>8, <2>0, <2>1, <2>2, <3>2, SelectorFilter, Zenon DEF Selector!DeleteAnswer, Selector!Become, Selector!Q
      <4> QED BY <2>4, <3>2, <4>1
    <3> QED BY <3>1, <3>2
  <2>6. ui'.http["delete"] = None /\ \A j \in Selector!Slots \ {"delete"} : ui'.http[j] = ui.http[j]
    BY <1>1, <2>5 DEF Selector!Slots
  <2>7. Selector!BusyIsPending' /\ SelectorWaits'
    BY <1>1, <1>6, <2>3, <2>5, <2>6 DEF Selector!BusyIsPending, SelectorWaits, Selector!Slots
  <2>8. SelectorForms'
    BY <1>1, <2>3, <2>6 DEF SelectorForms, Selector!Slots
  <2>9. ASSUME ui'.here /\ ~ ui'.raced
        PROVE  /\ ui'.http["list"] = None /\ ui'.http["save"] = None
               /\ ~ ui'.loadError /\ ~ ui'.lost => EachOnce(a) /\ OnePerId(Elements(a)) /\ server' = Elements(a)
    <3>1. ui.here /\ ~ ui.raced /\ ui.http["list"] = None
      BY <1>6, <2>5, <2>9
    <3>2. ui.http["save"] = None
      BY <1>1, <2>3, <3>1 DEF SelectorWaits
    <3>3. ASSUME ~ ui'.loadError /\ ~ ui'.lost
          PROVE  EachOnce(a) /\ OnePerId(Elements(a)) /\ server' = Elements(a)
      <4>1. EachOnce(ui.ledgers) /\ server = Unlike(Elements(ui.ledgers), of) /\ OnePerId(server)
        BY <1>1, <2>0, <2>3, <2>5, <3>1, <3>3 DEF SelectorShows, SelectorForms
      <4>2. Elements(a) = Elements(ui.ledgers) \cap kept /\ EachOnce(a)
        BY <1>2, <2>1, <4>1, FilterKeeps
      <4>3. Elements(a) = Unlike(Elements(ui.ledgers), of)
        BY <1>2, <2>0, <4>2 DEF Unlike
      <4> QED BY <2>3, <4>1, <4>2, <4>3
    <3> QED BY <2>6, <3>1, <3>2, <3>3 DEF Selector!Slots
  <2>10. SelectorShows'
    BY <2>5, <2>6, <2>9 DEF SelectorShows
  <2> QED BY <2>7, <2>8, <2>10 DEF SelectorGood
<1> QED BY <1>3, <1>4, <1>7, <1>8

LEMMA SelectorNext ==
  ASSUME SelectorInv, Selector!Next
  PROVE  SelectorInv'
<1>1. SelectorGood'
  BY SelectorUsed, SelectorSentOn, SelectorFailed, SelectorServed, SelectorAnswered DEF Selector!Next
<1> QED BY <1>1, SelectorTypes DEF SelectorInv

LEMMA SelectorHolds == SelectorInv => Selector!TypeOK /\ Selector!BusyIsPending /\ Selector!SettledIsServers
<1> SUFFICES ASSUME SelectorInv
             PROVE  Selector!SettledIsServers
  BY DEF SelectorInv, SelectorGood
<1> QED BY DEF SelectorInv, SelectorGood, SelectorShows, Selector!SettledIsServers, Selector!Slots, Selector!Range, Selector!IsInjective, Elements, EachOnce

--------------------------------------------------------------------------------
(* The page before a session *)

\* The registry: what can be used once.
LandingUsed ==
  /\ Landing!UsedOnce
  /\ \A n \in 1..MaxCounter : n > server.counter => server.checked[n] = 0

\* The card w of kind k, its exchange q and the registry s: the card waits for
\* the exchange, its code is the one that was sent and was given out, and what
\* the card says, or is about to say, of it is so.
LandingOf(k, w, q, s) ==
  /\ w.loading <=> q # None
  /\ k # "login" /\ w.code # None /\ q # None => w.code = q.form.code
  /\ q # None /\ q.at = "answered" => q.told # None
  /\ k = "registration" =>
       /\ w.code \in Invitations \cup {None}
       /\ w.code # None /\ w.says = "rejected" => s.invitation[w.code] # "active"
       /\ q # None /\ q.at = "answered" /\ q.told = "rejected" => s.invitation[q.form.code] # "active"
  /\ k = "recovery" =>
       /\ w.code \in RecoveryCodes \cup {None}
       /\ w.code # None => s.recovery[w.code] # "none"
       /\ w.code # None /\ w.says = "rejected" => s.recovery[w.code] # "active"
       /\ w.code # None /\ w.says = "ok" => s.recovery[w.code] = "used"
       /\ q # None => s.recovery[q.form.code] # "none"
       /\ q # None /\ q.at = "answered" /\ q.told = "rejected" => s.recovery[q.form.code] # "active"
       /\ q # None /\ q.at = "answered" /\ q.told = "ok" => s.recovery[q.form.code] = "used"

LandingGood ==
  /\ LandingUsed
  /\ \A k \in Landing!Cards : LandingOf(k, ui.card[k], ui.http["page"][k], server)
  /\ ui.http["page"]["recovery"] # None => ui.open
LandingInv == Landing!TypeOK /\ LandingGood

LandingPage(u) == u \in Landing!Pages /\ \A c \in Landing!Clients, k \in Landing!Cards : u.http[c][k] \in Landing!Asked(k) \cup {None}
LandingServers ==
  [password: Passwords, totp: BOOLEAN, counter: 0..MaxCounter, members: SUBSET Names,
   invitation: [Invitations -> {"active", "used", "revoked"}],
   recovery: [RecoveryCodes -> {"none", "active", "used", "replaced"}],
   admitted: [Invitations -> Nat], reset: [RecoveryCodes -> Nat], checked: [1..MaxCounter -> Nat]]

LEMMA LandingTyped == Landing!TypeOK <=> LandingPage(ui) /\ server \in LandingServers
BY DEF Landing!TypeOK, LandingPage, LandingServers

\* One exchange, or one card, is another; v is the page u but for it.
LandingPuts(u, v, c, k, q) ==
  /\ LandingPage(v) /\ v.card = u.card /\ (v.open <=> u.open)
  /\ v.http[c][k] = q
  /\ \A d \in Landing!Clients, j \in Landing!Cards : d # c \/ j # k => v.http[d][j] = u.http[d][j]
LandingCards(u, v, k, w) ==
  /\ LandingPage(v) /\ v.http = u.http /\ (v.open <=> u.open)
  /\ v.card[k] = w /\ \A j \in Landing!Cards \ {k} : v.card[j] = u.card[j]

LEMMA LandingPut ==
  ASSUME NEW u, LandingPage(u), NEW c \in Landing!Clients, NEW k \in Landing!Cards, NEW q \in Landing!Asked(k) \cup {None}
  PROVE  LandingPuts(u, [u EXCEPT !.http[c][k] = q], c, k, q)
<1>1. PICK h : h = [u.http EXCEPT ![c] = [u.http[c] EXCEPT ![k] = q]]
  OBVIOUS
<1>2. u \in Landing!Pages /\ u.http \in [Landing!Clients -> [Landing!Cards -> Landing!Exchanges]]
  BY DEF LandingPage, Landing!Pages
<1>7. q \in Landing!Exchanges
  BY DEF Landing!Exchanges
<1>3. PICK v : v = [u EXCEPT !.http = h]
  OBVIOUS
<1>4. h \in [Landing!Clients -> [Landing!Cards -> Landing!Exchanges]]
  BY <1>1, <1>2, <1>7
<1>5. /\ h[c][k] = q
      /\ \A d \in Landing!Clients, j \in Landing!Cards : d # c \/ j # k => h[d][j] = u.http[d][j]
  BY <1>1, <1>2
<1>6. v \in Landing!Pages /\ v.http = h /\ v.card = u.card /\ (v.open <=> u.open)
  BY <1>2, <1>3, <1>4, Zenon DEF Landing!Pages
<1>8. ASSUME NEW d \in Landing!Clients, NEW j \in Landing!Cards
      PROVE  v.http[d][j] \in Landing!Asked(j) \cup {None}
  <2>1. CASE d = c /\ j = k
    BY <1>5, <1>6, <2>1
  <2>2. CASE d # c \/ j # k
    BY <1>5, <1>6, <2>2 DEF LandingPage
  <2> QED BY <2>1, <2>2
<1>9. LandingPage(v)
  BY <1>6, <1>8 DEF LandingPage
<1>10. /\ v.http[c][k] = q
       /\ \A d \in Landing!Clients, j \in Landing!Cards : d # c \/ j # k => v.http[d][j] = u.http[d][j]
  BY <1>5, <1>6
<1>11. v = [u EXCEPT !.http[c][k] = q]
  BY <1>1, <1>3
<1>12. LandingPuts(u, v, c, k, q)
  BY <1>6, <1>9, <1>10 DEF LandingPuts
<1> QED BY <1>11, <1>12

LEMMA LandingSet ==
  ASSUME NEW u, LandingPage(u), NEW k \in Landing!Cards, NEW w \in Landing!CardPages, NEW v, v = [u EXCEPT !.card[k] = w]
  PROVE  LandingCards(u, v, k, w)
<1>1. u \in Landing!Pages
  BY DEF LandingPage
<1>2. v \in Landing!Pages /\ v.http = u.http /\ (v.open <=> u.open) /\ v.card = [u.card EXCEPT ![k] = w]
  BY <1>1, Zenon DEF Landing!Pages
<1>3. v.card[k] = w /\ \A j \in Landing!Cards \ {k} : v.card[j] = u.card[j]
  BY <1>1, <1>2 DEF Landing!Pages
<1> QED BY <1>2, <1>3 DEF LandingCards, LandingPage

LEMMA LandingNew == Landing!NewCard \in Landing!CardPages
BY DEF Landing!NewCard, Landing!CardPages

LEMMA LandingSent ==
  ASSUME NEW k \in Landing!Cards, NEW form \in Landing!Forms(k), NEW q, q = Landing!Sent(form)
  PROVE  q \in Landing!Asked(k) /\ q # None /\ q.at = "sent" /\ q.form = form
<1>1. q \in Landing!Asked(k) /\ q.at = "sent" /\ q.form = form
  BY DEF Landing!Sent, Landing!Asked
<1> QED BY <1>1, NoneAssumption

LEMMA LandingInit == Landing!Init => LandingInv
<1> SUFFICES ASSUME Landing!Init
             PROVE  LandingInv
  OBVIOUS
<1>1. PICK uses \in CardSets :
        ui = [card |-> [k \in Landing!Cards |-> Landing!NewCard], open |-> FALSE, requests |-> 0, uses |-> uses,
              http |-> [c \in Landing!Clients |-> [k \in Landing!Cards |-> None]]]
  BY Zenon DEF Landing!Init
<1>2. /\ ui.card = [k \in Landing!Cards |-> Landing!NewCard] /\ ~ ui.open /\ ui.requests = 0 /\ ui.uses = uses
      /\ ui.http = [c \in Landing!Clients |-> [k \in Landing!Cards |-> None]]
  BY <1>1
<1>3. ui \in Landing!Pages
  <2>1. PICK card \in [Landing!Cards -> Landing!CardPages] : card = [k \in Landing!Cards |-> Landing!NewCard]
    BY LandingNew, Zenon
  <2>2. PICK http \in [Landing!Clients -> [Landing!Cards -> Landing!Exchanges]] :
          http = [c \in Landing!Clients |-> [k \in Landing!Cards |-> None]]
    BY Zenon DEF Landing!Exchanges
  <2>3. ui = [card |-> card, open |-> FALSE, requests |-> 0, uses |-> uses, http |-> http]
    BY <1>1, <2>1, <2>2
  <2> QED BY <2>3, LandingAssumption DEF Landing!Pages
<1>4. \A c \in Landing!Clients, k \in Landing!Cards : ui.http[c][k] = None
  BY <1>2
<1>5. \A k \in Landing!Cards : ui.card[k].code = None /\ ~ ui.card[k].loading /\ ui.card[k].says = None
  BY <1>2 DEF Landing!NewCard
<1>6. LandingPage(ui)
  BY <1>3, <1>4 DEF LandingPage
<1>7. PICK t \in BOOLEAN, p \in Passwords :
        server = [password |-> p, totp |-> t, counter |-> 0, members |-> {},
                  invitation |-> [i \in Invitations |-> "active"], recovery |-> [r \in RecoveryCodes |-> "none"],
                  admitted |-> [i \in Invitations |-> 0], reset |-> [r \in RecoveryCodes |-> 0],
                  checked |-> [n \in 1..MaxCounter |-> 0]]
  BY Zenon DEF Landing!Init
<1>8. server \in LandingServers
  BY <1>7, LandingAssumption DEF LandingServers
<1>9. LandingUsed
  BY <1>7, LandingAssumption DEF LandingUsed, Landing!UsedOnce
<1>10. ASSUME NEW k \in Landing!Cards
       PROVE  LandingOf(k, ui.card[k], ui.http["page"][k], server)
  BY <1>4, <1>5 DEF LandingOf, Landing!Clients
<1>11. ui.http["page"]["recovery"] = None
  BY <1>4 DEF Landing!Clients, Landing!Cards
<1> QED BY <1>6, <1>8, <1>9, <1>10, <1>11, LandingTyped DEF LandingInv, LandingGood

\* The registry goes one way.
LandingMoves ==
  /\ \A i \in Invitations : server.invitation[i] # "active" => server'.invitation[i] # "active"
  /\ \A r \in RecoveryCodes :
       /\ server.recovery[r] # "none" => server'.recovery[r] # "none"
       /\ server.recovery[r] \notin {"none", "active"} => server'.recovery[r] # "active"
       /\ server.recovery[r] = "used" => server'.recovery[r] = "used"

LEMMA LandingChecked ==
  ASSUME server \in LandingServers, LandingUsed, NEW form, form.totp \in Landing!Totp, Landing!TotpRefused(form) = None,
         NEW s, s = Landing!Checked(form)
  PROVE  /\ s \in LandingServers /\ s.password = server.password /\ s.members = server.members
         /\ s.invitation = server.invitation /\ s.recovery = server.recovery
         /\ s.admitted = server.admitted /\ s.reset = server.reset
         /\ \A n \in 1..MaxCounter : s.checked[n] <= 1 /\ (n > s.counter => s.checked[n] = 0)
<1>1. CASE ~ server.totp
  BY <1>1 DEF Landing!Checked, LandingUsed, Landing!UsedOnce
<1>2. CASE server.totp
  <2>1. form.totp # None /\ form.totp > server.counter
    BY <1>2, NoneAssumption DEF Landing!TotpRefused, Landing!Told
  <2>2. form.totp \in 1..MaxCounter
    BY <2>1 DEF Landing!Totp
  <2>3. PICK n \in 1..MaxCounter : n = form.totp /\ n > server.counter
    BY <2>1, <2>2
  <2>4. server.checked[n] = 0
    BY <2>3 DEF LandingUsed
  <2>5. s = [server EXCEPT !.counter = n, !.checked[n] = @ + 1]
    BY <1>2, <2>3 DEF Landing!Checked
  <2>6. PICK checked : checked = [server.checked EXCEPT ![n] = 1]
    OBVIOUS
  <2>7. checked \in [1..MaxCounter -> Nat] /\ server.counter \in 0..MaxCounter /\ n \in 0..MaxCounter
    BY <2>6, LandingAssumption DEF LandingServers
  <2>8. s = [server EXCEPT !.counter = n, !.checked = checked]
    BY <2>4, <2>5, <2>6 DEF LandingServers
  <2>9. s \in LandingServers /\ s.counter = n /\ s.checked = checked
        /\ s.password = server.password /\ s.members = server.members
        /\ s.invitation = server.invitation /\ s.recovery = server.recovery
        /\ s.admitted = server.admitted /\ s.reset = server.reset
    BY <2>7, <2>8, Zenon DEF LandingServers
  <2>10. ASSUME NEW m \in 1..MaxCounter
         PROVE  checked[m] <= 1 /\ (m > n => checked[m] = 0)
    <3>1. checked[m] = IF m = n THEN 1 ELSE server.checked[m]
      BY <2>6, Zenon DEF LandingServers
    <3>2. server.checked[m] <= 1 /\ (m > server.counter => server.checked[m] = 0)
      BY DEF LandingUsed, Landing!UsedOnce
    <3>3. m > n => m > server.counter
      BY <2>3, <2>7, LandingAssumption
    <3> QED BY <3>1, <3>2, <3>3
  <2> QED BY <2>9, <2>10
<1> QED BY <1>1, <1>2 DEF LandingServers

\* An invitation is taken; a recovery code is.
LandingTakes(s, t, i) ==
  /\ t \in LandingServers /\ t.recovery = s.recovery /\ t.reset = s.reset /\ t.checked = s.checked /\ t.counter = s.counter
  /\ t.invitation[i] = "used" /\ t.admitted[i] = s.admitted[i] + 1
  /\ \A j \in Invitations \ {i} : t.invitation[j] = s.invitation[j] /\ t.admitted[j] = s.admitted[j]
LandingResets(s, t, r) ==
  /\ t \in LandingServers /\ t.invitation = s.invitation /\ t.admitted = s.admitted
  /\ t.checked = s.checked /\ t.counter = s.counter
  /\ t.recovery[r] = "used" /\ t.reset[r] = s.reset[r] + 1
  /\ \A x \in RecoveryCodes \ {r} : t.recovery[x] = s.recovery[x] /\ t.reset[x] = s.reset[x]

LEMMA LandingTaken ==
  ASSUME NEW s \in LandingServers, NEW i \in Invitations, NEW m \in Names, NEW t,
         t = [s EXCEPT !.invitation[i] = "used", !.admitted[i] = @ + 1, !.members = @ \cup {m}]
  PROVE  LandingTakes(s, t, i)
<1>1. PICK f : f = [s.invitation EXCEPT ![i] = "used"]
  OBVIOUS
<1>2. PICK g : g = [s.admitted EXCEPT ![i] = s.admitted[i] + 1]
  OBVIOUS
<1>3. PICK n : n = s.members \cup {m}
  OBVIOUS
<1>4. /\ s.invitation \in [Invitations -> {"active", "used", "revoked"}] /\ s.admitted \in [Invitations -> Nat]
      /\ s.members \subseteq Names
  BY DEF LandingServers
<1>5. /\ f \in [Invitations -> {"active", "used", "revoked"}] /\ f[i] = "used"
      /\ \A j \in Invitations \ {i} : f[j] = s.invitation[j]
  BY <1>1, <1>4
<1>6. /\ g \in [Invitations -> Nat] /\ g[i] = s.admitted[i] + 1 /\ \A j \in Invitations \ {i} : g[j] = s.admitted[j]
  BY <1>2, <1>4
<1>7. t = [s EXCEPT !.invitation = f, !.admitted = g, !.members = n]
  BY <1>1, <1>2, <1>3 DEF LandingServers
<1>8. n \subseteq Names
  BY <1>3, <1>4
<1>9. t \in LandingServers /\ t.invitation = f /\ t.admitted = g
      /\ t.recovery = s.recovery /\ t.reset = s.reset /\ t.checked = s.checked /\ t.counter = s.counter
  BY <1>5, <1>6, <1>7, <1>8, ZenonT(40) DEF LandingServers
<1> QED BY <1>5, <1>6, <1>9 DEF LandingTakes

LEMMA LandingReset ==
  ASSUME NEW s \in LandingServers, NEW r \in RecoveryCodes, NEW p \in Passwords, NEW t,
         t = [s EXCEPT !.recovery[r] = "used", !.reset[r] = @ + 1, !.password = p]
  PROVE  LandingResets(s, t, r)
<1>1. PICK f : f = [s.recovery EXCEPT ![r] = "used"]
  OBVIOUS
<1>2. PICK g : g = [s.reset EXCEPT ![r] = s.reset[r] + 1]
  OBVIOUS
<1>4. s.recovery \in [RecoveryCodes -> {"none", "active", "used", "replaced"}] /\ s.reset \in [RecoveryCodes -> Nat]
  BY DEF LandingServers
<1>5. /\ f \in [RecoveryCodes -> {"none", "active", "used", "replaced"}] /\ f[r] = "used"
      /\ \A x \in RecoveryCodes \ {r} : f[x] = s.recovery[x]
  BY <1>1, <1>4
<1>6. /\ g \in [RecoveryCodes -> Nat] /\ g[r] = s.reset[r] + 1 /\ \A x \in RecoveryCodes \ {r} : g[x] = s.reset[x]
  BY <1>2, <1>4
<1>7. t = [s EXCEPT !.recovery = f, !.reset = g, !.password = p]
  BY <1>1, <1>2 DEF LandingServers
<1>9. t \in LandingServers /\ t.recovery = f /\ t.reset = g
      /\ t.invitation = s.invitation /\ t.admitted = s.admitted /\ t.checked = s.checked /\ t.counter = s.counter
  BY <1>5, <1>6, <1>7, ZenonT(40) DEF LandingServers
<1> QED BY <1>5, <1>6, <1>9 DEF LandingResets

\* LandingUsed' from what is admitted, reset and checked now.
LEMMA LandingStillUsed ==
  ASSUME server \in LandingServers, server' \in LandingServers, LandingUsed,
         \/ server'.admitted = server.admitted /\ server'.invitation = server.invitation
         \/ \E i \in Invitations :
              /\ server.invitation[i] = "active" /\ server'.invitation[i] = "used" /\ server'.admitted[i] = server.admitted[i] + 1
              /\ \A j \in Invitations \ {i} :
                   server'.invitation[j] = server.invitation[j] /\ server'.admitted[j] = server.admitted[j],
         \/ server'.reset = server.reset /\ server'.recovery = server.recovery
         \/ \E r \in RecoveryCodes :
              /\ server.recovery[r] = "active" /\ server'.recovery[r] = "used" /\ server'.reset[r] = server.reset[r] + 1
              /\ \A x \in RecoveryCodes \ {r} :
                   server'.recovery[x] = server.recovery[x] /\ server'.reset[x] = server.reset[x],
         \A n \in 1..MaxCounter : server'.checked[n] <= 1 /\ (n > server'.counter => server'.checked[n] = 0)
  PROVE  LandingUsed'
<1>1. /\ \A i \in Invitations : server.admitted[i] = IF server.invitation[i] = "used" THEN 1 ELSE 0
      /\ \A r \in RecoveryCodes : server.reset[r] = IF server.recovery[r] = "used" THEN 1 ELSE 0
  BY DEF LandingUsed, Landing!UsedOnce
<1>2. \A i \in Invitations : server'.admitted[i] = IF server'.invitation[i] = "used" THEN 1 ELSE 0
  <2> TAKE j \in Invitations
  <2>1. CASE server'.admitted = server.admitted /\ server'.invitation = server.invitation
    BY <1>1, <2>1
  <2>2. ASSUME NEW i \in Invitations, server.invitation[i] = "active", server'.invitation[i] = "used",
               server'.admitted[i] = server.admitted[i] + 1,
               \A x \in Invitations \ {i} : server'.invitation[x] = server.invitation[x] /\ server'.admitted[x] = server.admitted[x]
        PROVE  server'.admitted[j] = IF server'.invitation[j] = "used" THEN 1 ELSE 0
    <3>1. CASE j = i
      BY <1>1, <2>2, <3>1
    <3>2. CASE j # i
      BY <1>1, <2>2, <3>2
    <3> QED BY <3>1, <3>2
  <2> QED BY <2>1, <2>2
<1>3. \A r \in RecoveryCodes : server'.reset[r] = IF server'.recovery[r] = "used" THEN 1 ELSE 0
  <2> TAKE j \in RecoveryCodes
  <2>1. CASE server'.reset = server.reset /\ server'.recovery = server.recovery
    BY <1>1, <2>1
  <2>2. ASSUME NEW i \in RecoveryCodes, server.recovery[i] = "active", server'.recovery[i] = "used",
               server'.reset[i] = server.reset[i] + 1,
               \A x \in RecoveryCodes \ {i} : server'.recovery[x] = server.recovery[x] /\ server'.reset[x] = server.reset[x]
        PROVE  server'.reset[j] = IF server'.recovery[j] = "used" THEN 1 ELSE 0
    <3>1. CASE j = i
      BY <1>1, <2>2, <3>1
    <3>2. CASE j # i
      BY <1>1, <2>2, <3>2
    <3> QED BY <3>1, <3>2
  <2> QED BY <2>1, <2>2
<1> QED BY <1>2, <1>3 DEF LandingUsed, Landing!UsedOnce

LEMMA LandingPair ==
  ASSUME NEW a, NEW b, NEW p, p = <<a, b>>
  PROVE  p[1] = a /\ p[2] = b
OBVIOUS

\* What the three use cases write.
LEMMA LandingWrites ==
  ASSUME server \in LandingServers, LandingUsed, NEW k \in Landing!Cards, NEW form \in Landing!Forms(k), NEW seen,
         NEW done, server' = done[2],
         k = "login" => done = Landing!Login(form),
         k = "registration" => done = Landing!Register(form),
         k = "recovery" => done = Landing!Recover(form, seen)
  PROVE  /\ done[1] \in Landing!Told /\ server' \in LandingServers /\ LandingUsed' /\ LandingMoves
         /\ k = "registration" /\ done[1] = "rejected" => server'.invitation[form.code] # "active"
         /\ k = "recovery" /\ done[1] = "rejected" => server'.recovery[form.code] # "active"
         /\ k = "recovery" /\ done[1] = "ok" => server'.recovery[form.code] = "used"
<1>1. Landing!TotpRefused(form) \in {None, "totp", "error"}
  BY DEF Landing!TotpRefused
<1>3. ASSUME server' = server
      PROVE  server' \in LandingServers /\ LandingUsed' /\ LandingMoves
  BY <1>3 DEF LandingUsed, Landing!UsedOnce, LandingMoves
<1>4. CASE k = "login"
  <2>1. form.totp \in Landing!Totp /\ done = Landing!Login(form)
    BY <1>4 DEF Landing!Forms
  <2>2. CASE Landing!TotpRefused(form) # None
    <3>0. PICK told \in {"totp", "error"} : told = Landing!TotpRefused(form)
      BY <1>1, <2>2
    <3>1. done = <<told, server>>
      BY <2>1, <2>2, <3>0 DEF Landing!Login
    <3>2. done[1] \in {"totp", "error"} /\ server' = server
      BY <3>1, LandingPair
    <3> QED BY <1>3, <1>4, <3>2 DEF Landing!Told
  <2>3. CASE Landing!TotpRefused(form) = None
    <3>3. PICK s : s = Landing!Checked(form)
      OBVIOUS
    <3>4. done = <<"ok", s>>
      BY <2>1, <2>3, <3>3 DEF Landing!Login
    <3>1. done[1] = "ok" /\ server' = s
      BY <3>4, LandingPair
    <3>2. /\ server' \in LandingServers
          /\ server'.invitation = server.invitation /\ server'.recovery = server.recovery
          /\ server'.admitted = server.admitted /\ server'.reset = server.reset
          /\ \A n \in 1..MaxCounter : server'.checked[n] <= 1 /\ (n > server'.counter => server'.checked[n] = 0)
      BY <2>1, <2>3, <3>1, <3>3, LandingChecked
    <3> QED BY <1>4, <3>1, <3>2 DEF LandingUsed, Landing!UsedOnce, LandingMoves, Landing!Told
  <2> QED BY <2>2, <2>3
<1>5. CASE k = "registration"
  <2>1. form.code \in Invitations /\ form.name \in Names /\ done = Landing!Register(form)
    BY <1>5 DEF Landing!Forms
  <2>2. CASE server.invitation[form.code] # "active"
    <3>1. done = <<"rejected", server>>
      BY <2>1, <2>2 DEF Landing!Register
    <3> QED BY <1>3, <1>5, <2>2, <3>1 DEF Landing!Told
  <2>3. CASE server.invitation[form.code] = "active" /\ form.name \in server.members
    <3>1. done = <<"error", server>>
      BY <2>1, <2>3 DEF Landing!Register
    <3> QED BY <1>3, <1>5, <3>1 DEF Landing!Told
  <2>4. CASE server.invitation[form.code] = "active" /\ form.name \notin server.members
    <3>1. PICK i \in Invitations, m \in Names : i = form.code /\ m = form.name
      BY <2>1
    <3>2. PICK s : s = [server EXCEPT !.invitation[i] = "used", !.admitted[i] = @ + 1, !.members = @ \cup {m}]
      OBVIOUS
    <3>10. done = <<"ok", s>>
      BY <2>1, <2>4, <3>1, <3>2 DEF Landing!Register
    <3>3. done[1] = "ok" /\ server' = s
      BY <3>10, LandingPair
    <3>4. LandingTakes(server, s, i)
      BY <3>2, LandingTaken, Zenon
    <3>5. server.invitation[i] = "active"
      BY <2>4, <3>1
    <3>8. \A n \in 1..MaxCounter : server.checked[n] <= 1 /\ (n > server.counter => server.checked[n] = 0)
      BY DEF LandingUsed, Landing!UsedOnce
    <3>6. LandingUsed'
      BY <3>3, <3>4, <3>5, <3>8, LandingStillUsed DEF LandingTakes
    <3>7. LandingMoves
      BY <3>3, <3>4, <3>5 DEF LandingTakes, LandingMoves
    <3> QED BY <1>5, <3>3, <3>4, <3>6, <3>7 DEF LandingTakes, Landing!Told
  <2> QED BY <2>2, <2>3, <2>4
<1>6. CASE k = "recovery"
  <2>1. form.code \in RecoveryCodes /\ form.password \in Passwords /\ form.totp \in Landing!Totp /\ done = Landing!Recover(form, seen)
    BY <1>6 DEF Landing!Forms
  <2>2. CASE Landing!TotpRefused(form) # None
    <3>0. PICK told \in {"totp", "error"} : told = Landing!TotpRefused(form)
      BY <1>1, <2>2
    <3>1. done = <<told, server>>
      BY <2>1, <2>2, <3>0 DEF Landing!Recover
    <3>2. done[1] \in {"totp", "error"} /\ server' = server
      BY <3>1, LandingPair
    <3>3. done[1] \notin {"ok", "rejected"}
      BY <3>2
    <3> QED BY <1>3, <1>6, <3>2, <3>3 DEF Landing!Told
  <2>3. CASE Landing!TotpRefused(form) = None /\ server.recovery[form.code] # "active"
    <3>1. done = <<"rejected", server>>
      BY <2>1, <2>3 DEF Landing!Recover
    <3> QED BY <1>3, <1>6, <2>3, <3>1 DEF Landing!Told
  <2>4. CASE Landing!TotpRefused(form) = None /\ server.recovery[form.code] = "active" /\ server.password # seen
    <3>1. done = <<"error", server>>
      BY <2>1, <2>4 DEF Landing!Recover
    <3> QED BY <1>3, <1>6, <3>1 DEF Landing!Told
  <2>5. CASE Landing!TotpRefused(form) = None /\ server.recovery[form.code] = "active" /\ server.password = seen
    <3>1. PICK r \in RecoveryCodes, p \in Passwords : r = form.code /\ p = form.password
      BY <2>1
    <3>2. PICK s : s = Landing!Checked(form)
      OBVIOUS
    <3>3. PICK x : x = [s EXCEPT !.recovery[r] = "used", !.reset[r] = @ + 1, !.password = p]
      OBVIOUS
    <3>11. done = <<"ok", x>>
      BY <2>1, <2>5, <3>1, <3>2, <3>3 DEF Landing!Recover
    <3>4. done[1] = "ok" /\ server' = x
      BY <3>11, LandingPair
    <3>5. /\ s \in LandingServers
          /\ s.invitation = server.invitation /\ s.recovery = server.recovery
          /\ s.admitted = server.admitted /\ s.reset = server.reset
          /\ \A n \in 1..MaxCounter : s.checked[n] <= 1 /\ (n > s.counter => s.checked[n] = 0)
      BY <2>1, <2>5, <3>2, LandingChecked
    <3>6. LandingResets(s, x, r)
      BY <3>3, <3>5, LandingReset, Zenon
    <3>7. server.recovery[r] = "active"
      BY <2>5, <3>1
    <3>8. LandingUsed'
      BY <3>4, <3>5, <3>6, <3>7, LandingStillUsed DEF LandingResets
    <3>9. LandingMoves
      BY <3>4, <3>5, <3>6, <3>7 DEF LandingResets, LandingMoves
    <3>10. server'.recovery[form.code] = "used"
      BY <3>1, <3>4, <3>6 DEF LandingResets
    <3> QED BY <1>6, <3>4, <3>6, <3>8, <3>9, <3>10 DEF LandingResets, Landing!Told
  <2> QED BY <2>2, <2>3, <2>4, <2>5
<1> QED BY <1>4, <1>5, <1>6 DEF Landing!Cards

\* The operator and the other session.
LEMMA LandingOperated ==
  ASSUME server \in LandingServers, LandingUsed
  PROVE  /\ \A i \in Invitations : Landing!RevokeInvitation(i) => server' \in LandingServers /\ LandingUsed' /\ LandingMoves
         /\ \A r \in RecoveryCodes : Landing!CreateRecoveryCode(r) => server' \in LandingServers /\ LandingUsed' /\ LandingMoves
         /\ \A p \in Passwords : Landing!ChangePassword(p) => server' \in LandingServers /\ LandingUsed' /\ LandingMoves
<1>0. /\ server.invitation \in [Invitations -> {"active", "used", "revoked"}]
      /\ server.recovery \in [RecoveryCodes -> {"none", "active", "used", "replaced"}]
  BY DEF LandingServers
<1>1. ASSUME NEW i \in Invitations, Landing!RevokeInvitation(i)
      PROVE  server' \in LandingServers /\ LandingUsed' /\ LandingMoves
  <2>1. server' = [server EXCEPT !.invitation[i] = "revoked"] /\ server.invitation[i] = "active"
    BY <1>1 DEF Landing!RevokeInvitation
  <2>2. /\ server' \in LandingServers /\ server'.invitation = [server.invitation EXCEPT ![i] = "revoked"]
        /\ server'.recovery = server.recovery /\ server'.admitted = server.admitted /\ server'.reset = server.reset
        /\ server'.checked = server.checked /\ server'.counter = server.counter
    BY <2>1, Zenon DEF LandingServers
  <2>3. LandingUsed'
    BY <1>0, <2>1, <2>2 DEF LandingUsed, Landing!UsedOnce
  <2> QED BY <1>0, <2>2, <2>3 DEF LandingMoves
<1>2. ASSUME NEW r \in RecoveryCodes, Landing!CreateRecoveryCode(r)
      PROVE  server' \in LandingServers /\ LandingUsed' /\ LandingMoves
  <2>1. PICK codes : codes = [s \in RecoveryCodes |->
            CASE s = r -> "active" [] server.recovery[s] = "active" -> "replaced" [] OTHER -> server.recovery[s]]
    OBVIOUS
  <2>2. server' = [server EXCEPT !.recovery = codes] /\ server.recovery[r] = "none"
    BY <1>2, <2>1 DEF Landing!CreateRecoveryCode
  <2>3. /\ codes \in [RecoveryCodes -> {"none", "active", "used", "replaced"}] /\ codes[r] = "active"
        /\ \A s \in RecoveryCodes \ {r} : codes[s] = IF server.recovery[s] = "active" THEN "replaced" ELSE server.recovery[s]
    BY <1>0, <2>1, <2>2
  <2>4. /\ server' \in LandingServers /\ server'.recovery = codes
        /\ server'.invitation = server.invitation /\ server'.admitted = server.admitted /\ server'.reset = server.reset
        /\ server'.checked = server.checked /\ server'.counter = server.counter
    BY <2>2, <2>3, Zenon DEF LandingServers
  <2>5. \A s \in RecoveryCodes : codes[s] = "used" <=> server.recovery[s] = "used"
    BY <2>2, <2>3
  <2>6. LandingUsed'
    BY <2>4, <2>5 DEF LandingUsed, Landing!UsedOnce
  <2>7. LandingMoves
    BY <2>2, <2>3, <2>4 DEF LandingMoves
  <2> QED BY <2>4, <2>6, <2>7
<1>3. ASSUME NEW p \in Passwords, Landing!ChangePassword(p)
      PROVE  server' \in LandingServers /\ LandingUsed' /\ LandingMoves
  <2>1. server' = [server EXCEPT !.password = p]
    BY <1>3 DEF Landing!ChangePassword
  <2>2. /\ server' \in LandingServers /\ server'.invitation = server.invitation
        /\ server'.recovery = server.recovery /\ server'.admitted = server.admitted /\ server'.reset = server.reset
        /\ server'.checked = server.checked /\ server'.counter = server.counter
    BY <2>1, Zenon DEF LandingServers
  <2> QED BY <2>2 DEF LandingUsed, Landing!UsedOnce, LandingMoves
<1> QED BY <1>1, <1>2, <1>3

LEMMA LandingOfMoves ==
  ASSUME LandingMoves, NEW k \in Landing!Cards, NEW w, NEW q \in Landing!Asked(k) \cup {None}, LandingOf(k, w, q, server)
  PROVE  LandingOf(k, w, q, server')
<1>1. CASE k = "login"
  BY <1>1 DEF LandingOf
<1>2. CASE k = "registration"
  <2>1. q # None => q.form.code \in Invitations
    BY <1>2 DEF Landing!Asked, Landing!Forms
  <2> QED BY <1>2, <2>1 DEF LandingOf, LandingMoves
<1>3. CASE k = "recovery"
  <2>1. q # None => q.form.code \in RecoveryCodes
    BY <1>3 DEF Landing!Asked, Landing!Forms
  <2> QED BY <1>3, <2>1 DEF LandingOf, LandingMoves
<1> QED BY <1>1, <1>2, <1>3 DEF Landing!Cards

LEMMA LandingKept ==
  ASSUME LandingInv
  PROVE  /\ LandingPage(ui) /\ server \in LandingServers /\ LandingUsed /\ (ui.http["page"]["recovery"] # None => ui.open)
         /\ \A k \in Landing!Cards : /\ LandingOf(k, ui.card[k], ui.http["page"][k], server)
                                     /\ ui.card[k] \in Landing!CardPages /\ ui.http["page"][k] \in Landing!Asked(k) \cup {None}
<1>1. LandingPage(ui) /\ server \in LandingServers
  BY LandingTyped DEF LandingInv
<1>2. ui.card \in [Landing!Cards -> Landing!CardPages]
  BY <1>1 DEF LandingPage, Landing!Pages
<1> QED BY <1>1, <1>2 DEF LandingInv, LandingGood, LandingPage, Landing!Clients

\* One card and its exchange change, and the registry moves on.
LEMMA LandingStep ==
  ASSUME LandingInv, LandingPage(ui'), server' \in LandingServers, LandingUsed', LandingMoves, NEW k \in Landing!Cards,
         \A j \in Landing!Cards \ {k} : ui'.card[j] = ui.card[j] /\ ui'.http["page"][j] = ui.http["page"][j],
         LandingOf(k, ui'.card[k], ui'.http["page"][k], server'),
         ui'.http["page"]["recovery"] # None => ui'.open
  PROVE  LandingInv'
<1>1. ASSUME NEW j \in Landing!Cards
      PROVE  LandingOf(j, ui'.card[j], ui'.http["page"][j], server')
  <2>1. CASE j = k
    BY <2>1
  <2>2. CASE j # k
    <3>1. LandingOf(j, ui.card[j], ui.http["page"][j], server) /\ ui.http["page"][j] \in Landing!Asked(j) \cup {None}
      BY LandingKept
    <3>2. LandingOf(j, ui.card[j], ui.http["page"][j], server')
      BY <3>1, LandingOfMoves
    <3>3. ui'.card[j] = ui.card[j] /\ ui'.http["page"][j] = ui.http["page"][j]
      BY <2>2
    <3> QED BY <3>2, <3>3
  <2> QED BY <2>1, <2>2
<1>2. Landing!TypeOK'
  BY DEF Landing!TypeOK, LandingPage, LandingServers
<1> QED BY <1>1, <1>2 DEF LandingInv, LandingGood

\* The same, where the registry does not change.
LEMMA LandingStays ==
  ASSUME LandingInv, UNCHANGED server
  PROVE  server' \in LandingServers /\ LandingUsed' /\ LandingMoves
<1>1. server \in LandingServers /\ LandingUsed
  BY LandingKept
<1> QED BY <1>1 DEF LandingUsed, Landing!UsedOnce, LandingMoves

LEMMA LandingShown ==
  ASSUME LandingInv, UNCHANGED server, LandingPage(ui'), NEW k \in Landing!Cards,
         \A j \in Landing!Cards \ {k} : ui'.card[j] = ui.card[j] /\ ui'.http["page"][j] = ui.http["page"][j],
         LandingOf(k, ui'.card[k], ui'.http["page"][k], server),
         ui'.http["page"]["recovery"] # None => ui'.open
  PROVE  LandingInv'
<1>1. server' \in LandingServers /\ LandingUsed' /\ LandingMoves
  BY LandingStays
<1>2. server' = server
  OBVIOUS
<1>3. LandingOf(k, ui'.card[k], ui'.http["page"][k], server')
  BY <1>2
<1> QED BY <1>1, <1>3, LandingStep

\* The card of the page changes and nothing else does.
LEMMA LandingCardOnly ==
  ASSUME LandingInv, UNCHANGED server, NEW k \in Landing!Cards, NEW w, LandingCards(ui, ui', k, w),
         LandingOf(k, w, ui.http["page"][k], server)
  PROVE  LandingInv'
<1>1. /\ LandingPage(ui') /\ ui'.http = ui.http /\ (ui'.open <=> ui.open)
      /\ ui'.card[k] = w /\ \A j \in Landing!Cards \ {k} : ui'.card[j] = ui.card[j]
  BY DEF LandingCards
<1>2. ui.http["page"]["recovery"] # None => ui.open
  BY LandingKept
<1> QED BY <1>1, <1>2, LandingShown

LEMMA LandingEdits ==
  ASSUME LandingInv, NEW k \in Landing!Cards, Landing!Edit(k) \/ Landing!Fade(k)
  PROVE  LandingInv'
<1>0. LandingPage(ui) /\ ui.card[k] \in Landing!CardPages /\ LandingOf(k, ui.card[k], ui.http["page"][k], server)
  BY LandingKept
<1>1. CASE Landing!Edit(k)
  <2>1. PICK says \in Landing!Told \cup {None} :
          says = IF ui.card[k].says \in {"rejected", "totp"} THEN None ELSE ui.card[k].says
    BY <1>0 DEF Landing!CardPages
  <2>2. PICK w : w = [ui.card[k] EXCEPT !.code = None, !.says = says]
    OBVIOUS
  <2>7. PICK x : x = [ui.card[k] EXCEPT !.code = None, !.says = IF @ \in {"rejected", "totp"} THEN None ELSE @]
    OBVIOUS
  <2>8. x = w
    BY <1>0, <2>1, <2>2, <2>7 DEF Landing!CardPages
  <2>9. ui' = [ui EXCEPT !.card[k] = x] /\ UNCHANGED server
    BY <1>1, <2>7 DEF Landing!Edit, Landing!Become
  <2>3. ui' = [ui EXCEPT !.card[k] = w] /\ UNCHANGED server
    BY <2>8, <2>9
  <2>4. w \in Landing!CardPages /\ w.code = None /\ (w.loading <=> ui.card[k].loading)
    BY <1>0, <2>1, <2>2, Zenon DEF Landing!CardPages
  <2>5. LandingCards(ui, ui', k, w)
    BY <1>0, <2>3, <2>4, LandingSet
  <2>6. LandingOf(k, w, ui.http["page"][k], server)
    BY <1>0, <2>4 DEF LandingOf
  <2> QED BY <2>3, <2>5, <2>6, LandingCardOnly
<1>2. CASE Landing!Fade(k)
  <2>2. PICK w : w = [ui.card[k] EXCEPT !.says = None]
    OBVIOUS
  <2>3. ui' = [ui EXCEPT !.card[k] = w] /\ UNCHANGED server
    BY <1>0, <1>2, <2>2 DEF Landing!Fade, Landing!Become, LandingPage, Landing!Pages
  <2>4. w \in Landing!CardPages /\ w.code = ui.card[k].code /\ w.says = None /\ (w.loading <=> ui.card[k].loading)
    BY <1>0, <2>2 DEF Landing!CardPages
  <2>5. LandingCards(ui, ui', k, w)
    BY <1>0, <2>3, <2>4, LandingSet
  <2>7. None \notin {"rejected", "ok"}
    BY NoneAssumption DEF Landing!Told
  <2>6. LandingOf(k, w, ui.http["page"][k], server)
    BY <1>0, <2>4, <2>7 DEF LandingOf
  <2> QED BY <2>3, <2>5, <2>6, LandingCardOnly
<1> QED BY <1>1, <1>2

\* A page that asks: one more request, one more exchange.
LEMMA LandingAsk ==
  ASSUME NEW u, LandingPage(u), NEW c \in Landing!Clients, NEW k \in Landing!Cards, u.requests < MaxRequests,
         NEW form \in Landing!Forms(k), NEW v, v = Landing!Ask(u, c, k, form)
  PROVE  LandingPuts(u, v, c, k, Landing!Sent(form))
<1>1. PICK q : q = Landing!Sent(form)
  OBVIOUS
<1>2. q \in Landing!Asked(k)
  BY <1>1, LandingSent
<1>3. PICK x : x = [u EXCEPT !.http[c][k] = q]
  OBVIOUS
<1>4. LandingPuts(u, x, c, k, q)
  BY <1>2, <1>3, LandingPut
<1>5. u \in Landing!Pages /\ x \in Landing!Pages
  BY <1>4 DEF LandingPuts, LandingPage
<1>6. PICK n : n = u.requests + 1
  OBVIOUS
<1>7. n \in 0..MaxRequests
  BY <1>5, <1>6, LandingAssumption DEF Landing!Pages
<1>8. v = [x EXCEPT !.requests = n]
  BY <1>1, <1>3, <1>5, <1>6 DEF Landing!Ask, Landing!Pages
<1>9. v \in Landing!Pages /\ v.http = x.http /\ v.card = x.card /\ (v.open <=> x.open)
  BY <1>5, <1>7, <1>8 DEF Landing!Pages
<1> QED BY <1>1, <1>4, <1>9 DEF LandingPuts, LandingPage

\* The rival's exchanges are nothing to the page.
LEMMA LandingRival ==
  ASSUME LandingInv, server' \in LandingServers, LandingUsed', LandingMoves, NEW k \in Landing!Cards,
         NEW q, LandingPuts(ui, ui', "rival", k, q)
  PROVE  LandingInv'
<1>1. /\ LandingPage(ui') /\ ui'.card = ui.card /\ (ui'.open <=> ui.open)
      /\ \A j \in Landing!Cards : ui'.http["page"][j] = ui.http["page"][j]
  BY DEF LandingPuts, Landing!Clients
<1>2. /\ LandingOf(k, ui.card[k], ui.http["page"][k], server) /\ ui.http["page"][k] \in Landing!Asked(k) \cup {None}
      /\ ui.http["page"]["recovery"] # None => ui.open
  BY LandingKept
<1>3. LandingOf(k, ui'.card[k], ui'.http["page"][k], server')
  BY <1>1, <1>2, LandingOfMoves
<1> QED BY <1>1, <1>2, <1>3, LandingStep DEF Landing!Cards

\* An exchange of the page moves on.
LEMMA LandingPageOnly ==
  ASSUME LandingInv, server' \in LandingServers, LandingUsed', LandingMoves, NEW k \in Landing!Cards,
         NEW q, LandingPuts(ui, ui', "page", k, q), LandingOf(k, ui.card[k], q, server'),
         ui.http["page"][k] # None
  PROVE  LandingInv'
<1>1. /\ LandingPage(ui') /\ ui'.card = ui.card /\ (ui'.open <=> ui.open) /\ ui'.http["page"][k] = q
      /\ \A j \in Landing!Cards \ {k} : ui'.http["page"][j] = ui.http["page"][j]
  BY DEF LandingPuts, Landing!Clients
<1>2. ui.http["page"]["recovery"] # None => ui.open
  BY LandingKept
<1>3. ui'.http["page"]["recovery"] # None => ui'.open
  <2>1. CASE k = "recovery"
    BY <1>1, <1>2, <2>1
  <2>2. CASE k # "recovery"
    BY <1>1, <1>2, <2>2 DEF Landing!Cards
  <2> QED BY <2>1, <2>2
<1> QED BY <1>1, <1>3, LandingStep

LEMMA LandingSubmits ==
  ASSUME LandingInv, NEW k \in Landing!Cards, Landing!Submit(k) \/ Landing!RivalSubmit(k)
  PROVE  LandingInv'
<1>0. LandingPage(ui) /\ ui.card[k] \in Landing!CardPages /\ LandingOf(k, ui.card[k], ui.http["page"][k], server)
  BY LandingKept
<1>1. CASE Landing!Submit(k)
  <2>1. PICK form \in Landing!Forms(k) :
          /\ Landing!Known(k, form)
          /\ Landing!Become(Landing!Ask([ui EXCEPT !.card[k] =
               [@ EXCEPT !.code = IF k = "login" THEN None ELSE form.code, !.loading = TRUE, !.says = None]], "page", k, form))
    BY <1>1, Zenon DEF Landing!Submit
  <2>2. ui.requests < MaxRequests /\ (k = "recovery" => ui.open)
    BY <1>1, Zenon DEF Landing!Submit
  <2>3. PICK code : code = IF k = "login" THEN None ELSE form.code
    OBVIOUS
  <2>4. PICK w : w = [ui.card[k] EXCEPT !.code = code, !.loading = TRUE, !.says = None]
    OBVIOUS
  <2>5. PICK u : u = [ui EXCEPT !.card[k] = w]
    OBVIOUS
  <2>6. ui' = Landing!Ask(u, "page", k, form) /\ UNCHANGED server
    BY <2>1, <2>3, <2>4, <2>5 DEF Landing!Become
  <2>7. code \in Invitations \cup RecoveryCodes \cup {None}
    <3>1. CASE k = "login"
      BY <2>3, <3>1
    <3>2. CASE k = "registration"
      BY <2>3, <3>2 DEF Landing!Forms
    <3>3. CASE k = "recovery"
      BY <2>3, <3>3 DEF Landing!Forms
    <3> QED BY <3>1, <3>2, <3>3 DEF Landing!Cards
  <2>8. w \in Landing!CardPages /\ w.code = code /\ w.loading /\ w.says = None
    BY <1>0, <2>4, <2>7, Zenon DEF Landing!CardPages
  <2>9. LandingCards(ui, u, k, w) /\ u.requests = ui.requests
    BY <1>0, <2>5, <2>8, LandingSet, Zenon DEF LandingPage, Landing!Pages
  <2>10. PICK q : q = Landing!Sent(form)
    OBVIOUS
  <2>11. q # None /\ q.at = "sent" /\ q.form = form
    BY <2>10, LandingSent
  <2>12. LandingPuts(u, ui', "page", k, q)
    BY <2>2, <2>6, <2>9, <2>10, LandingAsk DEF LandingCards, Landing!Clients
  <2>13. /\ LandingPage(ui') /\ ui'.card[k] = w /\ ui'.http["page"][k] = q /\ (ui'.open <=> ui.open)
         /\ \A j \in Landing!Cards \ {k} : ui'.card[j] = ui.card[j] /\ ui'.http["page"][j] = ui.http["page"][j]
    BY <2>9, <2>12 DEF LandingCards, LandingPuts, Landing!Clients
  <2>14. None \notin {"rejected", "ok"}
    BY NoneAssumption DEF Landing!Told
  <2>15. LandingOf(k, w, q, server)
    <3>1. CASE k = "login"
      BY <2>8, <2>11, <3>1 DEF LandingOf
    <3>2. CASE k = "registration"
      BY <2>3, <2>8, <2>11, <2>14, <3>2 DEF LandingOf, Landing!Forms
    <3>3. CASE k = "recovery"
      <4>1. server.recovery[form.code] # "none" /\ code = form.code /\ form.code \in RecoveryCodes
        BY <2>1, <2>3, <3>3 DEF Landing!Known, Landing!Forms
      <4> QED BY <2>8, <2>11, <2>14, <3>3, <4>1 DEF LandingOf
    <3> QED BY <3>1, <3>2, <3>3 DEF Landing!Cards
  <2>16. ui'.http["page"]["recovery"] # None => ui'.open
    <3>1. ui.http["page"]["recovery"] # None => ui.open
      BY LandingKept
    <3> QED BY <2>2, <2>13, <3>1 DEF Landing!Cards
  <2> QED BY <2>6, <2>13, <2>15, <2>16, LandingShown
<1>2. CASE Landing!RivalSubmit(k)
  <2>1. PICK form \in Landing!Forms(k) : ui' = Landing!Ask(ui, "rival", k, form) /\ UNCHANGED server
    BY <1>2, Zenon DEF Landing!RivalSubmit, Landing!Become
  <2>2. ui.requests < MaxRequests
    BY <1>2 DEF Landing!RivalSubmit
  <2>3. LandingPuts(ui, ui', "rival", k, Landing!Sent(form))
    BY <1>0, <2>1, <2>2, LandingAsk DEF Landing!Clients
  <2> QED BY <2>1, <2>3, LandingRival, LandingStays
<1> QED BY <1>1, <1>2

LEMMA LandingOpens ==
  ASSUME LandingInv, Landing!OpenRecovery \/ Landing!CloseRecovery
  PROVE  LandingInv'
<1>0. /\ LandingPage(ui) /\ "recovery" \in Landing!Cards
      /\ ui.card["recovery"] \in Landing!CardPages /\ LandingOf("recovery", ui.card["recovery"], ui.http["page"]["recovery"], server)
      /\ (ui.http["page"]["recovery"] # None => ui.open)
  BY LandingKept DEF Landing!Cards
<1>4. ASSUME NEW b \in BOOLEAN, NEW u, u = [ui EXCEPT !.open = b]
      PROVE  LandingPage(u) /\ u.card = ui.card /\ u.http = ui.http /\ (u.open <=> b)
  <2>1. u \in Landing!Pages /\ u.card = ui.card /\ u.http = ui.http /\ (u.open <=> b)
    BY <1>0, <1>4 DEF LandingPage, Landing!Pages
  <2> QED BY <1>0, <2>1 DEF LandingPage
<1>1. CASE Landing!OpenRecovery
  <2>1. ui' = [ui EXCEPT !.open = TRUE, !.card["recovery"] = Landing!NewCard] /\ UNCHANGED server /\ ~ ui.open
    BY <1>1 DEF Landing!OpenRecovery, Landing!Become
  <2>2. PICK u : u = [ui EXCEPT !.open = TRUE]
    OBVIOUS
  <2>3. LandingPage(u) /\ u.card = ui.card /\ u.http = ui.http /\ u.open
    BY <1>4, <2>2, Zenon
  <2>4. ui' = [u EXCEPT !.card["recovery"] = Landing!NewCard]
    BY <1>0, <2>1, <2>2 DEF LandingPage, Landing!Pages
  <2>5. LandingCards(u, ui', "recovery", Landing!NewCard)
    BY <1>0, <2>3, <2>4, LandingSet, LandingNew
  <2>6. /\ LandingPage(ui') /\ ui'.http = ui.http /\ ui'.open /\ ui'.card["recovery"] = Landing!NewCard
        /\ \A j \in Landing!Cards \ {"recovery"} : ui'.card[j] = ui.card[j]
    BY <2>3, <2>5 DEF LandingCards
  <2>7. LandingOf("recovery", ui'.card["recovery"], ui'.http["page"]["recovery"], server)
    BY <1>0, <2>1, <2>6 DEF LandingOf, Landing!NewCard
  <2> QED BY <1>0, <2>1, <2>6, <2>7, LandingShown
<1>2. CASE Landing!CloseRecovery
  <2>1. ui' = [ui EXCEPT !.open = FALSE] /\ UNCHANGED server /\ ~ ui.card["recovery"].loading
    BY <1>2 DEF Landing!CloseRecovery, Landing!Become
  <2>3. LandingPage(ui') /\ ui'.card = ui.card /\ ui'.http = ui.http
    BY <1>4, <2>1, Zenon
  <2>4. ui'.http["page"]["recovery"] = None
    BY <1>0, <2>1, <2>3 DEF LandingOf
  <2> QED BY <1>0, <2>1, <2>3, <2>4, LandingShown
<1> QED BY <1>1, <1>2

\* The page that is left and visited again.
LEMMA LandingFresh ==
  ASSUME LandingInv, ui' = Landing!NewPage, UNCHANGED server
  PROVE  LandingInv'
<1>0. ui \in Landing!Pages /\ LandingPage(ui)
  BY LandingKept DEF LandingPage
<1>1. PICK card \in [Landing!Cards -> Landing!CardPages] : card = [k \in Landing!Cards |-> Landing!NewCard]
  BY LandingNew, Zenon
<1>2. PICK none \in [Landing!Cards -> Landing!Exchanges] : none = [k \in Landing!Cards |-> None]
  BY Zenon DEF Landing!Exchanges
<1>3. PICK http : http = [ui.http EXCEPT !["page"] = none]
  BY Zenon
<1>4. http \in [Landing!Clients -> [Landing!Cards -> Landing!Exchanges]]
      /\ http["page"] = none /\ http["rival"] = ui.http["rival"]
  BY <1>0, <1>2, <1>3 DEF Landing!Pages, Landing!Clients
<1>5. ui' = [ui EXCEPT !.card = card, !.open = FALSE, !.http = http]
  BY <1>0, <1>1, <1>2, <1>3 DEF Landing!NewPage, Landing!Pages
<1>6. ui' \in Landing!Pages /\ ui'.card = card /\ ui'.http = http
  BY <1>0, <1>4, <1>5, Zenon DEF Landing!Pages
<1>7. \A k \in Landing!Cards : ui'.http["page"][k] = None /\ ui'.http["rival"][k] = ui.http["rival"][k]
  BY <1>2, <1>4, <1>6
<1>8. LandingPage(ui')
  BY <1>0, <1>6, <1>7 DEF LandingPage, Landing!Clients
<1>9. ASSUME NEW k \in Landing!Cards
      PROVE  LandingOf(k, ui'.card[k], ui'.http["page"][k], server')
  <2>1. ui'.card[k] = Landing!NewCard /\ ui'.http["page"][k] = None
    BY <1>1, <1>6, <1>7
  <2>2. ui'.card[k].code = None /\ ~ ui'.card[k].loading
    BY <2>1 DEF Landing!NewCard
  <2> QED BY <2>1, <2>2 DEF LandingOf
<1>10. ui'.http["page"]["recovery"] = None
  BY <1>7 DEF Landing!Cards
<1>11. server' \in LandingServers /\ LandingUsed'
  BY LandingStays
<1>12. Landing!TypeOK'
  BY <1>8, <1>11 DEF Landing!TypeOK, LandingPage, LandingServers
<1> QED BY <1>9, <1>10, <1>11, <1>12 DEF LandingInv, LandingGood

\* The card takes its answer.
LEMMA LandingSaid ==
  ASSUME LandingInv, NEW k \in Landing!Cards, NEW told \in Landing!Told, ui.http["page"][k] # None,
         NEW u, u = Landing!Says(k, told)
  PROVE  /\ LandingPage(u) /\ (u.open <=> ui.open) /\ u.http["page"][k] = None
         /\ \A j \in Landing!Cards \ {k} : u.card[j] = ui.card[j] /\ u.http["page"][j] = ui.http["page"][j]
         /\ u.card[k] \in Landing!CardPages /\ u.card[k].code = ui.card[k].code /\ u.card[k].says = told /\ ~ u.card[k].loading
<1>0. LandingPage(ui) /\ ui.card[k] \in Landing!CardPages
  BY LandingKept
<1>1. PICK x : x = [ui EXCEPT !.http["page"][k] = None]
  OBVIOUS
<1>2. LandingPuts(ui, x, "page", k, None)
  BY <1>0, <1>1, LandingPut DEF Landing!Clients
<1>3. PICK asks \in BOOLEAN : asks = (ui.card[k].asksTotp \/ told = "totp")
  OBVIOUS
<1>4. PICK w : w = [ui.card[k] EXCEPT !.loading = FALSE, !.says = told, !.asksTotp = asks]
  OBVIOUS
<1>5. w \in Landing!CardPages /\ w.code = ui.card[k].code /\ w.says = told /\ ~ w.loading
  BY <1>0, <1>4, Zenon DEF Landing!CardPages
<1>6. u = [x EXCEPT !.card[k] = w]
  BY <1>0, <1>1, <1>3, <1>4 DEF Landing!Says, LandingPage, Landing!Pages, Landing!CardPages
<1>7. LandingPage(x) /\ x.card = ui.card /\ (x.open <=> ui.open) /\ x.http["page"][k] = None
      /\ \A j \in Landing!Cards \ {k} : x.http["page"][j] = ui.http["page"][j]
  BY <1>2 DEF LandingPuts, Landing!Clients
<1>8. LandingCards(x, u, k, w)
  BY <1>5, <1>6, <1>7, LandingSet
<1> QED BY <1>5, <1>7, <1>8 DEF LandingCards

LEMMA LandingAnswers ==
  ASSUME LandingInv, NEW k \in Landing!Cards, Landing!Answer(k) \/ Landing!Fail(k)
  PROVE  LandingInv'
<1>0. /\ LandingOf(k, ui.card[k], ui.http["page"][k], server) /\ ui.http["page"][k] \in Landing!Asked(k) \cup {None}
      /\ (ui.http["page"]["recovery"] # None => ui.open)
  BY LandingKept
<1>1. PICK q : q = ui.http["page"][k]
  OBVIOUS
<1>2. q # None /\ UNCHANGED server
  BY <1>1, Zenon DEF Landing!Answer, Landing!Fail, Landing!Become
<1>3. "ok" # None /\ "rejected" # None /\ "error" \in Landing!Told
  BY NoneAssumption DEF Landing!Told
<1>4. ASSUME NEW told \in Landing!Told, NEW u, u = Landing!Says(k, told),
             told \in {"ok", "rejected"} => q.at = "answered" /\ q.told = told
      PROVE  /\ LandingPage(u) /\ (u.http["page"]["recovery"] # None => u.open) /\ LandingOf(k, u.card[k], u.http["page"][k], server)
             /\ \A j \in Landing!Cards \ {k} : u.card[j] = ui.card[j] /\ u.http["page"][j] = ui.http["page"][j]
  <2>1. /\ LandingPage(u) /\ (u.open <=> ui.open) /\ u.http["page"][k] = None
        /\ \A j \in Landing!Cards \ {k} : u.card[j] = ui.card[j] /\ u.http["page"][j] = ui.http["page"][j]
        /\ u.card[k] \in Landing!CardPages /\ u.card[k].code = ui.card[k].code /\ u.card[k].says = told /\ ~ u.card[k].loading
    BY <1>1, <1>2, <1>4, LandingSaid
  <2>2. u.http["page"]["recovery"] # None => u.open
    BY <1>0, <2>1 DEF Landing!Cards
  <2>3. LandingOf(k, u.card[k], u.http["page"][k], server)
    <3>1. CASE k = "login"
      BY <2>1, <3>1 DEF LandingOf
    <3>2. CASE k = "registration"
      BY <1>0, <1>1, <1>2, <1>4, <2>1, <3>2 DEF LandingOf
    <3>3. CASE k = "recovery"
      BY <1>0, <1>1, <1>2, <1>4, <2>1, <3>3 DEF LandingOf
    <3> QED BY <3>1, <3>2, <3>3 DEF Landing!Cards
  <2> QED BY <2>1, <2>2, <2>3
<1>5. CASE Landing!Fail(k)
  <2>1. ui' = Landing!Says(k, "error")
    BY <1>5 DEF Landing!Fail, Landing!Become
  <2>2. /\ LandingPage(ui') /\ (ui'.http["page"]["recovery"] # None => ui'.open)
        /\ LandingOf(k, ui'.card[k], ui'.http["page"][k], server)
        /\ \A j \in Landing!Cards \ {k} : ui'.card[j] = ui.card[j] /\ ui'.http["page"][j] = ui.http["page"][j]
    BY <1>3, <1>4, <2>1
  <2> QED BY <1>2, <2>2, LandingShown
<1>6. CASE Landing!Answer(k)
  <2>1. q.at = "answered"
    BY <1>1, <1>6, Zenon DEF Landing!Answer
  <2>2. PICK u : u = Landing!Says(k, q.told)
    OBVIOUS
  <2>3. CASE q.told \in Landing!Told
    <3>0. /\ LandingPage(u) /\ (u.http["page"]["recovery"] # None => u.open)
          /\ LandingOf(k, u.card[k], u.http["page"][k], server)
          /\ \A j \in Landing!Cards \ {k} : u.card[j] = ui.card[j] /\ u.http["page"][j] = ui.http["page"][j]
      BY <1>4, <2>1, <2>2, <2>3
    <3>1. CASE q.told # "ok" \/ k = "recovery"
      <4>1. ui' = u
        BY <1>1, <1>6, <2>2, <3>1, Zenon DEF Landing!Answer, Landing!Become
      <4> QED BY <1>2, <3>0, <4>1, LandingShown
    <3>2. CASE q.told = "ok" /\ k = "login"
      <4>1. ui' = Landing!NewPage
        BY <1>1, <1>6, <3>2 DEF Landing!Answer, Landing!Become
      <4> QED BY <1>2, <4>1, LandingFresh
    <3>3. CASE q.told = "ok" /\ k = "registration"
      <4>1. ui' = [u EXCEPT !.card[k].code = None]
        BY <1>1, <1>6, <2>2, <3>3 DEF Landing!Answer, Landing!Become
      <4>2. PICK w : w = [u.card[k] EXCEPT !.code = None]
        OBVIOUS
      <4>3. ui' = [u EXCEPT !.card[k] = w] /\ u.card[k] \in Landing!CardPages
        BY <3>0, <4>1, <4>2 DEF LandingPage, Landing!Pages
      <4>4. w \in Landing!CardPages /\ w.code = None /\ (w.loading <=> u.card[k].loading)
        BY <4>2, <4>3 DEF Landing!CardPages
      <4>5. LandingCards(u, ui', k, w)
        BY <3>0, <4>3, <4>4, LandingSet
      <4>6. LandingOf(k, w, u.http["page"][k], server)
        BY <3>0, <3>3, <4>4 DEF LandingOf
      <4>7. /\ LandingPage(ui') /\ ui'.http = u.http /\ (ui'.open <=> u.open) /\ ui'.card[k] = w
            /\ \A j \in Landing!Cards \ {k} : ui'.card[j] = u.card[j]
        BY <4>5 DEF LandingCards
      <4> QED BY <1>2, <3>0, <4>6, <4>7, LandingShown
    <3> QED BY <3>1, <3>2, <3>3 DEF Landing!Cards
  <2>4. q.told # None
    BY <1>0, <1>1, <1>2, <2>1 DEF LandingOf
  <2> QED BY <1>0, <1>1, <1>2, <2>3, <2>4 DEF Landing!Asked
<1> QED BY <1>5, <1>6

LEMMA LandingReads ==
  ASSUME LandingInv, NEW c \in Landing!Clients, NEW k \in Landing!Cards, Landing!Read(c, k)
  PROVE  LandingInv'
<1>0. /\ LandingPage(ui) /\ server \in LandingServers
      /\ LandingOf(k, ui.card[k], ui.http["page"][k], server)
  BY LandingKept
<1>1. PICK q : q = ui.http[c][k]
  OBVIOUS
<1>2. q # None /\ q.at = "sent" /\ q \in Landing!Asked(k) /\ UNCHANGED server
  BY <1>0, <1>1 DEF Landing!Read, Landing!Become, LandingPage
<1>3. PICK told : told = Landing!Refused(k, q.form)
  OBVIOUS
<1>4. /\ told \in {None, "rejected"} /\ "rejected" # None /\ "rejected" \in Landing!Told /\ "ok" # "rejected"
      /\ k = "registration" /\ told = "rejected" => server.invitation[q.form.code] # "active"
      /\ k = "recovery" /\ told = "rejected" => server.recovery[q.form.code] # "active"
  BY <1>3, NoneAssumption DEF Landing!Refused, Landing!Cards, Landing!Told
<1>5. PICK seen \in Passwords \cup {None} : seen = IF k = "recovery" THEN server.password ELSE None
  BY <1>0 DEF LandingServers
<1>6. PICK r : r = IF told # None /\ c = "rival" THEN None
                   ELSE IF told = None THEN [q EXCEPT !.at = "read", !.seen = seen]
                   ELSE [q EXCEPT !.at = "answered", !.told = told]
  OBVIOUS
<1>7. ui' = [ui EXCEPT !.http[c][k] = r]
  BY <1>1, <1>3, <1>5, <1>6 DEF Landing!Read, Landing!Become
<1>8. r \in Landing!Asked(k) \cup {None} /\ (c = "page" => LandingOf(k, ui.card[k], r, server))
  <2>1. CASE told # None /\ c = "rival"
    BY <1>6, <2>1
  <2>2. CASE told = None
    <3>1. r = [q EXCEPT !.at = "read", !.seen = seen]
      BY <1>6, <2>2
    <3>2. r \in Landing!Asked(k) /\ r.at = "read" /\ r.form = q.form
      BY <1>2, <1>5, <3>1, Zenon DEF Landing!Asked
    <3>3. r # None
      BY <3>2, NoneAssumption
    <3>4. c = "page" => LandingOf(k, ui.card[k], q, server)
      BY <1>0, <1>1
    <3> QED BY <1>2, <3>2, <3>3, <3>4 DEF LandingOf
  <2>3. CASE told # None /\ c # "rival"
    <3>1. r = [q EXCEPT !.at = "answered", !.told = "rejected"]
      BY <1>4, <1>6, <2>3, Zenon
    <3>2. r \in Landing!Asked(k) /\ r.at = "answered" /\ r.form = q.form /\ r.told = "rejected"
      BY <1>2, <1>4, <3>1, Zenon DEF Landing!Asked
    <3>3. r # None /\ told = "rejected"
      BY <1>4, <2>3, <3>2, NoneAssumption
    <3>4. c = "page" => LandingOf(k, ui.card[k], q, server)
      BY <1>0, <1>1
    <3> QED BY <1>2, <1>4, <3>2, <3>3, <3>4 DEF LandingOf
  <2> QED BY <2>1, <2>2, <2>3
<1>9. LandingPuts(ui, ui', c, k, r)
  BY <1>0, <1>7, <1>8, LandingPut
<1>10. server' \in LandingServers /\ LandingUsed' /\ LandingMoves /\ server' = server
  BY <1>2, LandingStays
<1>11. CASE c = "rival"
  BY <1>9, <1>10, <1>11, LandingRival
<1>12. CASE c = "page"
  <2>1. LandingOf(k, ui.card[k], r, server')
    BY <1>8, <1>10, <1>12
  <2> QED BY <1>1, <1>2, <1>9, <1>10, <1>12, <2>1, LandingPageOnly
<1> QED BY <1>11, <1>12 DEF Landing!Clients

LEMMA LandingWritten ==
  ASSUME LandingInv, NEW c \in Landing!Clients, NEW k \in Landing!Cards, Landing!Write(c, k)
  PROVE  LandingInv'
<1>0. /\ LandingPage(ui) /\ server \in LandingServers /\ LandingUsed
      /\ LandingOf(k, ui.card[k], ui.http["page"][k], server)
  BY LandingKept
<1>1. PICK q : q = ui.http[c][k]
  OBVIOUS
<1>2. q # None /\ q.at = "read" /\ q \in Landing!Asked(k) /\ q.form \in Landing!Forms(k)
  BY <1>0, <1>1 DEF Landing!Write, LandingPage, Landing!Asked
<1>3. PICK done : done = CASE k = "login" -> Landing!Login(q.form)
                           [] k = "registration" -> Landing!Register(q.form)
                           [] k = "recovery" -> Landing!Recover(q.form, q.seen)
  OBVIOUS
<1>4. ui' = [ui EXCEPT !.http[c][k] = IF c = "rival" THEN None ELSE [q EXCEPT !.at = "answered", !.told = done[1]]]
      /\ server' = done[2]
  BY <1>1, <1>3 DEF Landing!Write
<1>5. /\ k = "login" => done = Landing!Login(q.form)
      /\ k = "registration" => done = Landing!Register(q.form)
      /\ k = "recovery" => done = Landing!Recover(q.form, q.seen)
  BY <1>3
<1>6. /\ done[1] \in Landing!Told /\ server' \in LandingServers /\ LandingUsed' /\ LandingMoves
      /\ k = "registration" /\ done[1] = "rejected" => server'.invitation[q.form.code] # "active"
      /\ k = "recovery" /\ done[1] = "rejected" => server'.recovery[q.form.code] # "active"
      /\ k = "recovery" /\ done[1] = "ok" => server'.recovery[q.form.code] = "used"
  BY <1>0, <1>2, <1>4, <1>5, LandingWrites
<1>7. PICK told : told = done[1]
  OBVIOUS
<1>8. CASE c = "rival"
  <2>1. ui' = [ui EXCEPT !.http[c][k] = None]
    BY <1>4, <1>8
  <2>2. LandingPuts(ui, ui', c, k, None)
    BY <1>0, <2>1, LandingPut
  <2> QED BY <1>6, <1>8, <2>2, LandingRival
<1>9. CASE c = "page"
  <2>1. PICK r : r = [q EXCEPT !.at = "answered", !.told = told]
    OBVIOUS
  <2>2. ui' = [ui EXCEPT !.http[c][k] = r]
    BY <1>4, <1>7, <1>9, <2>1
  <2>3. r \in Landing!Asked(k) /\ r.at = "answered" /\ r.form = q.form /\ r.told = told
    BY <1>2, <1>6, <1>7, <2>1, Zenon DEF Landing!Asked
  <2>4. r # None /\ None \notin Landing!Told
    BY <2>3, NoneAssumption
  <2>5. LandingPuts(ui, ui', c, k, r)
    BY <1>0, <2>2, <2>3, LandingPut
  <2>6. LandingOf(k, ui.card[k], q, server')
    BY <1>0, <1>1, <1>2, <1>6, <1>9, LandingOfMoves
  <2>7. /\ k = "registration" /\ told = "rejected" => server'.invitation[q.form.code] # "active"
        /\ k = "recovery" /\ told = "rejected" => server'.recovery[q.form.code] # "active"
        /\ k = "recovery" /\ told = "ok" => server'.recovery[q.form.code] = "used"
        /\ told # None
    BY <1>6, <1>7, <2>4
  <2>8. LandingOf(k, ui.card[k], r, server')
    BY <1>2, <2>3, <2>4, <2>6, <2>7 DEF LandingOf
  <2> QED BY <1>1, <1>2, <1>6, <1>9, <2>5, <2>8, LandingPageOnly
<1> QED BY <1>8, <1>9 DEF Landing!Clients

\* The registry moves on without the page.
LEMMA LandingApart ==
  ASSUME LandingInv, UNCHANGED ui, server' \in LandingServers, LandingUsed', LandingMoves
  PROVE  LandingInv'
<1>1. "login" \in Landing!Cards
  BY DEF Landing!Cards
<1>2. /\ LandingPage(ui) /\ ui.http["page"]["login"] \in Landing!Asked("login") \cup {None}
      /\ LandingOf("login", ui.card["login"], ui.http["page"]["login"], server)
      /\ (ui.http["page"]["recovery"] # None => ui.open)
  BY <1>1, LandingKept
<1>3. LandingOf("login", ui.card["login"], ui.http["page"]["login"], server')
  BY <1>1, <1>2, LandingOfMoves
<1>4. ui' = ui
  OBVIOUS
<1>5. LandingPage(ui') /\ (ui'.http["page"]["recovery"] # None => ui'.open)
      /\ LandingOf("login", ui'.card["login"], ui'.http["page"]["login"], server')
  BY <1>2, <1>3, <1>4
<1> QED BY <1>1, <1>4, <1>5, LandingStep

LEMMA LandingNext == LandingInv /\ (Landing!Next \/ UNCHANGED <<ui, server>>) => LandingInv'
<1> SUFFICES ASSUME LandingInv, Landing!Next \/ UNCHANGED <<ui, server>>
             PROVE  LandingInv'
  OBVIOUS
<1>0. ui.uses \subseteq Landing!Cards /\ server \in LandingServers /\ LandingUsed
  BY LandingKept, LandingAssumption DEF LandingPage, Landing!Pages
<1>1. ASSUME NEW k \in ui.uses,
             Landing!Submit(k) \/ Landing!Edit(k) \/ Landing!Fade(k) \/ Landing!Answer(k) \/ Landing!Fail(k) \/ Landing!RivalSubmit(k)
      PROVE  LandingInv'
  BY <1>0, <1>1, LandingSubmits, LandingEdits, LandingAnswers
<1>2. CASE Landing!OpenRecovery \/ Landing!CloseRecovery
  BY <1>2, LandingOpens
<1>3. CASE Landing!Reload
  BY <1>3, LandingFresh DEF Landing!Reload, Landing!Become
<1>4. ASSUME NEW c \in Landing!Clients, NEW k \in Landing!Cards, Landing!Read(c, k) \/ Landing!Write(c, k)
      PROVE  LandingInv'
  BY <1>4, LandingReads, LandingWritten
<1>5. ASSUME NEW i \in Invitations, Landing!RevokeInvitation(i)
      PROVE  LandingInv'
  <2>1. server' \in LandingServers /\ LandingUsed' /\ LandingMoves /\ UNCHANGED ui
    BY <1>0, <1>5, LandingOperated DEF Landing!RevokeInvitation
  <2> QED BY <2>1, LandingApart
<1>6. ASSUME NEW r \in RecoveryCodes, Landing!CreateRecoveryCode(r)
      PROVE  LandingInv'
  <2>1. server' \in LandingServers /\ LandingUsed' /\ LandingMoves /\ UNCHANGED ui
    BY <1>0, <1>6, LandingOperated DEF Landing!CreateRecoveryCode
  <2> QED BY <2>1, LandingApart
<1>7. ASSUME NEW p \in Passwords, Landing!ChangePassword(p)
      PROVE  LandingInv'
  <2>1. server' \in LandingServers /\ LandingUsed' /\ LandingMoves /\ UNCHANGED ui
    BY <1>0, <1>7, LandingOperated DEF Landing!ChangePassword
  <2> QED BY <2>1, LandingApart
<1>8. CASE UNCHANGED <<ui, server>>
  <2>1. server' \in LandingServers /\ LandingUsed' /\ LandingMoves /\ UNCHANGED ui
    BY <1>8, LandingStays
  <2> QED BY <2>1, LandingApart
<1> QED BY <1>1, <1>2, <1>3, <1>4, <1>5, <1>6, <1>7, <1>8 DEF Landing!Next

LEMMA LandingHolds == LandingInv => Landing!TypeOK /\ Landing!BusyIsPending /\ Landing!SettledIsServers
<1> SUFFICES ASSUME LandingInv
             PROVE  Landing!TypeOK /\ Landing!BusyIsPending /\ Landing!SettledIsServers
  OBVIOUS
<1>1. Landing!TypeOK /\ LandingUsed /\ \A k \in Landing!Cards : LandingOf(k, ui.card[k], ui.http["page"][k], server)
  BY DEF LandingInv, LandingGood
<1>2. Landing!BusyIsPending
  BY <1>1 DEF Landing!BusyIsPending, LandingOf
<1>3. LandingOf("registration", ui.card["registration"], ui.http["page"]["registration"], server)
      /\ LandingOf("recovery", ui.card["recovery"], ui.http["page"]["recovery"], server)
  BY <1>1 DEF Landing!Cards
<1>4. Landing!SaysWhatIsSo
  BY <1>3 DEF Landing!SaysWhatIsSo, LandingOf
<1> QED BY <1>1, <1>2, <1>4 DEF LandingUsed, Landing!SettledIsServers

--------------------------------------------------------------------------------
(* The lists of options *)

\* What a list shows, from what it depends on.
ListShown(control, query, options) ==
  Filter(OptionsOf[control], {o \in options : query = NoSearch \/ o \in Finds[query]})

\* The control u and its owner s.  The active option is one of those shown, and
\* the value after the list is opened; what is not searched, or is not
\* answered by an API, keeps its options; a value is one option, or some states.
ListOf(u, s) ==
  LET shown == ListShown(u.control, u.query, s.options) IN
  /\ u.placed => u.open
  /\ u.open /\ u.control \in List!Placed => u.placed \/ u.awaits
  /\ ~ u.open => u.query = NoSearch /\ u.active = -1
  /\ u.open /\ ~ u.stale => Len(shown) = 0 \/ u.active + 1 \in 1..Len(shown)
  /\ u.open /\ ~ u.stale /\ ~ u.touched /\ u.control # "states" /\ s.value \subseteq s.options =>
       u.active + 1 \in 1..Len(shown) /\ s.value = {shown[u.active + 1]}
  /\ u.open /\ u.placed /\ u.control = "entity" =>
       u.room = (IF u.up THEN s.above ELSE s.below) /\ (u.up => s.above > s.below)
  /\ s.value # {} /\ s.value \subseteq Elements(OptionsOf[u.control])
  /\ u.control # "states" => \E o \in s.value : s.value = {o}
  /\ u.control \notin List!Searched => s.options = Elements(OptionsOf[u.control]) /\ u.query = NoSearch

ListInv == List!TypeOK /\ ListOf(ui, server)

ListPages ==
  [control: List!Controls, open: BOOLEAN, query: SearchFor \cup {NoSearch},
   active: -1 .. List!Cardinality(List!AllOptions) - 1, awaits: BOOLEAN, placed: BOOLEAN, up: BOOLEAN, room: Spaces,
   touched: BOOLEAN, stale: BOOLEAN]
ListOwners == [options: SUBSET List!AllOptions, value: SUBSET List!AllOptions, above: Spaces, below: Spaces]

LEMMA ListTyped == List!TypeOK <=> ui \in ListPages /\ server \in ListOwners
BY DEF List!TypeOK, ListPages, ListOwners

LEMMA ListCardinality == \A S : List!Cardinality(S) = Cardinality(S)
BY DEF List!Cardinality, Cardinality

LEMMA ListElements == \A s : List!Range(s) = Elements(s)
BY DEF List!Range, Elements

\* A list that repeats nothing is as long as it has elements.
LEMMA ListLength ==
  ASSUME NEW T, NEW s \in Seq(T), EachOnce(s)
  PROVE  IsFiniteSet(Elements(s)) /\ Cardinality(Elements(s)) = Len(s) /\ Len(s) \in Nat
<1>1. Len(s) \in Nat /\ DOMAIN s = 1..Len(s)
  OBVIOUS
<1>2. IsFiniteSet(1..Len(s)) /\ Cardinality(1..Len(s)) = Len(s)
  BY <1>1, FS_Interval
<1>3. PICK f : f = [i \in 1..Len(s) |-> s[i]]
  OBVIOUS
<1>4. \A i \in 1..Len(s) : f[i] \in Elements(s)
  BY <1>1, <1>3 DEF Elements
<1>5. f \in [1..Len(s) -> Elements(s)]
  BY <1>3, <1>4
<1>6. \A e \in Elements(s) : \E i \in 1..Len(s) : f[i] = e
  BY <1>1, <1>3 DEF Elements
<1>7. \A i, j \in 1..Len(s) : f[i] = f[j] => i = j
  BY <1>1, <1>3 DEF EachOnce
<1>8. f \in Bijection(1..Len(s), Elements(s))
  BY <1>5, <1>6, <1>7 DEF Bijection, Injection, Surjection, IsInjective
<1> QED BY <1>1, <1>2, <1>8, FS_Bijection DEF ExistsBijection

\* The options of a control are among all of them, as many as are listed.
LEMMA ListFinite == IsFiniteSet(List!AllOptions)
<1>1. PICK C : C = List!Controls
  OBVIOUS
<1>2. IsFiniteSet({"entity", "parent", "language", "states"})
  <2>1. IsFiniteSet({"entity", "parent"}) /\ IsFiniteSet({"language", "states"})
    <3>1. IsFiniteSet({"entity"}) /\ IsFiniteSet({"language"})
      BY FS_Singleton, Zenon
    <3>2. IsFiniteSet({"entity"} \cup {"parent"}) /\ IsFiniteSet({"language"} \cup {"states"})
      BY <3>1, FS_AddElement
    <3>3. {"entity"} \cup {"parent"} = {"entity", "parent"} /\ {"language"} \cup {"states"} = {"language", "states"}
      OBVIOUS
    <3> QED BY <3>2, <3>3
  <2>2. {"entity", "parent", "language", "states"} = {"entity", "parent"} \cup {"language", "states"}
    OBVIOUS
  <2>3. IsFiniteSet({"entity", "parent"} \cup {"language", "states"})
    BY <2>1, FS_Union, Zenon
  <2> QED BY <2>2, <2>3
<1>3. IsFiniteSet(C)
  BY <1>1, <1>2, ListAssumption, FS_Subset, Zenon
<1>4. PICK f : f = [c \in C |-> Elements(OptionsOf[c])]
  BY Zenon
<1>5. PICK R : R = {Elements(OptionsOf[c]) : c \in C}
  OBVIOUS
<1>6. f \in Surjection(C, R)
  BY <1>4, <1>5 DEF Surjection
<1>7. IsFiniteSet(R)
  BY <1>3, <1>6, FS_Surjection
<1>8. \A S \in R : IsFiniteSet(S)
  BY <1>1, <1>5, ListAssumption, ListLength DEF EachOnce
<1>9. List!AllOptions = UNION R
  BY <1>1, <1>5, ListElements DEF List!AllOptions
<1> QED BY <1>7, <1>8, <1>9, FS_UNION

LEMMA ListOptions ==
  ASSUME NEW c \in List!Controls
  PROVE  /\ OptionsOf[c] \in Seq(List!AllOptions) /\ EachOnce(OptionsOf[c]) /\ Elements(OptionsOf[c]) \subseteq List!AllOptions
         /\ Len(OptionsOf[c]) \in Nat /\ Cardinality(List!AllOptions) \in Nat
         /\ Len(OptionsOf[c]) <= Cardinality(List!AllOptions)
<1>1. OptionsOf[c] \in Seq(List!AllOptions) /\ EachOnce(OptionsOf[c])
  BY ListAssumption DEF EachOnce
<1>2. Elements(OptionsOf[c]) \subseteq List!AllOptions
  BY <1>1 DEF Elements
<1>3. IsFiniteSet(Elements(OptionsOf[c])) /\ Cardinality(Elements(OptionsOf[c])) = Len(OptionsOf[c]) /\ Len(OptionsOf[c]) \in Nat
  BY <1>1, ListLength
<1>4. Cardinality(List!AllOptions) \in Nat /\ Cardinality(Elements(OptionsOf[c])) <= Cardinality(List!AllOptions)
  BY <1>2, ListFinite, FS_Subset, FS_CardinalityType
<1> QED BY <1>1, <1>2, <1>3, <1>4

LEMMA ListFilter ==
  ASSUME NEW s, NEW kept
  PROVE  List!Filter(s, kept) = Filter(s, kept)
BY Zenon DEF List!Filter, Filter, List!Cardinality, Cardinality

LEMMA ListShows ==
  ASSUME NEW u
  PROVE  List!VisibleValues(u) = ListShown(u.control, u.query, server.options)
BY ListFilter DEF List!VisibleValues, List!FilteredOptions, ListShown

\* What is shown is some of the options.
LEMMA ListSome ==
  ASSUME NEW c \in List!Controls, NEW query, NEW options, NEW shown, shown = ListShown(c, query, options)
  PROVE  /\ shown \in Seq(List!AllOptions) /\ Len(shown) \in Nat /\ Len(shown) <= Cardinality(List!AllOptions)
         /\ DOMAIN shown = 1..Len(shown) /\ Cardinality(List!AllOptions) \in Nat
         /\ query = NoSearch => Elements(shown) = Elements(OptionsOf[c]) \cap options
         /\ query = NoSearch /\ options = Elements(OptionsOf[c]) => shown = OptionsOf[c]
<1>1. PICK s : s = OptionsOf[c]
  OBVIOUS
<1>2. PICK kept : kept = {o \in options : query = NoSearch \/ o \in Finds[query]}
  OBVIOUS
<1>3. shown = Filter(s, kept)
  BY <1>1, <1>2 DEF ListShown
<1>4. s \in Seq(List!AllOptions) /\ Len(s) \in Nat /\ Cardinality(List!AllOptions) \in Nat /\ Len(s) <= Cardinality(List!AllOptions)
  BY <1>1, ListOptions
<1>5. shown \in Seq(List!AllOptions) /\ Len(shown) = Cardinality(KeptAt(s, kept)) /\ Elements(shown) = Elements(s) \cap kept
  BY <1>3, <1>4, FilterKeeps
<1>6. KeptAt(s, kept) \subseteq 1..Len(s) /\ Cardinality(KeptAt(s, kept)) \in Nat
  BY <1>4, KeptFinite
<1>7. Cardinality(KeptAt(s, kept)) <= Len(s)
  <2>5. PICK n : n = Len(s)
    OBVIOUS
  <2>6. n \in Nat
    BY <1>4, <2>5
  <2>7. IsFiniteSet(1..n) /\ Cardinality(1..n) = n
    BY <2>6, FS_Interval
  <2>1. IsFiniteSet(1..Len(s)) /\ Cardinality(1..Len(s)) = Len(s)
    BY <2>5, <2>7
  <2>2. PICK K : K = KeptAt(s, kept)
    OBVIOUS
  <2>3. K \in SUBSET (1..Len(s))
    BY <1>6, <2>2
  <2>4. Cardinality(K) <= Cardinality(1..Len(s))
    BY <2>1, <2>3, FS_Subset, Zenon
  <2> QED BY <2>1, <2>2, <2>4
<1>8. Len(shown) \in Nat /\ Len(shown) <= Cardinality(List!AllOptions)
  BY <1>4, <1>5, <1>6, <1>7
<1>9. query = NoSearch => kept = options
  BY <1>2
<1>10. ASSUME query = NoSearch, options = Elements(s)
       PROVE  shown = s
  <2>1. \A i \in DOMAIN s : s[i] \in kept
    BY <1>9, <1>10 DEF Elements
  <2> QED BY <1>3, <1>4, <2>1, FilterNone
<1>11. DOMAIN shown = 1..Len(shown)
  BY <1>5
<1> QED BY <1>1, <1>4, <1>5, <1>8, <1>9, <1>10, <1>11

LEMMA ListWithin ==
  ASSUME NEW c \in List!Controls, NEW query, NEW options, NEW shown, shown = ListShown(c, query, options), NEW i \in 1..Len(shown)
  PROVE  shown[i] \in Elements(OptionsOf[c])
<1>1. OptionsOf[c] \in Seq(List!AllOptions)
  BY ListOptions
<1>2. PICK kept : shown = Filter(OptionsOf[c], kept)
  BY Zenon DEF ListShown
<1>3. Elements(shown) = Elements(OptionsOf[c]) \cap kept
  BY <1>1, <1>2, FilterKeeps
<1>4. DOMAIN shown = 1..Len(shown)
  BY ListSome
<1>5. shown[i] \in Elements(shown)
  BY <1>4 DEF Elements
<1> QED BY <1>3, <1>5

\* The option at an index, one past which it stands in the sequence.
LEMMA ListAt ==
  ASSUME NEW u, u.control \in List!Controls, NEW i \in Int, NEW shown, shown = List!VisibleValues(u)
  PROVE  /\ i + 1 \in 1..Len(shown) => List!OptionAt(u, i) = {shown[i + 1]}
         /\ i + 1 \notin 1..Len(shown) => List!OptionAt(u, i) = {}
<1>1. Len(shown) \in Nat
  BY ListShows, ListSome
<1>2. i \in 0 .. Len(shown) - 1 <=> i + 1 \in 1..Len(shown)
  BY <1>1
<1>3. List!OptionAt(u, i) = IF i \in 0 .. Len(shown) - 1 THEN {shown[i + 1]} ELSE {}
  BY DEF List!OptionAt
<1> QED BY <1>2, <1>3

LEMMA ListHolds == ListInv => List!TypeOK /\ List!BusyIsPending /\ List!SettledIsServers
<1> SUFFICES ASSUME ListInv
             PROVE  List!TypeOK /\ List!BusyIsPending /\ List!SettledIsServers
  OBVIOUS
<1>1. ui \in ListPages /\ server \in ListOwners /\ ListOf(ui, server)
  BY ListTyped DEF ListInv
<1>2. PICK shown : shown = ListShown(ui.control, ui.query, server.options)
  OBVIOUS
<1>3. shown = List!VisibleValues(ui)
  BY <1>2, ListShows
<1>4. ui.control \in List!Controls /\ ui.active \in Int
  BY <1>1, ListFinite, ListCardinality, FS_CardinalityType DEF ListPages
<1>5. shown \in Seq(List!AllOptions) /\ Len(shown) \in Nat
  BY <1>2, <1>4, ListSome
<1>6. /\ ui.active + 1 \in 1..Len(shown) => List!OptionAt(ui, ui.active) = {shown[ui.active + 1]}
      /\ ui.active + 1 \notin 1..Len(shown) => List!OptionAt(ui, ui.active) = {}
  BY <1>3, <1>4, ListAt
<1>7. Len(shown) = 0 <=> shown = <<>>
  BY <1>5
<1>8. ui.open /\ ~ ui.stale => (List!OptionAt(ui, ui.active) = {} <=> shown = <<>>)
  <2>1. ui.open /\ ~ ui.stale => Len(shown) = 0 \/ ui.active + 1 \in 1..Len(shown)
    BY <1>1, <1>2 DEF ListOf
  <2>2. CASE ui.active + 1 \in 1..Len(shown)
    <3>2. PICK o : o = shown[ui.active + 1]
      OBVIOUS
    <3>3. List!OptionAt(ui, ui.active) = {o}
      BY <1>6, <2>2, <3>2
    <3>4. Len(shown) # 0
      BY <1>4, <1>5, <2>2
    <3>1. List!OptionAt(ui, ui.active) # {} /\ Len(shown) # 0
      BY <3>3, <3>4
    <3> QED BY <1>7, <3>1
  <2>3. CASE ui.active + 1 \notin 1..Len(shown)
    BY <1>6, <1>7, <2>1, <2>3
  <2> QED BY <2>2, <2>3
<1>9. ui.open /\ ~ ui.stale /\ ~ ui.touched /\ ui.control # "states" /\ server.value \subseteq server.options
        => List!OptionAt(ui, ui.active) = server.value
  BY <1>1, <1>2, <1>6, Zenon DEF ListOf
<1>10. List!BusyIsPending
  BY <1>1 DEF ListOf, List!BusyIsPending
<1> QED BY <1>1, <1>3, <1>8, <1>9, <1>10 DEF ListInv, ListOf, List!SettledIsServers

LEMMA ListInit == List!Init => ListInv
<1> SUFFICES ASSUME List!Init
             PROVE  ListInv
  OBVIOUS
<1>1. PICK c \in List!Controls, o \in List!AllOptions, above \in Spaces, below \in Spaces :
        /\ o \in Elements(OptionsOf[c])
        /\ server = [options |-> Elements(OptionsOf[c]), value |-> {o}, above |-> above, below |-> below]
        /\ ui = [control |-> c, open |-> FALSE, query |-> NoSearch, active |-> -1, awaits |-> FALSE, placed |-> FALSE, up |-> FALSE,
                 room |-> below, touched |-> FALSE, stale |-> FALSE]
  BY ListElements, Zenon DEF List!Init
<1>2. Elements(OptionsOf[c]) \subseteq List!AllOptions /\ Cardinality(List!AllOptions) \in Nat
  BY ListOptions
<1>3. server \in ListOwners
  BY <1>1, <1>2 DEF ListOwners
<1>4. ui \in ListPages
  BY <1>1, <1>2, ListCardinality DEF ListPages
<1>5. ListOf(ui, server)
  BY <1>1 DEF ListOf
<1> QED BY <1>3, <1>4, <1>5, ListTyped DEF ListInv

LEMMA ListKeys ==
  ASSUME NEW a \in Int, NEW n \in Nat, NEW k \in List!NavigationKeys, NEW r, r = List!NextIndex(a, n, k)
  PROVE  IF n = 0 THEN r = -1 ELSE r + 1 \in 1..n /\ r \in Int
<1>1. CASE n = 0
  BY <1>1 DEF List!NextIndex
<1>2. CASE n > 0 /\ a \notin 0 .. n - 1
  BY <1>2 DEF List!NextIndex, List!NavigationKeys
<1>3. CASE n > 0 /\ a \in 0 .. n - 1 /\ k \in {"Home", "End"}
  BY <1>3 DEF List!NextIndex
<1>4. CASE n > 0 /\ a \in 0 .. n - 1 /\ k \in {"ArrowDown", "ArrowUp"}
  <2>1. PICK b \in Int : b = a + (IF k = "ArrowDown" THEN 1 ELSE n - 1)
    OBVIOUS
  <2>2. r = b % n
    BY <1>4, <2>1 DEF List!NextIndex
  <2>3. (b % n) \in 0..(n - 1)
    BY <1>4, <2>1
  <2> QED BY <1>4, <2>2, <2>3
<1> QED BY <1>1, <1>2, <1>3, <1>4 DEF List!NavigationKeys

\* The list u becomes v, which is another in what is active, or where it is placed.
ListActive(u, v, shown) ==
  /\ v \in ListPages /\ v.control = u.control /\ v.query = u.query /\ v.room = u.room
  /\ (v.open <=> u.open) /\ (v.awaits <=> u.awaits) /\ (v.placed <=> u.placed) /\ (v.up <=> u.up) /\ (v.touched <=> u.touched) /\ ~ v.stale
  /\ IF Len(shown) = 0 THEN v.active = -1 ELSE v.active + 1 \in 1..Len(shown)
  /\ \A o \in Elements(shown) : server.value = {o} => Len(shown) # 0 /\ shown[v.active + 1] = o
ListPlaced(u, v, page) ==
  /\ v \in ListPages /\ v.control = u.control /\ v.query = u.query /\ v.active = u.active
  /\ (v.open <=> u.open) /\ (v.awaits <=> u.awaits) /\ (v.placed <=> u.placed)
  /\ (v.touched <=> u.touched) /\ (v.stale <=> u.stale)
  /\ v.room = (IF v.up THEN page.above ELSE page.below) /\ (v.up => page.above > page.below)

LEMMA ListSynced ==
  ASSUME NEW u \in ListPages, server.value # {}, NEW v, v = List!SyncActiveIndex(u),
         NEW shown, shown = ListShown(u.control, u.query, server.options)
  PROVE  ListActive(u, v, shown)
<1>1. u.control \in List!Controls
  BY DEF ListPages
<1>2. /\ shown \in Seq(List!AllOptions) /\ Len(shown) \in Nat /\ Len(shown) <= Cardinality(List!AllOptions)
      /\ DOMAIN shown = 1..Len(shown) /\ Cardinality(List!AllOptions) \in Nat /\ shown = List!VisibleValues(u)
  BY <1>1, ListShows, ListSome
<1>3. PICK n \in Nat : n = Len(shown)
  BY <1>2
<1>4. PICK at : at = {i \in 0 .. n - 1 : List!OptionAt(u, i) \subseteq server.value}
  OBVIOUS
<1>5. PICK a : a = CASE n = 0 -> -1 [] at # {} -> CHOOSE i \in at : TRUE [] n > 0 /\ at = {} -> 0
  OBVIOUS
<1>6. v = [u EXCEPT !.stale = FALSE, !.active = a]
  BY <1>2, <1>3, <1>4, <1>5 DEF List!SyncActiveIndex
<1>7. n = 0 => at = {}
  BY <1>4
<1>8. ASSUME at # {}
      PROVE  a \in at
  BY <1>5, <1>7, <1>8
<1>9. (n = 0 => a = -1) /\ (n > 0 /\ at = {} => a = 0)
  BY <1>5, <1>7
<1>10. IF n = 0 THEN a = -1 ELSE a \in 0 .. n - 1
  BY <1>3, <1>4, <1>8, <1>9
<1>11. ASSUME NEW i \in 0 .. n - 1
       PROVE  List!OptionAt(u, i) = {shown[i + 1]}
  <2>1. i \in Int /\ i + 1 \in 1..Len(shown)
    BY <1>3
  <2> QED BY <1>1, <1>2, <2>1, ListAt
<1>12. ASSUME NEW o \in Elements(shown), server.value = {o}
       PROVE  n # 0 /\ shown[a + 1] = o
  <2>1. PICK j \in 1..n : shown[j] = o
    BY <1>2, <1>3, <1>12 DEF Elements
  <2>8. j - 1 \in 0 .. n - 1 /\ (j - 1) + 1 = j
    BY <1>3, <2>1
  <2>2. PICK i \in 0 .. n - 1 : i + 1 = j
    BY <2>8
  <2>3. List!OptionAt(u, i) = {o}
    BY <1>11, <2>1, <2>2
  <2>4. i \in at
    BY <1>4, <1>12, <2>3
  <2>5. a \in 0 .. n - 1 /\ List!OptionAt(u, a) \subseteq {o}
    BY <1>4, <1>8, <1>12, <2>4
  <2>6. List!OptionAt(u, a) = {shown[a + 1]}
    BY <1>11, <2>5
  <2>7. shown[a + 1] = o
    BY <2>5, <2>6
  <2> QED BY <2>1, <2>7
<1>13. a \in -1 .. List!Cardinality(List!AllOptions) - 1
  BY <1>2, <1>3, <1>10, ListCardinality
<1>14. /\ v \in ListPages /\ v.control = u.control /\ v.query = u.query /\ v.room = u.room /\ v.active = a
       /\ (v.open <=> u.open) /\ (v.awaits <=> u.awaits) /\ (v.placed <=> u.placed) /\ (v.up <=> u.up) /\ (v.touched <=> u.touched) /\ ~ v.stale
  BY <1>6, <1>13, Zenon DEF ListPages
<1>15. IF Len(shown) = 0 THEN v.active = -1 ELSE v.active + 1 \in 1..Len(shown)
  BY <1>3, <1>10, <1>14
<1>16. \A o \in Elements(shown) : server.value = {o} => Len(shown) # 0 /\ shown[v.active + 1] = o
  BY <1>3, <1>12, <1>14
<1> QED BY <1>14, <1>15, <1>16 DEF ListActive

LEMMA ListGeometry ==
  ASSUME NEW u \in ListPages, NEW page \in ListOwners, NEW height \in Nat, NEW v, v = List!Geometry(u, page, height)
  PROVE  ListPlaced(u, v, page)
<1>1. page.above \in Nat /\ page.below \in Nat /\ page.above \in Spaces /\ page.below \in Spaces
  BY ListAssumption, Zenon DEF ListOwners
<1>2. PICK up \in BOOLEAN : up = (height > page.below /\ (height <= page.above \/ page.above > page.below))
  BY Zenon
<1>3. up => page.above > page.below
  <2>1. PICK a \in Nat, b \in Nat : a = page.above /\ b = page.below
    BY <1>1
  <2>2. height > b /\ height <= a => a > b
    BY <2>1
  <2>3. up => height > b /\ (height <= a \/ a > b)
    BY <1>2, <2>1, Zenon
  <2> QED BY <2>1, <2>2, <2>3
<1>4. PICK room \in Spaces : room = IF up THEN page.above ELSE page.below
  BY <1>1
<1>5. v = [u EXCEPT !.up = up, !.room = room]
  BY <1>2, <1>4, Zenon DEF List!Geometry
<1>6. /\ v \in ListPages /\ v.control = u.control /\ v.query = u.query /\ v.active = u.active
      /\ (v.open <=> u.open) /\ (v.awaits <=> u.awaits) /\ (v.placed <=> u.placed)
      /\ (v.touched <=> u.touched) /\ (v.stale <=> u.stale) /\ v.room = room /\ (v.up <=> up)
  BY <1>4, <1>5, Zenon DEF ListPages
<1> QED BY <1>3, <1>4, <1>6 DEF ListPlaced

LEMMA ListHeight ==
  ASSUME NEW u, u.control \in List!Controls
  PROVE  List!Height(u) \in Nat
<1>1. PICK shown : shown = List!VisibleValues(u)
  OBVIOUS
<1>2. Len(shown) \in Nat
  BY <1>1, ListShows, ListSome
<1> QED BY <1>1, <1>2, ListAssumption DEF List!Height

\* The open list v, whose active option is the value, or the first.
LEMMA ListSyncs ==
  ASSUME ListInv, NEW u \in ListPages, NEW x, NEW shown, shown = ListShown(u.control, u.query, server.options), ListActive(u, x, shown),
         u.control = ui.control, u.control \in List!Searched,
         NEW v, v.control = u.control, v.query = u.query, v.active = x.active, ~ v.stale, v.open, u.query = NoSearch \/ v.touched,
         v.control \in List!Placed => v.placed \/ v.awaits,
         v.placed /\ v.control = "entity" =>
           v.room = (IF v.up THEN server.above ELSE server.below) /\ (v.up => server.above > server.below)
  PROVE  ListOf(v, server)
<1>1. ListOf(ui, server) /\ server \in ListOwners
  BY ListTyped DEF ListInv
<1>2. PICK o : server.value = {o} /\ o \in Elements(OptionsOf[u.control])
  BY <1>1 DEF ListOf, List!Searched
<1>3. /\ IF Len(shown) = 0 THEN v.active = -1 ELSE v.active + 1 \in 1..Len(shown)
      /\ o \in Elements(shown) => Len(shown) # 0 /\ shown[v.active + 1] = o
  BY <1>2 DEF ListActive
<1>4. ~ v.touched /\ server.value \subseteq server.options => o \in Elements(shown)
  <2>1. u.control \in List!Controls
    BY DEF ListPages
  <2>2. u.query = NoSearch => Elements(shown) = Elements(OptionsOf[u.control]) \cap server.options
    BY <2>1, ListSome
  <2> QED BY <1>2, <2>2
<1>5. shown = ListShown(v.control, v.query, server.options)
  OBVIOUS
<1>6. ~ v.touched /\ server.value \subseteq server.options => v.active + 1 \in 1..Len(shown) /\ server.value = {shown[v.active + 1]}
  BY <1>2, <1>3, <1>4
<1>7. Len(shown) = 0 \/ v.active + 1 \in 1..Len(shown)
  BY <1>3
<1>8. v.control \in List!Searched /\ v.control # "states"
  BY DEF List!Searched
<1>9. /\ server.value # {} /\ server.value \subseteq Elements(OptionsOf[v.control])
      /\ \E y \in server.value : server.value = {y}
  BY <1>2
<1> QED BY <1>5, <1>6, <1>7, <1>8, <1>9 DEF ListOf

LEMMA ListKept ==
  ASSUME ListInv
  PROVE  /\ ui \in ListPages /\ server \in ListOwners /\ ListOf(ui, server) /\ ui.control \in List!Controls
         /\ ui.active \in Int /\ server.value # {} /\ server.value \subseteq Elements(OptionsOf[ui.control])
         /\ ui.control \in {"entity", "parent", "language", "states"}
<1>1. ui \in ListPages /\ server \in ListOwners /\ ListOf(ui, server)
  BY ListTyped DEF ListInv
<1>2. ui.active \in Int /\ ui.control \in List!Controls
  BY <1>1, ListFinite, ListCardinality, FS_CardinalityType DEF ListPages
<1> QED BY <1>1, <1>2, ListAssumption, Zenon DEF ListOf

\* The list opens.
LEMMA ListOpens ==
  ASSUME ListInv, ~ ui.open, NEW v, v = List!OpenList(ui)
  PROVE  v \in ListPages /\ ListOf(v, server)
<1>0. /\ ui \in ListPages /\ server \in ListOwners /\ ListOf(ui, server) /\ ui.control \in List!Controls
      /\ server.value # {} /\ server.value \subseteq Elements(OptionsOf[ui.control])
      /\ ui.control \in {"entity", "parent", "language", "states"}
  BY ListKept
<1>1. ~ ui.placed /\ ui.query = NoSearch
  BY <1>0 DEF ListOf
<1>2. PICK u : u = [ui EXCEPT !.query = NoSearch, !.open = TRUE]
  OBVIOUS
<1>3. u \in ListPages /\ u.control = ui.control /\ u.query = NoSearch /\ u.open /\ ~ u.placed
  BY <1>0, <1>1, <1>2, Zenon DEF ListPages
<1>4. PICK x : x = List!SyncActiveIndex(u)
  OBVIOUS
<1>5. PICK shown : shown = ListShown(u.control, u.query, server.options)
  OBVIOUS
<1>6. ListActive(u, x, shown)
  BY <1>0, <1>3, <1>4, <1>5, ListSynced
<1>7. x \in ListPages /\ x.control = u.control /\ x.query = NoSearch /\ x.open /\ ~ x.placed /\ ~ x.stale
  BY <1>3, <1>6 DEF ListActive
<1>8. CASE ui.control = "entity"
  <2>1. PICK y : y = [x EXCEPT !.awaits = TRUE]
    OBVIOUS
  <2>2. y \in ListPages /\ y.control = u.control /\ y.query = NoSearch /\ y.open /\ ~ y.placed /\ ~ y.stale /\ y.awaits /\ y.active = x.active
    BY <1>7, <2>1, Zenon DEF ListPages
  <2>3. PICK z : z = List!Geometry(y, server, MaxHeight)
    OBVIOUS
  <2>4. ListPlaced(y, z, server)
    BY <1>0, <2>2, <2>3, ListGeometry, ListAssumption
  <2>5. z \in ListPages /\ z.control = u.control /\ z.query = NoSearch /\ z.open /\ ~ z.placed /\ ~ z.stale /\ z.awaits /\ z.active = x.active
    BY <2>2, <2>4 DEF ListPlaced
  <2>6. v = [z EXCEPT !.touched = FALSE]
    BY <1>2, <1>4, <1>8, <2>1, <2>3 DEF List!OpenList, List!OpenEntities, List!AwaitRender
  <2>7. v \in ListPages /\ v.control = u.control /\ v.query = u.query /\ v.open /\ ~ v.placed /\ ~ v.stale /\ v.awaits /\ v.active = x.active
    BY <1>3, <2>5, <2>6, Zenon DEF ListPages
  <2>8. u.control \in List!Searched
    BY <1>3, <1>8 DEF List!Searched
  <2>9. ListOf(v, server)
    BY <1>3, <1>5, <1>6, <2>7, <2>8, ListSyncs
  <2> QED BY <2>7, <2>9
<1>9. CASE ui.control = "parent"
  <2>6. v = [x EXCEPT !.touched = FALSE]
    BY <1>2, <1>4, <1>9 DEF List!OpenList, List!OpenParents
  <2>7. v \in ListPages /\ v.control = u.control /\ v.query = u.query /\ v.open /\ ~ v.placed /\ ~ v.stale /\ v.active = x.active
    BY <1>3, <1>7, <2>6, Zenon DEF ListPages
  <2>8. u.control \in List!Searched /\ v.control \notin List!Placed
    BY <1>3, <1>9, <2>7 DEF List!Searched, List!Placed
  <2>9. ListOf(v, server)
    BY <1>3, <1>5, <1>6, <2>7, <2>8, ListSyncs
  <2> QED BY <2>7, <2>9
<1>10. CASE ui.control = "language"
  <2>1. PICK s : s = OptionsOf["language"]
    OBVIOUS
  <2>2. /\ s \in Seq(List!AllOptions) /\ Len(s) = 2 /\ Cardinality(List!AllOptions) \in Nat /\ 2 <= Cardinality(List!AllOptions)
    BY <1>0, <1>10, <2>1, ListOptions, ListAssumption, Zenon
  <2>3. PICK a \in 0 .. 1 : a = IF server.value = {s[1]} THEN 0 ELSE 1
    OBVIOUS
  <2>4. PICK y : y = [ui EXCEPT !.open = TRUE, !.active = a]
    OBVIOUS
  <2>5. v = [[y EXCEPT !.awaits = TRUE] EXCEPT !.touched = FALSE]
    BY <1>10, <2>1, <2>3, <2>4 DEF List!OpenList, List!OpenLanguages, List!AwaitRender
  <2>6. a \in -1 .. List!Cardinality(List!AllOptions) - 1
    BY <2>2, <2>3, ListCardinality
  <2>7. y \in ListPages /\ y.control = ui.control /\ y.query = NoSearch /\ y.open /\ ~ y.placed /\ y.active = a
    BY <1>0, <1>1, <2>4, <2>6, Zenon DEF ListPages
  <2>8. v \in ListPages /\ v.control = ui.control /\ v.query = NoSearch /\ v.open /\ ~ v.placed /\ v.active = a /\ v.awaits
    BY <2>5, <2>7, Zenon DEF ListPages
  <2>9. server.options = Elements(s) /\ \E o \in server.value : server.value = {o}
    BY <1>0, <1>10, <2>1 DEF ListOf, List!Searched
  <2>10. ListShown(v.control, v.query, server.options) = s
    BY <1>0, <1>10, <2>1, <2>8, <2>9, ListSome
  <2>11. DOMAIN s = 1..2 /\ Elements(s) = {s[1], s[2]}
    BY <2>2 DEF Elements
  <2>12. server.value = {s[a + 1]} /\ a + 1 \in 1..2
    <3>1. PICK o : server.value = {o} /\ o \in {s[1], s[2]}
      BY <1>0, <1>10, <2>1, <2>9, <2>11
    <3>2. CASE o = s[1]
      BY <2>3, <3>1, <3>2
    <3>3. CASE o # s[1]
      BY <2>3, <3>1, <3>3
    <3> QED BY <3>2, <3>3
  <2>13. v.control = "language" /\ v.control \notin List!Searched /\ server.options = Elements(OptionsOf[v.control])
    BY <1>10, <2>1, <2>8, <2>9 DEF List!Searched
  <2>14. server.value # {} /\ server.value \subseteq Elements(OptionsOf[v.control])
    BY <1>0, <2>8
  <2>15. ListOf(v, server)
    BY <2>2, <2>8, <2>9, <2>10, <2>12, <2>13, <2>14, Zenon DEF ListOf
  <2> QED BY <2>8, <2>15
<1>11. CASE ui.control = "states"
  <2>1. PICK y : y = List!OpenStates(ui, 0)
    OBVIOUS
  <2>2. v = [y EXCEPT !.touched = FALSE]
    BY <1>11, <2>1 DEF List!OpenList
  <2>3. y = [ui EXCEPT !.open = TRUE, !.active = 0, !.stale = FALSE]
    BY <2>1 DEF List!OpenStates
  <2>4. PICK s : s = OptionsOf["states"]
    OBVIOUS
  <2>5. s \in Seq(List!AllOptions) /\ Len(s) \in Nat /\ Cardinality(List!AllOptions) \in Nat /\ Len(s) <= Cardinality(List!AllOptions)
    BY <1>0, <1>11, <2>4, ListOptions
  <2>6. Len(s) >= 1
    <3>1. Elements(s) # {}
      BY <1>0, <1>11, <2>4
    <3> QED BY <2>5, <3>1 DEF Elements
  <2>7. 0 \in -1 .. List!Cardinality(List!AllOptions) - 1
    BY <2>5, <2>6, ListCardinality
  <2>8. y \in ListPages /\ y.control = ui.control /\ y.query = NoSearch /\ y.open /\ ~ y.placed /\ y.active = 0
    BY <1>0, <1>1, <2>3, <2>7, Zenon DEF ListPages
  <2>9. v \in ListPages /\ v.control = ui.control /\ v.query = NoSearch /\ v.open /\ ~ v.placed /\ v.active = 0
    BY <2>2, <2>8, Zenon DEF ListPages
  <2>10. server.options = Elements(s) /\ v.control \notin List!Searched /\ v.control \notin List!Placed /\ v.control = "states"
    BY <1>0, <1>11, <2>4, <2>9 DEF ListOf, List!Searched, List!Placed
  <2>11. ListShown(v.control, v.query, server.options) = s
    BY <1>0, <1>11, <2>4, <2>9, <2>10, ListSome
  <2>12. 0 + 1 \in 1..Len(s)
    BY <2>5, <2>6
  <2>13. server.value # {} /\ server.value \subseteq Elements(OptionsOf[v.control]) /\ server.options = Elements(OptionsOf[v.control])
    BY <1>0, <2>4, <2>9, <2>10
  <2>14. ListOf(v, server)
    BY <2>9, <2>10, <2>11, <2>12, <2>13 DEF ListOf
  <2> QED BY <2>9, <2>14
<1> QED BY <1>0, <1>8, <1>9, <1>10, <1>11

\* The list closes; its owner may be told the value o.
LEMMA ListCloses ==
  ASSUME ListInv, ui' = List!CloseList(ui),
         \/ UNCHANGED server
         \/ \E o \in Elements(OptionsOf[ui.control]) : server' = [server EXCEPT !.value = {o}]
  PROVE  ListInv'
<1>0. /\ ui \in ListPages /\ server \in ListOwners /\ ListOf(ui, server) /\ ui.control \in List!Controls
      /\ server.value # {} /\ server.value \subseteq Elements(OptionsOf[ui.control])
  BY ListKept
<1>1. ui' = [ui EXCEPT !.open = FALSE, !.query = NoSearch, !.active = -1, !.placed = FALSE, !.stale = FALSE]
  BY DEF List!CloseList
<1>2. -1 \in -1 .. List!Cardinality(List!AllOptions) - 1
  BY ListFinite, ListCardinality, FS_CardinalityType
<1>3. /\ ui' \in ListPages /\ ui'.control = ui.control /\ ~ ui'.open /\ ui'.query = NoSearch /\ ui'.active = -1 /\ ~ ui'.placed
  BY <1>0, <1>1, <1>2, Zenon DEF ListPages
<1>4. /\ server' \in ListOwners /\ server'.options = server.options
      /\ server'.value # {} /\ server'.value \subseteq Elements(OptionsOf[ui.control])
      /\ ui.control # "states" => \E o \in server'.value : server'.value = {o}
  <2>1. CASE UNCHANGED server
    BY <1>0, <2>1 DEF ListOf
  <2>2. ASSUME NEW o \in Elements(OptionsOf[ui.control]), server' = [server EXCEPT !.value = {o}]
        PROVE  /\ server' \in ListOwners /\ server'.options = server.options
               /\ server'.value # {} /\ server'.value \subseteq Elements(OptionsOf[ui.control])
               /\ ui.control # "states" => \E x \in server'.value : server'.value = {x}
    <3>1. o \in List!AllOptions
      BY <1>0, ListOptions
    <3>2. server' \in ListOwners /\ server'.options = server.options /\ server'.value = {o}
      BY <1>0, <2>2, <3>1 DEF ListOwners
    <3> QED BY <3>2
  <2> QED BY <2>1, <2>2
<1>5. ui.control \notin List!Searched => server'.options = Elements(OptionsOf[ui.control])
  BY <1>0, <1>4 DEF ListOf
<1>6. ListOf(ui', server')
  BY <1>3, <1>4, <1>5 DEF ListOf
<1>7. List!TypeOK'
  BY <1>3, <1>4 DEF List!TypeOK, ListPages, ListOwners
<1> QED BY <1>6, <1>7 DEF ListInv

\* A list that the user or the browser changes, and not its owner.
LEMMA ListChanges ==
  ASSUME ListInv, UNCHANGED server, ui' \in ListPages, ListOf(ui', server)
  PROVE  ListInv'
<1>1. server' \in ListOwners /\ server' = server
  BY ListKept
<1>2. ListOf(ui', server')
  BY <1>1
<1>3. List!TypeOK'
  BY <1>1 DEF List!TypeOK, ListPages, ListOwners
<1> QED BY <1>2, <1>3 DEF ListInv

\* An option that is shown is taken.
LEMMA ListTakes ==
  ASSUME ListInv, ui.open, NEW o \in Elements(OptionsOf[ui.control]), List!Take(o)
  PROVE  ListInv'
<1>0. /\ ui \in ListPages /\ server \in ListOwners /\ ListOf(ui, server) /\ ui.control \in List!Controls
      /\ server.value # {} /\ server.value \subseteq Elements(OptionsOf[ui.control])
  BY ListKept
<1>1. CASE ui.control # "states"
  <2>1. ui' = List!CloseList(ui) /\ server' = [server EXCEPT !.value = {o}]
    BY <1>1 DEF List!Take, List!Choose
  <2> QED BY <2>1, ListCloses
<1>2. CASE ui.control = "states"
  <2>1. PICK value : value = List!ToggleState(o)
    OBVIOUS
  <2>2. server' = [server EXCEPT !.value = value] /\ ui' = [ui EXCEPT !.touched = TRUE]
    BY <1>2, <2>1 DEF List!Take
  <2>3. value # {} /\ value \subseteq Elements(OptionsOf[ui.control])
    BY <1>0, <2>1 DEF List!ToggleState
  <2>4. Elements(OptionsOf[ui.control]) \subseteq List!AllOptions
    BY <1>0, ListOptions
  <2>5. server' \in ListOwners /\ server'.options = server.options /\ server'.value = value
        /\ server'.above = server.above /\ server'.below = server.below
    BY <1>0, <2>2, <2>3, <2>4 DEF ListOwners
  <2>6. /\ ui' \in ListPages /\ ui'.control = ui.control /\ ui'.query = ui.query /\ ui'.active = ui.active
        /\ (ui'.open <=> ui.open) /\ (ui'.awaits <=> ui.awaits) /\ (ui'.placed <=> ui.placed) /\ (ui'.stale <=> ui.stale) /\ ui'.touched
    BY <1>0, <2>2, Zenon DEF ListPages
  <2>7. ListOf(ui', server')
    BY <1>0, <1>2, <2>3, <2>5, <2>6 DEF ListOf, List!Placed
  <2>8. List!TypeOK'
    BY <2>5, <2>6 DEF List!TypeOK, ListPages, ListOwners
  <2> QED BY <2>7, <2>8 DEF ListInv
<1> QED BY <1>1, <1>2

LEMMA ListSearches ==
  ASSUME ListInv, NEW q \in SearchFor \cup {NoSearch}, List!UpdateQuery(q)
  PROVE  ListInv'
<1>0. /\ ui \in ListPages /\ server \in ListOwners /\ ListOf(ui, server) /\ ui.control \in List!Controls /\ server.value # {}
  BY ListKept
<1>1. ui.control \in List!Searched /\ ui.open /\ UNCHANGED server
  BY DEF List!UpdateQuery, List!Show
<1>2. PICK u : u = [ui EXCEPT !.query = q, !.touched = TRUE]
  OBVIOUS
<1>3. ui' = List!SyncActiveIndex(u)
  BY <1>2 DEF List!UpdateQuery, List!Show
<1>4. /\ u \in ListPages /\ u.control = ui.control /\ u.open /\ u.touched /\ u.room = ui.room
      /\ (u.awaits <=> ui.awaits) /\ (u.placed <=> ui.placed) /\ (u.up <=> ui.up)
  BY <1>0, <1>1, <1>2, Zenon DEF ListPages
<1>5. PICK shown : shown = ListShown(u.control, u.query, server.options)
  OBVIOUS
<1>6. ListActive(u, ui', shown)
  BY <1>0, <1>3, <1>4, <1>5, ListSynced
<1>7. /\ ui' \in ListPages /\ ui'.control = u.control /\ ui'.query = u.query /\ ui'.room = ui.room /\ ~ ui'.stale
      /\ ui'.open /\ (ui'.awaits <=> ui.awaits) /\ (ui'.placed <=> ui.placed) /\ (ui'.up <=> ui.up) /\ ui'.touched
  BY <1>4, <1>6 DEF ListActive
<1>8. ui'.control \in List!Placed => ui'.placed \/ ui'.awaits
  BY <1>0, <1>1, <1>4, <1>7 DEF ListOf
<1>9. ui'.placed /\ ui'.control = "entity" =>
        ui'.room = (IF ui'.up THEN server.above ELSE server.below) /\ (ui'.up => server.above > server.below)
  BY <1>0, <1>1, <1>4, <1>7 DEF ListOf
<1>10. ListOf(ui', server)
  BY <1>1, <1>4, <1>5, <1>6, <1>7, <1>8, <1>9, ListSyncs
<1> QED BY <1>1, <1>7, <1>10, ListChanges

LEMMA ListNavigates ==
  ASSUME ListInv, NEW k \in List!NavigationKeys, List!Navigate(k)
  PROVE  ListInv'
<1>0. /\ ui \in ListPages /\ server \in ListOwners /\ ListOf(ui, server) /\ ui.control \in List!Controls /\ ui.active \in Int
      /\ server.value # {} /\ server.value \subseteq Elements(OptionsOf[ui.control])
  BY ListKept
<1>1. PICK shown : shown = ListShown(ui.control, ui.query, server.options)
  OBVIOUS
<1>2. /\ shown = List!VisibleValues(ui) /\ Len(shown) \in Nat /\ Len(shown) <= Cardinality(List!AllOptions)
      /\ Cardinality(List!AllOptions) \in Nat
  BY <1>0, <1>1, ListShows, ListSome
<1>3. CASE ui.open
  <2>1. PICK a : a = List!NextIndex(ui.active, Len(shown), k)
    OBVIOUS
  <2>2. IF Len(shown) = 0 THEN a = -1 ELSE a + 1 \in 1..Len(shown) /\ a \in Int
    BY <1>0, <1>2, <2>1, ListKeys, Zenon
  <2>3. ui' = [ui EXCEPT !.active = a, !.touched = TRUE, !.stale = FALSE] /\ UNCHANGED server
    BY <1>2, <1>3, <2>1 DEF List!Navigate, List!Show, List!MoveActive
  <2>4. a \in -1 .. List!Cardinality(List!AllOptions) - 1
    BY <1>2, <2>2, ListCardinality
  <2>5. /\ ui' \in ListPages /\ ui'.control = ui.control /\ ui'.query = ui.query /\ ui'.active = a /\ ui'.room = ui.room
        /\ (ui'.open <=> ui.open) /\ (ui'.awaits <=> ui.awaits) /\ (ui'.placed <=> ui.placed) /\ (ui'.up <=> ui.up)
        /\ ui'.touched /\ ~ ui'.stale
    BY <1>0, <2>3, <2>4, Zenon DEF ListPages
  <2>6. Len(shown) = 0 \/ ui'.active + 1 \in 1..Len(shown)
    BY <2>2, <2>5
  <2>7. ListOf(ui', server)
    BY <1>0, <1>1, <1>3, <2>5, <2>6 DEF ListOf
  <2> QED BY <2>3, <2>5, <2>7, ListChanges
<1>4. CASE ~ ui.open /\ ui.control # "states"
  <2>1. ui' = List!OpenList(ui) /\ UNCHANGED server
    BY <1>4 DEF List!Navigate, List!Show
  <2>2. ui' \in ListPages /\ ListOf(ui', server)
    BY <1>4, <2>1, ListOpens
  <2> QED BY <2>1, <2>2, ListChanges
<1>5. CASE ~ ui.open /\ ui.control = "states"
  <2>1. PICK a : a = IF k \in {"ArrowUp", "End"} THEN Len(shown) - 1 ELSE 0
    OBVIOUS
  <2>2. ui' = [ui EXCEPT !.open = TRUE, !.active = a, !.stale = FALSE] /\ UNCHANGED server
    BY <1>2, <1>5, <2>1 DEF List!Navigate, List!Show, List!OpenStates
  <2>3. /\ server.options = Elements(OptionsOf[ui.control]) /\ ui.query = NoSearch /\ ~ ui.placed
        /\ ui.control \notin List!Searched /\ ui.control \notin List!Placed
    BY <1>0, <1>5 DEF ListOf, List!Searched, List!Placed
  <2>4. shown = OptionsOf[ui.control] /\ DOMAIN shown = 1..Len(shown)
    BY <1>0, <1>1, <2>3, ListSome
  <2>5. Len(shown) >= 1
    <3>1. Elements(shown) # {}
      BY <1>0, <2>4
    <3> QED BY <1>2, <2>4, <3>1 DEF Elements
  <2>6. a + 1 \in 1..Len(shown) /\ a \in -1 .. List!Cardinality(List!AllOptions) - 1
    BY <1>2, <2>1, <2>5, ListCardinality
  <2>7. /\ ui' \in ListPages /\ ui'.control = ui.control /\ ui'.query = ui.query /\ ui'.active = a
        /\ ui'.open /\ (ui'.placed <=> ui.placed)
    BY <1>0, <2>2, <2>6, Zenon DEF ListPages
  <2>8. ui'.active + 1 \in 1..Len(shown)
    BY <2>6, <2>7
  <2>9. ListOf(ui', server)
    BY <1>0, <1>1, <1>5, <2>3, <2>7, <2>8 DEF ListOf
  <2> QED BY <2>2, <2>7, <2>9, ListChanges
<1> QED BY <1>3, <1>4, <1>5

LEMMA ListRenders ==
  ASSUME ListInv, List!AfterRender
  PROVE  ListInv'
<1>0. /\ ui \in ListPages /\ server \in ListOwners /\ ListOf(ui, server) /\ ui.control \in List!Controls
  BY ListKept
<1>1. PICK u : u = [ui EXCEPT !.awaits = FALSE, !.placed = ui.open]
  OBVIOUS
<1>2. /\ u \in ListPages /\ u.control = ui.control /\ u.query = ui.query /\ u.active = ui.active
      /\ (u.open <=> ui.open) /\ (u.placed <=> ui.open) /\ (u.touched <=> ui.touched) /\ (u.stale <=> ui.stale)
  BY <1>0, <1>1, Zenon DEF ListPages
<1>3. ui' = (IF ui.open /\ ui.control = "entity" THEN List!Geometry(u, server, List!Height(ui)) ELSE u) /\ UNCHANGED server
  BY <1>1 DEF List!AfterRender, List!Show
<1>4. CASE ui.open /\ ui.control = "entity"
  <2>1. ui' = List!Geometry(u, server, List!Height(ui)) /\ List!Height(ui) \in Nat
    BY <1>0, <1>3, <1>4, ListHeight
  <2>2. ListPlaced(u, ui', server)
    BY <1>0, <1>2, <2>1, ListGeometry
  <2>3. /\ ui' \in ListPages /\ ui'.control = ui.control /\ ui'.query = ui.query /\ ui'.active = ui.active
        /\ (ui'.open <=> ui.open) /\ (ui'.placed <=> ui.open) /\ (ui'.touched <=> ui.touched) /\ (ui'.stale <=> ui.stale)
        /\ ui'.room = (IF ui'.up THEN server.above ELSE server.below) /\ (ui'.up => server.above > server.below)
    BY <1>2, <2>2 DEF ListPlaced
  <2>4. ListOf(ui', server)
    BY <1>0, <1>4, <2>3 DEF ListOf
  <2> QED BY <1>3, <2>3, <2>4, ListChanges
<1>5. CASE ~ (ui.open /\ ui.control = "entity")
  <2>1. ui' = u /\ UNCHANGED server
    BY <1>3, <1>5
  <2>2. ListOf(u, server)
    BY <1>0, <1>2, <1>5 DEF ListOf
  <2> QED BY <1>2, <2>1, <2>2, ListChanges
<1> QED BY <1>4, <1>5

LEMMA ListMoves ==
  ASSUME ListInv, NEW above \in Spaces, NEW below \in Spaces, NEW heard \in BOOLEAN, List!PageMoves(above, below, heard)
  PROVE  ListInv'
<1>0. /\ ui \in ListPages /\ server \in ListOwners /\ ListOf(ui, server) /\ ui.control \in List!Controls
  BY ListKept
<1>1. PICK page : page = [server EXCEPT !.above = above, !.below = below]
  OBVIOUS
<1>2. page \in ListOwners /\ page.options = server.options /\ page.value = server.value
  BY <1>0, <1>1, Zenon DEF ListOwners
<1>3. PICK height : height = IF ui.placed THEN List!Height(ui) ELSE MaxHeight
  OBVIOUS
<1>4. height \in Nat
  BY <1>0, <1>3, ListHeight, ListAssumption
<1>5. /\ server' = page
      /\ ui' = IF ui.open /\ (heard \/ ui.placed) THEN List!Geometry(ui, page, height) ELSE ui
  BY <1>1, <1>3 DEF List!PageMoves
<1>6. CASE ui.open /\ (heard \/ ui.placed)
  <2>1. ListPlaced(ui, ui', page)
    BY <1>0, <1>2, <1>4, <1>5, <1>6, ListGeometry
  <2>2. /\ ui' \in ListPages /\ ui'.control = ui.control /\ ui'.query = ui.query /\ ui'.active = ui.active
        /\ (ui'.open <=> ui.open) /\ (ui'.awaits <=> ui.awaits) /\ (ui'.placed <=> ui.placed)
        /\ (ui'.touched <=> ui.touched) /\ (ui'.stale <=> ui.stale)
        /\ ui'.room = (IF ui'.up THEN page.above ELSE page.below) /\ (ui'.up => page.above > page.below)
    BY <2>1 DEF ListPlaced
  <2>3. ListOf(ui', page)
    BY <1>0, <1>2, <1>6, <2>2 DEF ListOf
  <2>4. List!TypeOK' /\ ListOf(ui', server')
    BY <1>2, <1>5, <2>2, <2>3 DEF List!TypeOK, ListPages, ListOwners
  <2> QED BY <2>4 DEF ListInv
<1>7. CASE ~ (ui.open /\ (heard \/ ui.placed))
  <2>1. ui' = ui
    BY <1>5, <1>7
  <2>2. ListOf(ui, page)
    BY <1>0, <1>2, <1>7 DEF ListOf
  <2>4. List!TypeOK' /\ ListOf(ui', server')
    BY <1>0, <1>2, <1>5, <2>1, <2>2 DEF List!TypeOK, ListPages, ListOwners
  <2> QED BY <2>4 DEF ListInv
<1> QED BY <1>6, <1>7

LEMMA ListGiven ==
  ASSUME ListInv, NEW o \in Elements(OptionsOf[ui.control]), NEW options \in SUBSET Elements(OptionsOf[ui.control]),
         List!OwnerGives(options, {o})
  PROVE  ListInv'
<1>0. /\ ui \in ListPages /\ server \in ListOwners /\ ListOf(ui, server) /\ ui.control \in List!Controls
  BY ListKept
<1>1. Elements(OptionsOf[ui.control]) \subseteq List!AllOptions
  BY <1>0, ListOptions
<1>2. server' = [server EXCEPT !.options = options, !.value = {o}] /\ ui' = [ui EXCEPT !.stale = ui.open]
  BY DEF List!OwnerGives
<1>3. ui.control # "states" /\ (ui.control = "language" => options = server.options)
  BY Zenon DEF List!OwnerGives
<1>4. server' \in ListOwners /\ server'.options = options /\ server'.value = {o} /\ server'.above = server.above /\ server'.below = server.below
  BY <1>0, <1>1, <1>2, Zenon DEF ListOwners
<1>5. /\ ui' \in ListPages /\ ui'.control = ui.control /\ ui'.query = ui.query /\ ui'.active = ui.active /\ ui'.room = ui.room
      /\ (ui'.open <=> ui.open) /\ (ui'.awaits <=> ui.awaits) /\ (ui'.placed <=> ui.placed) /\ (ui'.up <=> ui.up)
      /\ (ui'.touched <=> ui.touched) /\ (ui'.stale <=> ui.open)
  BY <1>0, <1>2 DEF ListPages
<1>6. ui.control \notin List!Searched => options = Elements(OptionsOf[ui.control]) /\ ui.query = NoSearch
  <2>1. ui.control \notin List!Searched => ui.control = "language"
    BY <1>0, <1>3, ListAssumption, Zenon DEF List!Searched
  <2> QED BY <1>0, <1>3, <2>1 DEF ListOf
<1>7. ListOf(ui', server')
  BY <1>0, <1>4, <1>5, <1>6 DEF ListOf
<1>8. List!TypeOK'
  BY <1>4, <1>5 DEF List!TypeOK, ListPages, ListOwners
<1> QED BY <1>7, <1>8 DEF ListInv

LEMMA ListNext == ListInv /\ (List!Next \/ UNCHANGED <<ui, server>>) => ListInv'
<1> SUFFICES ASSUME ListInv, List!Next \/ UNCHANGED <<ui, server>>
             PROVE  ListInv'
  OBVIOUS
<1>0. /\ ui \in ListPages /\ server \in ListOwners /\ ListOf(ui, server) /\ ui.control \in List!Controls /\ ui.active \in Int
  BY ListKept
<1>1. CASE List!ToggleList
  <2>1. CASE ui.open
    BY <1>1, <2>1, ListCloses DEF List!ToggleList, List!Show
  <2>2. CASE ~ ui.open
    <3>1. ui' = List!OpenList(ui) /\ UNCHANGED server
      BY <1>1, <2>2 DEF List!ToggleList, List!Show
    <3>2. ui' \in ListPages /\ ListOf(ui', server)
      BY <2>2, <3>1, ListOpens
    <3> QED BY <3>1, <3>2, ListChanges
  <2> QED BY <2>1, <2>2
<1>2. CASE List!Dismiss
  BY <1>2, ListCloses DEF List!Dismiss, List!Show
<1>3. CASE List!AfterRender
  BY <1>3, ListRenders
<1>4. CASE List!EnterLanguage
  <2>1. PICK i \in 1..2 : i = IF ui.active = 1 THEN 2 ELSE 1
    OBVIOUS
  <2>2. ui.control = "language" /\ ui' = List!CloseList(ui) /\ server' = [server EXCEPT !.value = {OptionsOf["language"][i]}]
    BY <1>4, <2>1 DEF List!EnterLanguage, List!Choose
  <2>3. DOMAIN OptionsOf["language"] = 1..2
    BY <1>0, <2>2, ListAssumption, ListOptions
  <2>4. OptionsOf["language"][i] \in Elements(OptionsOf[ui.control])
    BY <2>1, <2>2, <2>3 DEF Elements
  <2> QED BY <2>2, <2>4, ListCloses, Zenon
<1>5. CASE List!Enter
  <2>1. PICK o \in List!OptionAt(ui, ui.active) : List!Take(o)
    BY <1>5 DEF List!Enter
  <2>2. PICK shown : shown = List!VisibleValues(ui)
    OBVIOUS
  <2>3. ui.active + 1 \in 1..Len(shown) /\ o = shown[ui.active + 1]
    BY <1>0, <2>1, <2>2, ListAt
  <2>4. o \in Elements(OptionsOf[ui.control])
    BY <1>0, <2>2, <2>3, ListShows, ListWithin
  <2>5. ui.open
    BY <1>5 DEF List!Enter
  <2> QED BY <2>1, <2>4, <2>5, ListTakes
<1>6. ASSUME NEW q \in SearchFor \cup {NoSearch}, List!UpdateQuery(q)
      PROVE  ListInv'
  BY <1>6, ListSearches
<1>7. ASSUME NEW k \in List!NavigationKeys, List!Navigate(k)
      PROVE  ListInv'
  BY <1>7, ListNavigates
<1>8. ASSUME NEW above \in Spaces, NEW below \in Spaces, NEW heard \in BOOLEAN, List!PageMoves(above, below, heard)
      PROVE  ListInv'
  BY <1>8, ListMoves
<1>9. ASSUME NEW o \in List!Range(OptionsOf[ui.control]), List!Click(o)
      PROVE  ListInv'
  BY <1>9, ListTakes, ListElements DEF List!Click
<1>10. ASSUME NEW o \in List!Range(OptionsOf[ui.control]), NEW options \in SUBSET List!Range(OptionsOf[ui.control]),
              List!OwnerGives(options, {o})
       PROVE  ListInv'
  BY <1>10, ListGiven, ListElements
<1>11. CASE UNCHANGED <<ui, server>>
  <2>1. ui' = ui /\ UNCHANGED server
    BY <1>11
  <2> QED BY <1>0, <2>1, ListChanges
<1> QED BY <1>1, <1>2, <1>3, <1>4, <1>5, <1>6, <1>7, <1>8, <1>9, <1>10, <1>11, Zenon DEF List!Next

--------------------------------------------------------------------------------
(* The editor of events *)

\* What the forms of the editor satisfy: no amount is zero, and only shopping
\* lists, which are never empty, have lines.
EventFormOk(type, f) ==
  /\ Event!IsForm(f)
  /\ f.amount # None => f.amount.minor > 0
  /\ f.sourceAmount # None => f.sourceAmount.minor > 0
  /\ f.destinationAmount # None => f.destinationAmount.minor > 0
  /\ f.feeAmount # None => f.feeAmount.minor > 0
  /\ \A n \in DOMAIN f.lines : f.lines[n].amount # None => f.lines[n].amount.minor > 0
  /\ type = "SHOPPING_LIST" <=> DOMAIN f.lines # {}

\* The form g shows, and sends, what f does, but for the time.
EventLike(type, f, g) ==
  LET parsed(h, t, a) == Event!ParseAmount(h[t], h[a]) IN
  /\ type = "TRANSACTION" =>
       /\ g.account = f.account /\ g.category = f.category /\ (g.income <=> f.income)
       /\ parsed(g, "amount", "account") = parsed(f, "amount", "account")
       /\ ~ f.income => (g.feeEnabled <=> f.feeEnabled)
       /\ ~ f.income /\ f.feeEnabled =>
            /\ g.feeCategory = f.feeCategory
            /\ parsed(g, "feeAmount", "account") = parsed(f, "feeAmount", "account")
  /\ type = "SHOPPING_LIST" =>
       /\ g.account = f.account /\ DOMAIN g.lines = DOMAIN f.lines
       /\ \A n \in DOMAIN f.lines :
            /\ g.lines[n].category = f.lines[n].category /\ g.lines[n].quantity = f.lines[n].quantity
            /\ Event!ParseAmount(g.lines[n].amount, f.account) = Event!ParseAmount(f.lines[n].amount, f.account)
  /\ type = "ACCOUNT_TRANSFER" =>
       /\ g.source = f.source /\ g.destination = f.destination /\ g.category = f.category
       /\ parsed(g, "sourceAmount", "source") = parsed(f, "sourceAmount", "source")
       /\ ~ Event!SameTransferCurrency(f) =>
            parsed(g, "destinationAmount", "destination") = parsed(f, "destinationAmount", "destination")
       /\ g.feeEnabled <=> f.feeEnabled
       /\ f.feeEnabled => /\ g.feeCategory = f.feeCategory
                          /\ parsed(g, "feeAmount", "destination") = parsed(f, "feeAmount", "destination")

LEMMA EventNumbers ==
  /\ MaxSafe \in Nat /\ Typed \subseteq Nat /\ MaxLines \in Nat /\ MaxLines >= 2 /\ MaxEdits \in Nat /\ MaxEvents \in Nat \ {0}
  /\ \A a \in Event!AllAccounts : Event!Places(a) \in Nat
<1>1. \A a \in Event!AllAccounts : Event!Places(a) \in 0..20
  BY DecimalsAssumption, Zenon
<1>2. /\ MaxSafe \in Nat /\ Typed \subseteq Nat /\ MaxLines \in Nat /\ MaxLines >= 2
      /\ MaxEdits \in Nat /\ MaxEvents \in Nat \ {0}
  BY EventAssumption, Zenon
<1>3. \A n \in 0..20 : n \in Nat
  OBVIOUS
<1> QED BY <1>1, <1>2, <1>3, Zenon

LEMMA EventNone ==
  /\ None \notin Nat /\ None \notin [minor: Nat, places: Nat]
  /\ \A D, E \in SUBSET Event!Numbers : None \notin [D -> Event!Movement] /\ None \notin Event!Asked(D, E)
BY NoneAssumption

LEMMA EventPowers ==
  ASSUME NEW a \in Event!AllAccounts, NEW k \in 0..Event!Places(a)
  PROVE  10^k \in Nat \ {0}
BY DecimalsAssumption

LEMMA EventParses ==
  ASSUME NEW a \in Event!AllAccounts, NEW t \in Event!Text
  PROVE  /\ Event!ParseAmount(t, a) = None \/ Event!ParseAmount(t, a) \in 0..MaxSafe
         /\ t = None => Event!ParseAmount(t, a) = None
         /\ t # None /\ t.minor > 0 => Event!ParseAmount(t, a) = None \/ Event!ParseAmount(t, a) > 0
<1>1. CASE t = None
  BY <1>1 DEF Event!ParseAmount
<1>2. CASE t # None /\ t.places > Event!Places(a)
  BY <1>2 DEF Event!ParseAmount
<1>3. CASE t # None /\ ~ (t.places > Event!Places(a))
  <2>1. Event!Places(a) \in Nat /\ t.places \in Nat /\ t.minor \in Nat /\ MaxSafe \in Nat
    BY <1>3, EventNumbers DEF Event!Text
  <2>2. Event!Places(a) - t.places \in 0..Event!Places(a)
    BY <1>3, <2>1
  <2>3. PICK p : p = 10^(Event!Places(a) - t.places)
    OBVIOUS
  <2>4. p \in Nat \ {0}
    BY <2>2, <2>3, EventPowers
  <2>5. PICK v : v = t.minor * p
    OBVIOUS
  <2>6. v \in Nat /\ (t.minor > 0 => v > 0)
    BY <2>1, <2>4, <2>5
  <2>7. Event!ParseAmount(t, a) = IF v > MaxSafe THEN None ELSE v
    BY <1>3, <2>3, <2>5 DEF Event!ParseAmount
  <2> QED BY <1>3, <2>1, <2>6, <2>7
<1> QED BY <1>1, <1>2, <1>3

LEMMA EventAmount ==
  ASSUME NEW a \in Event!AllAccounts, NEW v \in Int
  PROVE  /\ Event!AmountInput(v, a) \in Event!Text /\ Event!AmountInput(v, a) # None
         /\ Event!AmountInput(v, a).minor = IF v < 0 THEN -v ELSE v
         /\ v # 0 => Event!AmountInput(v, a).minor > 0
         /\ v \in 0..MaxSafe => Event!ParseAmount(Event!AmountInput(v, a), a) = v
         /\ -v \in 0..MaxSafe => Event!ParseAmount(Event!AmountInput(v, a), a) = -v
<1>1. PICK t : t = Event!AmountInput(v, a)
  OBVIOUS
<1>2. PICK u \in Nat : u = IF v < 0 THEN -v ELSE v
  OBVIOUS
<1>3. Event!Places(a) \in Nat /\ MaxSafe \in Nat
  BY EventNumbers
<1>4. t = [minor |-> u, places |-> Event!Places(a)]
  BY <1>1, <1>2 DEF Event!AmountInput
<1>5. t \in [minor: Nat, places: Nat] /\ t.minor = u /\ t.places = Event!Places(a)
  BY <1>3, <1>4
<1>9. t \in Event!Text /\ t # None
  BY <1>5, EventNone DEF Event!Text
<1>6. ~ (t.places > Event!Places(a)) /\ Event!Places(a) - t.places = 0
  BY <1>3, <1>5
<1>7. 10^(Event!Places(a) - t.places) = 1
  <2>1. 10^0 = 1
    OBVIOUS
  <2> QED BY <1>6, <2>1, Zenon
<1>8. u \in 0..MaxSafe => Event!ParseAmount(t, a) = u
  BY <1>3, <1>5, <1>9, <1>6, <1>7 DEF Event!ParseAmount
<1> QED BY <1>1, <1>2, <1>3, <1>5, <1>9, <1>8

\* What the user types is an amount that is not zero, or none.
LEMMA EventTyped ==
  ASSUME NEW a \in Event!AllAccounts, NEW minor \in Typed
  PROVE  /\ Event!Input(minor, a) \in Event!Text
         /\ Event!Input(minor, a) # None => Event!Input(minor, a).minor > 0
<1>1. minor \in Nat
  BY EventNumbers
<1> QED BY <1>1, EventAmount DEF Event!Input, Event!Text

LEMMA EventAddresses ==
  /\ Accounts[1] \in Event!AllAccounts /\ Accounts[2] \in Event!AllAccounts /\ Categories[1] \in Event!AllCategories
  /\ 1 \in Quantities
<1>1. 1 \in DOMAIN Accounts /\ 2 \in DOMAIN Accounts /\ 1 \in DOMAIN Categories
  BY EventAssumption
<1> QED BY <1>1, EventAssumption DEF Event!AllAccounts, Event!AllCategories, Event!Range

\* The fields of a form.
LEMMA EventFields ==
  ASSUME NEW f, Event!IsForm(f)
  PROVE  /\ f.time \in Labels /\ f.account \in Event!AllAccounts /\ f.category \in Event!AllCategories
         /\ f.amount \in Event!Text /\ f.income \in BOOLEAN /\ f.source \in Event!AllAccounts
         /\ f.destination \in Event!AllAccounts /\ f.sourceAmount \in Event!Text /\ f.destinationAmount \in Event!Text
         /\ f.feeEnabled \in BOOLEAN /\ f.feeAmount \in Event!Text /\ f.feeCategory \in Event!AllCategories
         /\ f.lines \in [DOMAIN f.lines -> Event!Line] /\ DOMAIN f.lines \subseteq Event!Numbers
BY DEF Event!IsForm, Event!IsNumbered

LEMMA EventRows ==
  ASSUME NEW f, Event!IsForm(f), NEW n \in DOMAIN f.lines
  PROVE  /\ f.lines[n].category \in Event!AllCategories /\ f.lines[n].quantity \in Quantities
         /\ f.lines[n].amount \in Event!Text /\ f.lines[n] \in Event!Line
<1>1. f.lines[n] \in Event!Line
  BY EventFields
<1> QED BY <1>1 DEF Event!Line

LEMMA EventCardinality == \A S : Event!Cardinality(S) = Cardinality(S)
BY DEF Event!Cardinality, Cardinality

LEMMA EventMovement ==
  ASSUME NEW e, Event!IsEvent(e), NEW n \in DOMAIN e.movements
  PROVE  /\ e.movements[n].account \in Event!AllAccounts /\ e.movements[n].category \in Event!AllCategories
         /\ e.movements[n].value \in Int /\ e.movements[n].quantity \in Quantities /\ e.movements[n].fee \in BOOLEAN
<1>1. e.movements[n] \in Event!Movement
  BY DEF Event!IsEvent, Event!IsMovements, Event!IsNumbered
<1> QED BY <1>1 DEF Event!Movement

LEMMA EventMain ==
  ASSUME NEW e, Event!IsEvent(e), NEW m \in Event!Mains(e) \cup Event!Fees(e)
  PROVE  /\ m.account \in Event!AllAccounts /\ m.category \in Event!AllCategories /\ m.value \in Int
         /\ m.quantity \in Quantities /\ \E n \in DOMAIN e.movements : m = e.movements[n]
<1>1. PICK n \in DOMAIN e.movements : m = e.movements[n]
  BY Zenon DEF Event!Mains, Event!Fees
<1> QED BY <1>1, EventMovement

\* The record of a form.
EventRecord(f, lines) ==
  f \in [time: Labels, account: Event!AllAccounts, category: Event!AllCategories, amount: Event!Text,
         income: BOOLEAN, source: Event!AllAccounts, destination: Event!AllAccounts, sourceAmount: Event!Text,
         destinationAmount: Event!Text, feeEnabled: BOOLEAN, feeAmount: Event!Text,
         feeCategory: Event!AllCategories, lines: {lines}]

LEMMA EventBlank ==
  ASSUME NEW l \in Labels
  PROVE  /\ Event!IsForm(Event!Blank(l)) /\ DOMAIN Event!Blank(l).lines = {}
         /\ Event!Blank(l).amount = None /\ Event!Blank(l).feeAmount = None /\ Event!Blank(l).sourceAmount = None /\ Event!Blank(l).destinationAmount = None
         /\ Event!Blank(l).time = l /\ ~ Event!Blank(l).income /\ ~ Event!Blank(l).feeEnabled
<1>1. PICK f : f = Event!Blank(l)
  OBVIOUS
<1>2. /\ f.time = l /\ f.amount = None /\ f.feeAmount = None /\ f.sourceAmount = None /\ f.destinationAmount = None /\ f.lines = <<>>
      /\ f.income = FALSE /\ f.feeEnabled = FALSE
  BY <1>1 DEF Event!Blank
<1>3. None \in Event!Text
  BY DEF Event!Text
<1>4. EventRecord(f, f.lines)
  BY <1>1, <1>3, EventAddresses DEF Event!Blank, EventRecord
<1>5. DOMAIN f.lines = {} /\ f.lines \in [DOMAIN f.lines -> Event!Line]
  <2>1. \A s : s = <<>> => DOMAIN s = {} /\ s \in [DOMAIN s -> Event!Line]
    OBVIOUS
  <2> QED BY <1>2, <2>1
<1>6. Event!IsForm(f)
  BY <1>4, <1>5 DEF Event!IsForm, Event!IsNumbered, EventRecord
<1> QED BY <1>1, <1>2, <1>5, <1>6

\* WithFee fills the fields of the fee, and them only.
LEMMA EventWithFee ==
  ASSUME NEW e, Event!IsEvent(e), NEW f, Event!IsForm(f), NEW g, g = Event!WithFee(f, e)
  PROVE  /\ Event!IsForm(g)
         /\ g.time = f.time /\ g.account = f.account /\ g.category = f.category /\ g.amount = f.amount
         /\ (g.income <=> f.income) /\ g.source = f.source /\ g.destination = f.destination
         /\ g.sourceAmount = f.sourceAmount /\ g.destinationAmount = f.destinationAmount /\ g.lines = f.lines
         /\ Event!Fees(e) = {} => (g.feeEnabled <=> f.feeEnabled) /\ g.feeAmount = f.feeAmount
         /\ Event!Fees(e) # {} =>
              /\ g.feeEnabled
              /\ \E fee \in Event!Fees(e) :
                   g.feeCategory = fee.category /\ g.feeAmount = Event!AmountInput(fee.value, fee.account)
<1>1. CASE Event!Fees(e) = {}
  BY <1>1 DEF Event!WithFee
<1>2. CASE Event!Fees(e) # {}
  <2>1. PICK fee \in Event!Fees(e) : fee = CHOOSE m \in Event!Fees(e) : TRUE
    BY <1>2, Zenon
  <2>2. PICK t : t = Event!AmountInput(fee.value, fee.account)
    OBVIOUS
  <2>3. t \in Event!Text /\ fee.category \in Event!AllCategories
    BY <2>2, EventMain, EventAmount
  <2>4. g = [f EXCEPT !.feeEnabled = TRUE, !.feeCategory = fee.category, !.feeAmount = t]
    BY <1>2, <2>1, <2>2 DEF Event!WithFee
  <2>5. EventRecord(f, f.lines)
    BY DEF Event!IsForm, EventRecord
  <2>6. /\ g.time = f.time /\ g.account = f.account /\ g.category = f.category /\ g.amount = f.amount
        /\ g.income = f.income /\ g.source = f.source /\ g.destination = f.destination
        /\ g.sourceAmount = f.sourceAmount /\ g.destinationAmount = f.destinationAmount /\ g.lines = f.lines
        /\ g.feeEnabled = TRUE /\ g.feeCategory = fee.category /\ g.feeAmount = t
    BY <2>4, <2>5 DEF EventRecord
  <2>7. EventRecord(g, g.lines)
    BY <2>3, <2>4, <2>5 DEF EventRecord
  <2>8. Event!IsForm(g)
    BY <2>6, <2>7 DEF Event!IsForm, EventRecord
  <2> QED BY <1>2, <2>1, <2>2, <2>6, <2>8, Zenon
<1> QED BY <1>1, <1>2

\* The form g of the event e has its fee.
EventHasFee(e, g) ==
  /\ Event!Fees(e) = {} => ~ g.feeEnabled /\ g.feeAmount = None
  /\ Event!Fees(e) # {} =>
       /\ g.feeEnabled
       /\ \E fee \in Event!Fees(e) : g.feeCategory = fee.category /\ g.feeAmount = Event!AmountInput(fee.value, fee.account)

LEMMA EventLabel ==
  ASSUME NEW e, Event!IsEvent(e)
  PROVE  e.time \in Instants /\ LocalTime[e.time] \in Labels /\ e.type \in Event!Types
<1>1. e.time \in Instants /\ e.type \in Event!Types
  BY DEF Event!IsEvent
<1>2. LocalTime \in [Instants -> Labels]
  BY EventAssumption, Zenon
<1> QED BY <1>1, <1>2

LEMMA EventTransactionForm ==
  ASSUME NEW e, Event!IsEvent(e), Event!Mains(e) # {}, e.type = "TRANSACTION", NEW g, g = Event!FormOf(e)
  PROVE  /\ Event!IsForm(g) /\ g.time = LocalTime[e.time] /\ DOMAIN g.lines = {}
         /\ g.sourceAmount = None /\ g.destinationAmount = None /\ EventHasFee(e, g)
         /\ \E m \in Event!Mains(e) :
              /\ g.account = m.account /\ g.category = m.category /\ g.amount = Event!AmountInput(m.value, m.account)
              /\ g.income <=> m.value > 0
<1>1. PICK b : b = Event!Blank(LocalTime[e.time])
  OBVIOUS
<1>2. /\ Event!IsForm(b) /\ DOMAIN b.lines = {} /\ b.sourceAmount = None /\ b.destinationAmount = None
      /\ b.time = LocalTime[e.time] /\ ~ b.feeEnabled /\ b.feeAmount = None
  BY <1>1, EventBlank, EventLabel
<1>3. PICK m \in Event!Mains(e) : m = CHOOSE n \in Event!Mains(e) : TRUE
  BY Zenon
<1>4. m.account \in Event!AllAccounts /\ m.category \in Event!AllCategories /\ m.value \in Int
  BY EventMain
<1>5. PICK t : t = Event!AmountInput(m.value, m.account)
  OBVIOUS
<1>6. t \in Event!Text
  BY <1>4, <1>5, EventAmount
<1>12. PICK income \in BOOLEAN : income = (m.value > 0)
  <2>1. (m.value > 0) \in BOOLEAN
    OBVIOUS
  <2> QED BY <2>1, Zenon
<1>7. PICK f : f = [b EXCEPT !.account = m.account, !.category = m.category, !.amount = t, !.income = income]
  OBVIOUS
<1>8. g = Event!WithFee(f, e)
  <2>1. g = Event!TransactionForm(b, e)
    BY <1>1 DEF Event!FormOf
  <2> QED BY <2>1, <1>3, <1>5, <1>7, <1>12 DEF Event!TransactionForm
<1>13. EventRecord(b, b.lines)
  BY <1>2 DEF Event!IsForm, EventRecord
<1>9. /\ f.lines = b.lines /\ f.time = b.time /\ f.sourceAmount = b.sourceAmount
      /\ f.destinationAmount = b.destinationAmount /\ (f.feeEnabled <=> b.feeEnabled) /\ f.feeAmount = b.feeAmount /\ f.account = m.account
      /\ f.category = m.category /\ f.amount = t /\ f.income = income
  BY <1>7, <1>13 DEF EventRecord
<1>14. Event!IsForm(f)
  <2>1. EventRecord(f, f.lines)
    BY <1>4, <1>6, <1>7, <1>13, Zenon DEF EventRecord
  <2> QED BY <1>2, <1>9, <2>1 DEF Event!IsForm, EventRecord
<1>10. EventHasFee(e, g)
  BY <1>2, <1>8, <1>9, <1>14, EventWithFee DEF EventHasFee
<1>11. /\ Event!IsForm(g) /\ g.lines = f.lines /\ g.time = f.time /\ g.sourceAmount = f.sourceAmount
       /\ g.destinationAmount = f.destinationAmount /\ g.account = f.account
       /\ g.category = f.category /\ g.amount = f.amount /\ (g.income <=> f.income)
  BY <1>8, <1>9, <1>14, EventWithFee
<1> QED BY <1>2, <1>5, <1>9, <1>10, <1>11, <1>12

LEMMA EventTransferForm ==
  ASSUME NEW e, Event!IsEvent(e), Event!Valid(e), e.type = "ACCOUNT_TRANSFER", NEW g, g = Event!FormOf(e)
  PROVE  /\ Event!IsForm(g) /\ g.time = LocalTime[e.time] /\ DOMAIN g.lines = {}
         /\ g.amount = None /\ ~ g.income /\ EventHasFee(e, g)
         /\ \E to, from \in Event!Mains(e) :
              /\ to.value > 0 /\ from.value < 0 /\ from.account # to.account
              /\ g.source = from.account /\ g.destination = to.account /\ g.category = from.category
              /\ g.sourceAmount = Event!AmountInput(from.value, from.account)
              /\ g.destinationAmount = Event!AmountInput(to.value, to.account)
<1>1. PICK b : b = Event!Blank(LocalTime[e.time])
  OBVIOUS
<1>2. /\ Event!IsForm(b) /\ DOMAIN b.lines = {} /\ b.amount = None /\ b.time = LocalTime[e.time]
      /\ ~ b.income /\ ~ b.feeEnabled /\ b.feeAmount = None
  BY <1>1, EventBlank, EventLabel
<1>3. PICK to \in Event!Mains(e) : to = (CHOOSE n \in Event!Mains(e) : n.value > 0) /\ to.value > 0
  <2>1. \E n \in Event!Mains(e) : n.value > 0
    BY DEF Event!Valid
  <2> QED BY <2>1, Zenon
<1>4. PICK from \in Event!Mains(e) :
        /\ from = CHOOSE n \in Event!Mains(e) : n.value < 0 /\ n.account # to.account
        /\ from.value < 0 /\ from.account # to.account
  <2>1. \E n \in Event!Mains(e) : n.value < 0 /\ n.account # to.account
    BY <1>3 DEF Event!Valid
  <2> QED BY <2>1, Zenon
<1>5. /\ to.account \in Event!AllAccounts /\ from.account \in Event!AllAccounts /\ from.category \in Event!AllCategories
      /\ to.value \in Int /\ from.value \in Int
  BY EventMain
<1>6. PICK s : s = Event!AmountInput(from.value, from.account)
  OBVIOUS
<1>7. PICK d : d = Event!AmountInput(to.value, to.account)
  OBVIOUS
<1>8. s \in Event!Text /\ d \in Event!Text
  BY <1>5, <1>6, <1>7, EventAmount
<1>9. PICK f : f = [b EXCEPT !.source = from.account, !.destination = to.account, !.category = from.category,
                             !.sourceAmount = s, !.destinationAmount = d]
  OBVIOUS
<1>10. g = Event!WithFee(f, e)
  <2>1. g = Event!TransferForm(b, e)
    BY <1>1 DEF Event!FormOf
  <2> QED BY <2>1, <1>3, <1>4, <1>6, <1>7, <1>9, Zenon DEF Event!TransferForm
<1>14. EventRecord(b, b.lines)
  BY <1>2 DEF Event!IsForm, EventRecord
<1>11. /\ f.lines = b.lines /\ f.time = b.time /\ f.amount = b.amount /\ (f.income <=> b.income)
       /\ (f.feeEnabled <=> b.feeEnabled) /\ f.feeAmount = b.feeAmount /\ f.source = from.account /\ f.destination = to.account
       /\ f.category = from.category /\ f.sourceAmount = s /\ f.destinationAmount = d
  BY <1>9, <1>14 DEF EventRecord
<1>15. Event!IsForm(f)
  <2>1. EventRecord(f, f.lines)
    BY <1>5, <1>8, <1>9, <1>14, Zenon DEF EventRecord
  <2> QED BY <1>2, <1>11, <2>1 DEF Event!IsForm, EventRecord
<1>12. EventHasFee(e, g)
  BY <1>2, <1>10, <1>11, <1>15, EventWithFee DEF EventHasFee
<1>13. /\ Event!IsForm(g) /\ g.lines = f.lines /\ g.time = f.time /\ g.amount = f.amount /\ (g.income <=> f.income)
       /\ g.source = f.source /\ g.destination = f.destination /\ g.category = f.category
       /\ g.sourceAmount = f.sourceAmount /\ g.destinationAmount = f.destinationAmount
  BY <1>10, <1>11, <1>15, EventWithFee
<1> QED BY <1>2, <1>3, <1>4, <1>6, <1>7, <1>11, <1>12, <1>13, ZenonT(40)

LEMMA EventListForm ==
  ASSUME NEW e, Event!IsEvent(e), Event!Mains(e) # {}, e.type = "SHOPPING_LIST", NEW g, g = Event!FormOf(e)
  PROVE  /\ Event!IsForm(g) /\ g.time = LocalTime[e.time] /\ DOMAIN g.lines = DOMAIN e.movements
         /\ g.amount = None /\ g.sourceAmount = None /\ g.destinationAmount = None /\ ~ g.income /\ ~ g.feeEnabled /\ g.feeAmount = None
         /\ \E m \in Event!Mains(e) : g.account = m.account
         /\ \A n \in DOMAIN e.movements :
              /\ g.lines[n].category = e.movements[n].category /\ g.lines[n].quantity = e.movements[n].quantity
              /\ g.lines[n].amount = Event!AmountInput(e.movements[n].value, e.movements[n].account)
<1>1. PICK b : b = Event!Blank(LocalTime[e.time])
  OBVIOUS
<1>2. /\ Event!IsForm(b) /\ b.amount = None /\ b.sourceAmount = None /\ b.destinationAmount = None
      /\ b.time = LocalTime[e.time] /\ ~ b.income /\ ~ b.feeEnabled /\ b.feeAmount = None
  BY <1>1, EventBlank, EventLabel
<1>3. PICK m \in Event!Mains(e) : m = CHOOSE n \in Event!Mains(e) : TRUE
  BY Zenon
<1>4. m.account \in Event!AllAccounts
  BY EventMain
<1>5. PICK D : D = DOMAIN e.movements
  OBVIOUS
<1>6. PICK rows : rows = [n \in D |-> [category |-> e.movements[n].category, quantity |-> e.movements[n].quantity,
                               amount |-> Event!AmountInput(e.movements[n].value, e.movements[n].account)]]
  OBVIOUS
<1>7. D \subseteq Event!Numbers
  BY <1>5 DEF Event!IsEvent, Event!IsMovements, Event!IsNumbered
<1>8. ASSUME NEW n \in D
      PROVE  /\ rows[n] \in Event!Line
             /\ rows[n].category = e.movements[n].category /\ rows[n].quantity = e.movements[n].quantity
             /\ rows[n].amount = Event!AmountInput(e.movements[n].value, e.movements[n].account)
  <2>1. PICK t : t = Event!AmountInput(e.movements[n].value, e.movements[n].account)
    OBVIOUS
  <2>2. t \in Event!Text /\ e.movements[n].category \in Event!AllCategories /\ e.movements[n].quantity \in Quantities
    BY <1>5, <2>1, EventMovement, EventAmount
  <2>3. rows[n] = [category |-> e.movements[n].category, quantity |-> e.movements[n].quantity, amount |-> t]
    BY <1>6, <2>1
  <2> QED BY <2>1, <2>2, <2>3 DEF Event!Line
<1>9. rows \in [D -> Event!Line]
  BY <1>6, <1>8
<1>10. g = [b EXCEPT !.account = m.account, !.lines = rows]
  <2>1. g = Event!ShoppingListForm(b, e)
    BY <1>1 DEF Event!FormOf
  <2> QED BY <2>1, <1>3, <1>5, <1>6 DEF Event!ShoppingListForm
<1>12. DOMAIN rows = D
  BY <1>6
<1>13. EventRecord(b, b.lines)
  BY <1>2 DEF Event!IsForm, EventRecord
<1>11. /\ g.lines = rows /\ g.time = b.time /\ g.amount = b.amount /\ (g.income <=> b.income)
       /\ g.sourceAmount = b.sourceAmount /\ g.destinationAmount = b.destinationAmount
       /\ (g.feeEnabled <=> b.feeEnabled) /\ g.feeAmount = b.feeAmount /\ g.account = m.account
  BY <1>10, <1>13 DEF EventRecord
<1>14. Event!IsForm(g)
  <2>1. EventRecord(g, g.lines)
    BY <1>4, <1>10, <1>13, Zenon DEF EventRecord
  <2> QED BY <1>7, <1>9, <1>11, <1>12, <2>1 DEF Event!IsForm, Event!IsNumbered, EventRecord
<1> QED BY <1>2, <1>5, <1>8, <1>11, <1>12, <1>14

LEMMA EventParts ==
  ASSUME NEW e, NEW m
  PROVE  /\ m \in Event!Mains(e) <=> \E n \in DOMAIN e.movements : m = e.movements[n] /\ ~ m.fee
         /\ m \in Event!Fees(e) <=> \E n \in DOMAIN e.movements : m = e.movements[n] /\ m.fee
BY Zenon DEF Event!Mains, Event!Fees

LEMMA EventFeeIsNot ==
  ASSUME NEW e, Event!IsEvent(e), \A n \in DOMAIN e.movements : e.movements[n].value # 0, NEW g, EventHasFee(e, g)
  PROVE  g.feeAmount # None => g.feeAmount.minor > 0
<1>1. CASE Event!Fees(e) = {}
  BY <1>1 DEF EventHasFee
<1>2. CASE Event!Fees(e) # {}
  <2>1. PICK fee \in Event!Fees(e) : g.feeAmount = Event!AmountInput(fee.value, fee.account)
    BY <1>2 DEF EventHasFee
  <2>2. fee.value # 0
    BY EventMain
  <2> QED BY <2>1, <2>2, EventMain, EventAmount
<1> QED BY <1>1, <1>2

\* An event that is opened has a form that the editor can have.
LEMMA EventReopens ==
  ASSUME NEW e, Event!IsEvent(e), Event!Valid(e)
  PROVE  EventFormOk(e.type, Event!FormOf(e)) /\ Event!FormOf(e).time = LocalTime[e.time]
<1>1. PICK g : g = Event!FormOf(e)
  OBVIOUS
<1>2. Event!Mains(e) # {} /\ (\A n \in DOMAIN e.movements : e.movements[n].value # 0) /\ e.type \in Event!Types
  BY EventLabel DEF Event!Valid
<1>3. CASE e.type = "TRANSACTION"
  <2>1. /\ Event!IsForm(g) /\ g.time = LocalTime[e.time] /\ DOMAIN g.lines = {}
        /\ g.sourceAmount = None /\ g.destinationAmount = None
    BY <1>1, <1>2, <1>3, EventTransactionForm
  <2>2. PICK m \in Event!Mains(e) : g.amount = Event!AmountInput(m.value, m.account)
    BY <1>1, <1>2, <1>3, EventTransactionForm
  <2>3. g.amount.minor > 0
    <3>1. m.value # 0
      BY <1>2, EventMain
    <3> QED BY <2>2, <3>1, EventMain, EventAmount
  <2>4. g.feeAmount # None => g.feeAmount.minor > 0
    BY <1>1, <1>2, <1>3, EventTransactionForm, EventFeeIsNot
  <2> QED BY <1>1, <1>3, <2>1, <2>3, <2>4 DEF EventFormOk
<1>4. CASE e.type = "ACCOUNT_TRANSFER"
  <2>1. Event!IsForm(g) /\ g.time = LocalTime[e.time] /\ DOMAIN g.lines = {} /\ g.amount = None
    BY <1>1, <1>4, EventTransferForm
  <2>2. PICK to, from \in Event!Mains(e) :
          /\ g.sourceAmount = Event!AmountInput(from.value, from.account)
          /\ g.destinationAmount = Event!AmountInput(to.value, to.account)
    BY <1>1, <1>4, EventTransferForm
  <2>3. g.sourceAmount.minor > 0 /\ g.destinationAmount.minor > 0
    <3>1. to.value # 0 /\ from.value # 0
      BY <1>2, EventMain
    <3> QED BY <2>2, <3>1, EventMain, EventAmount
  <2>4. g.feeAmount # None => g.feeAmount.minor > 0
    BY <1>1, <1>2, <1>4, EventTransferForm, EventFeeIsNot
  <2> QED BY <1>1, <1>4, <2>1, <2>3, <2>4 DEF EventFormOk
<1>5. CASE e.type = "SHOPPING_LIST"
  <2>1. /\ Event!IsForm(g) /\ g.time = LocalTime[e.time] /\ DOMAIN g.lines = DOMAIN e.movements
        /\ g.amount = None /\ g.sourceAmount = None /\ g.destinationAmount = None /\ g.feeAmount = None
    BY <1>1, <1>2, <1>5, EventListForm
  <2>2. \A n \in DOMAIN e.movements : g.lines[n].amount = Event!AmountInput(e.movements[n].value, e.movements[n].account)
    BY <1>1, <1>2, <1>5, EventListForm
  <2>3. ASSUME NEW n \in DOMAIN g.lines, g.lines[n].amount # None
        PROVE  g.lines[n].amount.minor > 0
    <3>1. e.movements[n].value # 0 /\ e.movements[n].value \in Int /\ e.movements[n].account \in Event!AllAccounts
      BY <1>2, <2>1, EventMovement
    <3> QED BY <2>1, <2>2, <3>1, EventAmount
  <2>4. DOMAIN e.movements # {}
    BY <1>2, EventParts
  <2> QED BY <1>1, <1>5, <2>1, <2>3, <2>4 DEF EventFormOk
<1> QED BY <1>2, <1>3, <1>4, <1>5 DEF Event!Types

LEMMA EventRowsOf ==
  ASSUME NEW a, NEW b
  PROVE  /\ DOMAIN <<a>> = {1} /\ <<a>>[1] = a
         /\ \A t : t = Append(<<a>>, b) => DOMAIN t = {1, 2} /\ t[1] = a /\ t[2] = b
OBVIOUS

LEMMA EventRowsOfThree ==
  ASSUME NEW a, NEW b, NEW c, NEW t, t = Append(<<a, b>>, c)
  PROVE  DOMAIN t = {1, 2, 3} /\ t[1] = a /\ t[2] = b /\ t[3] = c
<1>1. <<a, b>> \in Seq({a, b}) /\ Len(<<a, b>>) = 2 /\ <<a, b>>[1] = a /\ <<a, b>>[2] = b
  OBVIOUS
<1>2. PICK s \in Seq({a, b}) : s = <<a, b>> /\ Len(s) = 2 /\ s[1] = a /\ s[2] = b
  BY <1>1, Zenon
<1>3. s \in Seq({a, b, c}) /\ c \in {a, b, c}
  OBVIOUS
<1>4. t \in Seq({a, b, c}) /\ Len(t) = 3 /\ t[1] = s[1] /\ t[2] = s[2] /\ t[3] = c
  BY <1>2, <1>3
<1> QED BY <1>2, <1>4

\* The amounts of the event e are those that the fields of the form f show.
EventSays(type, f, e) ==
  \A n \in DOMAIN e.movements :
    LET amount == Event!AmountInput(e.movements[n].value, e.movements[n].account).minor IN
    /\ type = "TRANSACTION" =>
         \/ amount = Event!ParseAmount(f.amount, f.account)
         \/ ~ f.income /\ f.feeEnabled /\ amount = Event!ParseAmount(f.feeAmount, f.account)
    /\ type = "SHOPPING_LIST" => n \in DOMAIN f.lines /\ amount = Event!ParseAmount(f.lines[n].amount, f.account)
    /\ type = "ACCOUNT_TRANSFER" =>
         \/ amount = Event!ParseAmount(f.sourceAmount, f.source)
         \/ ~ Event!SameTransferCurrency(f) /\ amount = Event!ParseAmount(f.destinationAmount, f.destination)
         \/ f.feeEnabled /\ amount = Event!ParseAmount(f.feeAmount, f.destination)

LEMMA EventTransactionBack ==
  ASSUME NEW f, EventFormOk("TRANSACTION", f), NEW e, e.type = "TRANSACTION", e.movements = Event!TransactionPayload(f),
         e.movements # None, e \in [type: Event!Types, time: Instants, movements: {e.movements}, api: BOOLEAN]
  PROVE  /\ Event!IsEvent(e) /\ Event!Valid(e) /\ EventLike("TRANSACTION", f, Event!FormOf(e))
         /\ EventSays("TRANSACTION", f, e)
<1>1. /\ f.account \in Event!AllAccounts /\ f.category \in Event!AllCategories /\ f.feeCategory \in Event!AllCategories
      /\ f.income \in BOOLEAN /\ f.feeEnabled \in BOOLEAN
  BY EventFields DEF EventFormOk
<1>2. PICK ms : ms = e.movements
  OBVIOUS
<1>3. PICK v : v = Event!ParseAmount(f.amount, f.account)
  OBVIOUS
<1>4. PICK w : w = Event!ParseAmount(f.feeAmount, f.account)
  OBVIOUS
<1>5. PICK x : x = IF f.income THEN v ELSE -v
  OBVIOUS
<1>6. PICK main : main = Event!Entry(f.account, f.category, x, 1, FALSE)
  OBVIOUS
<1>7. PICK fee : fee = Event!Entry(f.account, f.feeCategory, -w, 1, TRUE)
  OBVIOUS
<1>8. /\ v \in 1..MaxSafe
      /\ ~ (~ f.income /\ f.feeEnabled) => ms = <<main>>
      /\ ~ f.income /\ f.feeEnabled => ms = Append(<<main>>, fee) /\ w \in 1..MaxSafe
  <2>1. Event!IsForm(f) /\ (f.amount # None => f.amount.minor > 0) /\ (f.feeAmount # None => f.feeAmount.minor > 0)
    BY DEF EventFormOk
  <2>2. f.account \in Event!AllAccounts /\ f.amount \in Event!Text /\ f.feeAmount \in Event!Text
    BY <2>1, EventFields
  <2>3. MaxSafe \in Nat
    BY EventNumbers
  <2>4. v = None \/ v \in 1..MaxSafe
    BY <1>3, <2>1, <2>2, <2>3, EventParses
  <2>5. w = None \/ w \in 1..MaxSafe
    BY <1>4, <2>1, <2>2, <2>3, EventParses
  <2>6. v # None /\ ~ (~ f.income /\ f.feeEnabled /\ w = None)
    BY <1>3, <1>4, Zenon DEF Event!TransactionPayload
  <2>7. ms = IF ~ f.income /\ f.feeEnabled THEN Event!AddFee(<<main>>, f, f.account) ELSE <<main>>
    BY <1>1, <1>2, <1>3, <1>4, <1>5, <1>6, <2>6 DEF Event!TransactionPayload
  <2>8. Event!AddFee(<<main>>, f, f.account) = Append(<<main>>, fee)
    BY <1>4, <1>7 DEF Event!AddFee
  <2> QED BY <2>4, <2>5, <2>6, <2>7, <2>8
<1>9. x \in Int /\ x # 0 /\ (f.income <=> x > 0) /\ (IF x < 0 THEN -x ELSE x) = v /\ MaxSafe \in Nat
  BY <1>1, <1>5, <1>8, EventNumbers
<1>10. /\ main \in Event!Movement /\ main.account = f.account /\ main.category = f.category /\ main.value = x
       /\ ~ main.fee
  BY <1>1, <1>6, <1>9, EventAddresses DEF Event!Entry, Event!Movement
<1>11. ~ f.income /\ f.feeEnabled => /\ fee \in Event!Movement /\ fee.account = f.account /\ fee.category = f.feeCategory
                                     /\ fee.value = -w /\ fee.fee
  BY <1>1, <1>7, <1>8, <1>9, EventAddresses DEF Event!Entry, Event!Movement
<1>12. {1, 2} \subseteq Event!Numbers
  BY EventNumbers DEF Event!Numbers
<1>13. CASE ~ (~ f.income /\ f.feeEnabled)
  <2>1. DOMAIN ms = {1} /\ ms[1] = main /\ ms = <<main>>
    BY <1>8, <1>13, EventRowsOf
  <2>2. ms \in [DOMAIN ms -> Event!Movement]
    BY <1>10, <2>1
  <2>3. Event!IsEvent(e)
    BY <1>2, <1>12, <2>1, <2>2 DEF Event!IsEvent, Event!IsMovements, Event!IsNumbered
  <2>4. main \in Event!Mains(e) /\ (\A m \in Event!Mains(e) : m = main) /\ Event!Fees(e) = {}
    BY <1>2, <1>10, <2>1, EventParts
  <2>5. Event!Valid(e)
    BY <1>2, <1>9, <1>10, <2>1, <2>4 DEF Event!Valid
  <2>6. PICK g : g = Event!FormOf(e)
    OBVIOUS
  <2>7. /\ g.account = main.account /\ g.category = main.category /\ g.amount = Event!AmountInput(x, main.account)
        /\ g.income <=> x > 0
    BY <1>10, <2>3, <2>4, <2>6, EventTransactionForm
  <2>8. ~ g.feeEnabled
    BY <2>3, <2>4, <2>6, EventTransactionForm DEF EventHasFee
  <2>9. Event!ParseAmount(g.amount, g.account) = v
    BY <1>1, <1>8, <1>9, <1>10, <2>7, EventAmount
  <2>10. EventLike("TRANSACTION", f, g)
    BY <1>3, <1>9, <1>10, <1>13, <2>7, <2>8, <2>9 DEF EventLike
  <2>11. EventSays("TRANSACTION", f, e)
    <3>1. Event!AmountInput(x, f.account).minor = v
      BY <1>1, <1>9, EventAmount
    <3> QED BY <1>2, <1>3, <1>10, <2>1, <3>1 DEF EventSays
  <2> QED BY <2>3, <2>5, <2>6, <2>10, <2>11
<1>14. CASE ~ f.income /\ f.feeEnabled
  <2>1. DOMAIN ms = {1, 2} /\ ms[1] = main /\ ms[2] = fee
    <3>1. ms = Append(<<main>>, fee)
      BY <1>8, <1>14
    <3> QED BY <3>1, EventRowsOf
  <2>2. ms \in [DOMAIN ms -> Event!Movement]
    <3>1. ms = Append(<<main>>, fee) /\ <<main>> \in Seq(Event!Movement) /\ fee \in Event!Movement
      BY <1>8, <1>10, <1>11, <1>14
    <3>2. ms \in Seq(Event!Movement)
      BY <3>1
    <3> QED BY <3>2
  <2>3. Event!IsEvent(e)
    BY <1>2, <1>12, <2>1, <2>2 DEF Event!IsEvent, Event!IsMovements, Event!IsNumbered
  <2>4. /\ main \in Event!Mains(e) /\ (\A m \in Event!Mains(e) : m = main)
        /\ fee \in Event!Fees(e) /\ (\A m \in Event!Fees(e) : m = fee)
    BY <1>2, <1>10, <1>11, <1>14, <2>1, EventParts
  <2>5. Event!Valid(e)
    <3>1. fee.value # 0
      BY <1>8, <1>9, <1>11, <1>14
    <3> QED BY <1>2, <1>9, <1>10, <2>1, <2>4, <3>1 DEF Event!Valid
  <2>6. PICK g : g = Event!FormOf(e)
    OBVIOUS
  <2>7. /\ g.account = main.account /\ g.category = main.category /\ g.amount = Event!AmountInput(x, main.account)
        /\ g.income <=> x > 0
    BY <1>10, <2>3, <2>4, <2>6, EventTransactionForm
  <2>8. g.feeEnabled /\ g.feeCategory = fee.category /\ g.feeAmount = Event!AmountInput(fee.value, fee.account)
    BY <2>3, <2>4, <2>6, EventTransactionForm DEF EventHasFee
  <2>9. Event!ParseAmount(g.amount, g.account) = v
    BY <1>1, <1>8, <1>9, <1>10, <2>7, EventAmount
  <2>10. Event!ParseAmount(g.feeAmount, g.account) = w
    <3>1. -w \in Int /\ -(-w) = w
      BY <1>8, <1>9, <1>14
    <3> QED BY <1>1, <1>8, <1>9, <1>10, <1>11, <1>14, <2>7, <2>8, <3>1, EventAmount
  <2>11. EventLike("TRANSACTION", f, g)
    BY <1>3, <1>4, <1>9, <1>10, <1>11, <1>14, <2>7, <2>8, <2>9, <2>10 DEF EventLike
  <2>12. EventSays("TRANSACTION", f, e)
    <3>1. Event!AmountInput(x, f.account).minor = v
      BY <1>1, <1>9, EventAmount
    <3>2. Event!AmountInput(fee.value, f.account).minor = w
      <4>1. fee.value \in Int /\ (IF fee.value < 0 THEN -fee.value ELSE fee.value) = w
        BY <1>8, <1>9, <1>11, <1>14
      <4> QED BY <1>1, <4>1, EventAmount
    <3> QED BY <1>2, <1>3, <1>4, <1>10, <1>11, <1>14, <2>1, <3>1, <3>2 DEF EventSays
  <2> QED BY <2>3, <2>5, <2>6, <2>11, <2>12
<1> QED BY <1>13, <1>14

LEMMA EventTransferBack ==
  ASSUME NEW f, EventFormOk("ACCOUNT_TRANSFER", f), NEW e, e.type = "ACCOUNT_TRANSFER", e.movements = Event!TransferPayload(f),
         e.movements # None, e \in [type: Event!Types, time: Instants, movements: {e.movements}, api: BOOLEAN]
  PROVE  /\ Event!IsEvent(e) /\ Event!Valid(e) /\ EventLike("ACCOUNT_TRANSFER", f, Event!FormOf(e))
         /\ EventSays("ACCOUNT_TRANSFER", f, e)
<1>1. /\ f.source \in Event!AllAccounts /\ f.destination \in Event!AllAccounts /\ f.category \in Event!AllCategories
      /\ f.feeCategory \in Event!AllCategories /\ f.feeEnabled \in BOOLEAN
      /\ f.sourceAmount \in Event!Text /\ f.destinationAmount \in Event!Text /\ f.feeAmount \in Event!Text
  BY EventFields DEF EventFormOk
<1>2. PICK ms : ms = e.movements
  OBVIOUS
<1>3. PICK v : v = Event!ParseAmount(f.sourceAmount, f.source)
  OBVIOUS
<1>4. PICK d : d = Event!ParseAmount(f.destinationAmount, f.destination)
  OBVIOUS
<1>5. PICK w : w = Event!ParseAmount(f.feeAmount, f.destination)
  OBVIOUS
<1>6. PICK x : x = IF Event!SameTransferCurrency(f) THEN v ELSE d
  OBVIOUS
<1>7. PICK from : from = Event!Entry(f.source, f.category, -v, 1, FALSE)
  OBVIOUS
<1>8. PICK to : to = Event!Entry(f.destination, f.category, x, 1, FALSE)
  OBVIOUS
<1>9. PICK fee : fee = Event!Entry(f.destination, f.feeCategory, -w, 1, TRUE)
  OBVIOUS
<1>10. MaxSafe \in Nat /\ {1, 2, 3} \subseteq Event!Numbers
  BY EventNumbers DEF Event!Numbers
<1>11. /\ v \in 1..MaxSafe /\ x \in 1..MaxSafe /\ f.source # f.destination
       /\ ~ f.feeEnabled => ms = <<from, to>>
       /\ f.feeEnabled => ms = Append(<<from, to>>, fee) /\ w \in 1..MaxSafe
  <2>1. /\ f.sourceAmount # None => f.sourceAmount.minor > 0
        /\ f.destinationAmount # None => f.destinationAmount.minor > 0
        /\ f.feeAmount # None => f.feeAmount.minor > 0
    BY DEF EventFormOk
  <2>2. v = None \/ v \in 1..MaxSafe
    BY <1>1, <1>3, <1>10, <2>1, EventParses
  <2>3. d = None \/ d \in 1..MaxSafe
    BY <1>1, <1>4, <1>10, <2>1, EventParses
  <2>4. w = None \/ w \in 1..MaxSafe
    BY <1>1, <1>5, <1>10, <2>1, EventParses
  <2>5. f.source # f.destination /\ v # None /\ x # None /\ ~ (f.feeEnabled /\ w = None)
    BY <1>3, <1>4, <1>5, <1>6, Zenon DEF Event!TransferPayload
  <2>6. ms = IF f.feeEnabled THEN Event!AddFee(<<from, to>>, f, f.destination) ELSE <<from, to>>
    BY <1>2, <1>3, <1>4, <1>5, <1>6, <1>7, <1>8, <2>5 DEF Event!TransferPayload
  <2>7. Event!AddFee(<<from, to>>, f, f.destination) = Append(<<from, to>>, fee)
    BY <1>5, <1>9 DEF Event!AddFee
  <2>8. x \in 1..MaxSafe
    BY <1>6, <2>2, <2>3, <2>5
  <2> QED BY <2>2, <2>4, <2>5, <2>6, <2>7, <2>8
<1>12. -v \in Int /\ -v < 0 /\ x \in Int /\ x > 0 /\ -(-v) = v
  BY <1>10, <1>11
<1>13. /\ from \in Event!Movement /\ from.account = f.source /\ from.category = f.category /\ from.value = -v /\ ~ from.fee
       /\ to \in Event!Movement /\ to.account = f.destination /\ to.category = f.category /\ to.value = x /\ ~ to.fee
  BY <1>1, <1>7, <1>8, <1>12, EventAddresses DEF Event!Entry, Event!Movement
<1>14. f.feeEnabled => /\ fee \in Event!Movement /\ fee.account = f.destination /\ fee.category = f.feeCategory
                       /\ fee.value = -w /\ fee.fee /\ -w \in Int /\ -w < 0 /\ -(-w) = w
  BY <1>1, <1>9, <1>10, <1>11, EventAddresses DEF Event!Entry, Event!Movement
<1>15. /\ DOMAIN ms = (IF f.feeEnabled THEN {1, 2, 3} ELSE {1, 2}) /\ ms[1] = from /\ ms[2] = to
       /\ f.feeEnabled => ms[3] = fee
       /\ ms \in [DOMAIN ms -> Event!Movement]
  <2>1. CASE ~ f.feeEnabled
    <3>1. ms = <<from, to>> /\ from \in Event!Movement /\ to \in Event!Movement
      BY <1>11, <1>13, <2>1
    <3>2. ms \in Seq(Event!Movement)
      BY <3>1
    <3>3. DOMAIN ms = {1, 2} /\ ms[1] = from /\ ms[2] = to
      BY <3>1
    <3>4. ms \in [DOMAIN ms -> Event!Movement]
      BY <3>2
    <3> QED BY <2>1, <3>3, <3>4
  <2>2. CASE f.feeEnabled
    <3>1. ms = Append(<<from, to>>, fee) /\ from \in Event!Movement /\ to \in Event!Movement /\ fee \in Event!Movement
      BY <1>11, <1>13, <1>14, <2>2
    <3>2. <<from, to>> \in Seq(Event!Movement)
      BY <3>1
    <3>3. ms \in Seq(Event!Movement)
      BY <3>1, <3>2
    <3>4. DOMAIN ms = {1, 2, 3} /\ ms[1] = from /\ ms[2] = to /\ ms[3] = fee
      BY <3>1, EventRowsOfThree
    <3>5. ms \in [DOMAIN ms -> Event!Movement]
      BY <3>3
    <3> QED BY <2>2, <3>4, <3>5
  <2> QED BY <1>1, <2>1, <2>2
<1>16. Event!IsEvent(e)
  BY <1>2, <1>10, <1>15 DEF Event!IsEvent, Event!IsMovements, Event!IsNumbered
<1>17. /\ from \in Event!Mains(e) /\ to \in Event!Mains(e) /\ (\A m \in Event!Mains(e) : m = from \/ m = to)
       /\ f.feeEnabled => fee \in Event!Fees(e) /\ (\A m \in Event!Fees(e) : m = fee)
       /\ ~ f.feeEnabled => Event!Fees(e) = {}
  <2>1. from \in Event!Mains(e) /\ to \in Event!Mains(e)
    BY <1>2, <1>13, <1>15, EventParts
  <2>2. ASSUME NEW m \in Event!Mains(e)
        PROVE  m = from \/ m = to
    BY <1>2, <1>14, <1>15, EventParts
  <2>3. f.feeEnabled => fee \in Event!Fees(e)
    BY <1>2, <1>14, <1>15, EventParts
  <2>4. ASSUME NEW m \in Event!Fees(e)
        PROVE  f.feeEnabled /\ m = fee
    BY <1>2, <1>13, <1>15, EventParts
  <2> QED BY <2>1, <2>2, <2>3, <2>4
<1>18. Event!Valid(e)
  <2>1. ASSUME NEW n \in DOMAIN ms
        PROVE  ms[n].value # 0
    BY <1>12, <1>13, <1>14, <1>15
  <2>2. ASSUME NEW m \in Event!Mains(e), m.value > 0
        PROVE  from \in Event!Mains(e) /\ from.value < 0 /\ from.account # m.account
    BY <1>11, <1>12, <1>13, <1>17, <2>2
  <2> QED BY <1>2, <1>12, <1>13, <1>17, <2>1, <2>2 DEF Event!Valid
<1>19. PICK g : g = Event!FormOf(e)
  OBVIOUS
<1>20. /\ g.source = f.source /\ g.destination = f.destination /\ g.category = f.category
       /\ g.sourceAmount = Event!AmountInput(-v, f.source) /\ g.destinationAmount = Event!AmountInput(x, f.destination)
  <2>1. PICK plus, minus \in Event!Mains(e) :
          /\ plus.value > 0 /\ minus.value < 0 /\ minus.account # plus.account
          /\ g.source = minus.account /\ g.destination = plus.account /\ g.category = minus.category
          /\ g.sourceAmount = Event!AmountInput(minus.value, minus.account)
          /\ g.destinationAmount = Event!AmountInput(plus.value, plus.account)
    BY <1>16, <1>18, <1>19, EventTransferForm
  <2>2. plus = to /\ minus = from
    BY <1>12, <1>13, <1>17, <2>1
  <2> QED BY <1>13, <2>1, <2>2
<1>21. Event!ParseAmount(g.sourceAmount, g.source) = v /\ Event!ParseAmount(g.destinationAmount, g.destination) = x
  <2>1. v \in 0..MaxSafe /\ x \in 0..MaxSafe
    BY <1>10, <1>11
  <2> QED BY <1>1, <1>12, <1>20, <2>1, EventAmount
<1>22. EventHasFee(e, g)
  BY <1>16, <1>18, <1>19, EventTransferForm
<1>23. ~ f.feeEnabled => ~ g.feeEnabled
  BY <1>17, <1>22 DEF EventHasFee
<1>24. f.feeEnabled => g.feeEnabled /\ g.feeCategory = fee.category /\ g.feeAmount = Event!AmountInput(fee.value, fee.account)
  BY <1>17, <1>22 DEF EventHasFee
<1>25. f.feeEnabled => Event!ParseAmount(g.feeAmount, g.destination) = w
  <2>1. f.feeEnabled => w \in 0..MaxSafe
    BY <1>10, <1>11
  <2> QED BY <1>1, <1>14, <1>20, <1>24, <2>1, EventAmount
<1>26. EventLike("ACCOUNT_TRANSFER", f, g)
  BY <1>3, <1>4, <1>5, <1>6, <1>14, <1>20, <1>21, <1>23, <1>24, <1>25 DEF EventLike
<1>27. EventSays("ACCOUNT_TRANSFER", f, e)
  <2>1. Event!AmountInput(-v, f.source).minor = v /\ Event!AmountInput(x, f.destination).minor = x
    BY <1>1, <1>12, EventAmount
  <2>2. f.feeEnabled => Event!AmountInput(-w, f.destination).minor = w
    BY <1>1, <1>14, EventAmount
  <2>3. ASSUME NEW n \in DOMAIN ms
        PROVE  LET amount == Event!AmountInput(ms[n].value, ms[n].account).minor IN
               amount = v \/ amount = x \/ (f.feeEnabled /\ amount = w)
    <3>1. ms[n] = from \/ ms[n] = to \/ (f.feeEnabled /\ ms[n] = fee)
      BY <1>1, <1>15
    <3> QED BY <1>13, <1>14, <2>1, <2>2, <3>1
  <2> QED BY <1>2, <1>3, <1>4, <1>5, <1>6, <2>3 DEF EventSays
<1> QED BY <1>16, <1>18, <1>19, <1>26, <1>27

LEMMA EventListBack ==
  ASSUME NEW f, EventFormOk("SHOPPING_LIST", f), NEW e, e.type = "SHOPPING_LIST", e.movements = Event!ShoppingListPayload(f),
         e.movements # None, e \in [type: Event!Types, time: Instants, movements: {e.movements}, api: BOOLEAN]
  PROVE  /\ Event!IsEvent(e) /\ Event!Valid(e) /\ EventLike("SHOPPING_LIST", f, Event!FormOf(e))
         /\ EventSays("SHOPPING_LIST", f, e)
<1>1. /\ f.account \in Event!AllAccounts /\ Event!IsForm(f) /\ DOMAIN f.lines # {} /\ DOMAIN f.lines \subseteq Event!Numbers
      /\ \A n \in DOMAIN f.lines : f.lines[n].amount # None => f.lines[n].amount.minor > 0
  BY EventFields DEF EventFormOk
<1>2. PICK D : D = DOMAIN f.lines
  OBVIOUS
<1>3. PICK ms : ms = e.movements
  OBVIOUS
<1>4. PICK v : v = [n \in D |-> Event!ParseAmount(f.lines[n].amount, f.account)]
  OBVIOUS
<1>5. \A n \in D : v[n] # None
  BY <1>2, <1>4, Zenon DEF Event!ShoppingListPayload
<1>6. ms = [n \in D |-> Event!Entry(f.account, f.lines[n].category, -v[n], f.lines[n].quantity, FALSE)]
  BY <1>2, <1>3, <1>4, <1>5, Zenon DEF Event!ShoppingListPayload
<1>7. ASSUME NEW n \in D
      PROVE  /\ v[n] \in 1..MaxSafe /\ v[n] \in 0..MaxSafe /\ -v[n] \in Int /\ -v[n] < 0 /\ -(-v[n]) = v[n]
             /\ ms[n] \in Event!Movement /\ ms[n].account = f.account /\ ms[n].category = f.lines[n].category
             /\ ms[n].value = -v[n] /\ ms[n].quantity = f.lines[n].quantity /\ ~ ms[n].fee
             /\ Event!ParseAmount(f.lines[n].amount, f.account) = v[n]
  <2>1. /\ f.lines[n].amount \in Event!Text /\ f.lines[n].category \in Event!AllCategories
        /\ f.lines[n].quantity \in Quantities
    BY <1>1, <1>2, EventRows
  <2>2. v[n] = Event!ParseAmount(f.lines[n].amount, f.account)
    BY <1>4
  <2>3. PICK x : x = v[n]
    OBVIOUS
  <2>4. x \in 1..MaxSafe
    BY <1>1, <1>2, <1>5, <2>1, <2>2, <2>3, EventParses, EventNumbers
  <2>5. -x \in Int /\ -x < 0 /\ -(-x) = x /\ x \in 0..MaxSafe
    BY <2>4, EventNumbers
  <2>6. ms[n] = Event!Entry(f.account, f.lines[n].category, -x, f.lines[n].quantity, FALSE)
    BY <1>6, <2>3
  <2>7. /\ ms[n] \in Event!Movement /\ ms[n].account = f.account /\ ms[n].category = f.lines[n].category
        /\ ms[n].value = -x /\ ms[n].quantity = f.lines[n].quantity /\ ~ ms[n].fee
    BY <1>1, <2>1, <2>5, <2>6 DEF Event!Entry, Event!Movement
  <2> QED BY <2>2, <2>3, <2>4, <2>5, <2>7
<1>8. DOMAIN ms = D /\ ms \in [D -> Event!Movement]
  BY <1>6, <1>7, Zenon
<1>9. Event!IsEvent(e)
  BY <1>1, <1>2, <1>3, <1>8 DEF Event!IsEvent, Event!IsMovements, Event!IsNumbered
<1>10. Event!Mains(e) # {} /\ \A m \in Event!Mains(e) : m.account = f.account
  <2>1. PICK n : n \in D
    BY <1>1, <1>2
  <2>2. ms[n] \in Event!Mains(e)
    <3>1. n \in DOMAIN e.movements /\ ms[n] = e.movements[n] /\ ~ ms[n].fee
      BY <1>3, <1>7, <1>8, <2>1
    <3> QED BY <3>1, EventParts
  <2>3. ASSUME NEW m \in Event!Mains(e)
        PROVE  m.account = f.account
    <3>1. PICK k \in DOMAIN e.movements : m = e.movements[k]
      BY EventParts
    <3> QED BY <1>3, <1>7, <1>8, <3>1
  <2> QED BY <2>2, <2>3
<1>11. Event!Valid(e)
  <2>1. ASSUME NEW n \in DOMAIN ms
        PROVE  ms[n].value # 0
    BY <1>7, <1>8
  <2> QED BY <1>3, <1>10, <2>1 DEF Event!Valid
<1>12. PICK g : g = Event!FormOf(e)
  OBVIOUS
<1>13. /\ g.account = f.account /\ DOMAIN g.lines = D
       /\ \A n \in D : /\ g.lines[n].category = ms[n].category /\ g.lines[n].quantity = ms[n].quantity
                       /\ g.lines[n].amount = Event!AmountInput(ms[n].value, ms[n].account)
  BY <1>3, <1>8, <1>9, <1>10, <1>12, EventListForm
<1>14. ASSUME NEW n \in D
       PROVE  Event!ParseAmount(g.lines[n].amount, f.account) = v[n] /\ Event!AmountInput(ms[n].value, ms[n].account).minor = v[n]
  <2>1. PICK x : x = v[n]
    OBVIOUS
  <2>2. x \in 0..MaxSafe /\ -x \in Int /\ -x < 0 /\ -(-x) = x /\ ms[n].value = -x /\ ms[n].account = f.account
    BY <1>7, <2>1
  <2> QED BY <1>1, <1>13, <2>1, <2>2, EventAmount
<1>15. EventLike("SHOPPING_LIST", f, g)
  BY <1>2, <1>7, <1>13, <1>14 DEF EventLike
<1>16. EventSays("SHOPPING_LIST", f, e)
  BY <1>2, <1>3, <1>7, <1>8, <1>14 DEF EventSays
<1> QED BY <1>9, <1>11, <1>12, <1>15, <1>16

LEMMA EventSamePayload ==
  ASSUME NEW type \in Event!Types, NEW f, Event!IsForm(f), NEW g, Event!IsForm(g), EventLike(type, f, g)
  PROVE  Event!Payload(type, g) = Event!Payload(type, f)
<1>0. f.income \in BOOLEAN /\ g.income \in BOOLEAN /\ f.feeEnabled \in BOOLEAN /\ g.feeEnabled \in BOOLEAN
  BY EventFields
<1>1. CASE type = "TRANSACTION"
  <2>1. /\ g.account = f.account /\ g.category = f.category /\ g.income = f.income
        /\ Event!ParseAmount(g.amount, g.account) = Event!ParseAmount(f.amount, f.account)
        /\ ~ f.income => g.feeEnabled = f.feeEnabled
        /\ ~ f.income /\ f.feeEnabled =>
             /\ g.feeCategory = f.feeCategory
             /\ Event!ParseAmount(g.feeAmount, g.account) = Event!ParseAmount(f.feeAmount, f.account)
    BY <1>0, <1>1 DEF EventLike
  <2>2. Event!TransactionPayload(g) = Event!TransactionPayload(f)
    <3>1. CASE ~ f.income /\ f.feeEnabled
      BY <1>0, <2>1, <3>1, Zenon DEF Event!TransactionPayload, Event!AddFee
    <3>2. CASE ~ (~ f.income /\ f.feeEnabled)
      BY <1>0, <2>1, <3>2 DEF Event!TransactionPayload
    <3> QED BY <3>1, <3>2
  <2> QED BY <1>1, <2>2 DEF Event!Payload
<1>2. CASE type = "SHOPPING_LIST"
  <2>1. /\ g.account = f.account /\ DOMAIN g.lines = DOMAIN f.lines
        /\ \A n \in DOMAIN f.lines :
             /\ g.lines[n].category = f.lines[n].category /\ g.lines[n].quantity = f.lines[n].quantity
             /\ Event!ParseAmount(g.lines[n].amount, f.account) = Event!ParseAmount(f.lines[n].amount, f.account)
    BY <1>2 DEF EventLike
  <2>2. Event!ShoppingListPayload(g) = Event!ShoppingListPayload(f)
    BY <2>1, Zenon DEF Event!ShoppingListPayload
  <2> QED BY <1>2, <2>2 DEF Event!Payload
<1>3. CASE type = "ACCOUNT_TRANSFER"
  <2>1. /\ g.source = f.source /\ g.destination = f.destination /\ g.category = f.category
        /\ Event!ParseAmount(g.sourceAmount, g.source) = Event!ParseAmount(f.sourceAmount, f.source)
        /\ ~ Event!SameTransferCurrency(f) =>
             Event!ParseAmount(g.destinationAmount, g.destination) = Event!ParseAmount(f.destinationAmount, f.destination)
        /\ g.feeEnabled = f.feeEnabled
        /\ f.feeEnabled => /\ g.feeCategory = f.feeCategory
                           /\ Event!ParseAmount(g.feeAmount, g.destination) = Event!ParseAmount(f.feeAmount, f.destination)
    BY <1>0, <1>3 DEF EventLike
  <2>2. Event!SameTransferCurrency(g) <=> Event!SameTransferCurrency(f)
    BY <2>1 DEF Event!SameTransferCurrency
  <2>3. Event!TransferPayload(g) = Event!TransferPayload(f)
    <3>1. CASE f.feeEnabled
      BY <1>0, <2>1, <2>2, <3>1, Zenon DEF Event!TransferPayload, Event!AddFee
    <3>2. CASE ~ f.feeEnabled
      BY <1>0, <2>1, <2>2, <3>2, Zenon DEF Event!TransferPayload
    <3> QED BY <3>1, <3>2
  <2> QED BY <1>3, <2>3 DEF Event!Payload
<1> QED BY <1>1, <1>2, <1>3 DEF Event!Types

LEMMA EventPairOf ==
  ASSUME NEW a, NEW b
  PROVE  <<a, b>>[1] = a /\ <<a, b>>[2] = b
OBVIOUS

\* Forms that are alike read the same.
LEMMA EventSameFields ==
  ASSUME NEW type \in Event!Types, NEW f, Event!IsForm(f), NEW g, Event!IsForm(g), EventLike(type, f, g)
  PROVE  /\ \A a \in Event!AccountFields(type) : g[a] = f[a]
         /\ Event!FeeField(type, g) = Event!FeeField(type, f)
         /\ Event!CategoryFields(type, g) = Event!CategoryFields(type, f)
         /\ \A c \in Event!CategoryFields(type, f) : g[c] = f[c]
         /\ Event!AmountFields(type, g) = Event!AmountFields(type, f)
         /\ \A t \in Event!AmountFields(type, f) \cup Event!FeeField(type, f) :
              Event!ParseAmount(g[t[1]], t[2]) = Event!ParseAmount(f[t[1]], t[2])
<1>1. CASE type = "TRANSACTION"
  <2>1. /\ g.account = f.account /\ g.category = f.category /\ (g.income <=> f.income)
        /\ Event!ParseAmount(g.amount, f.account) = Event!ParseAmount(f.amount, f.account)
        /\ ~ f.income => (g.feeEnabled <=> f.feeEnabled)
        /\ ~ f.income /\ f.feeEnabled =>
             /\ g.feeCategory = f.feeCategory
             /\ Event!ParseAmount(g.feeAmount, f.account) = Event!ParseAmount(f.feeAmount, f.account)
    BY <1>1 DEF EventLike
  <2>2. Event!AccountFields(type) = {"account"}
    BY <1>1 DEF Event!AccountFields
  <2>3. /\ Event!FeeField(type, f) = (IF ~ f.income /\ f.feeEnabled THEN {<<"feeAmount", f.account>>} ELSE {})
        /\ Event!FeeField(type, g) = Event!FeeField(type, f)
    BY <1>1, <2>1 DEF Event!FeeField, Event!FeeShown
  <2>4. Event!AmountFields(type, f) = {<<"amount", f.account>>} /\ Event!AmountFields(type, g) = {<<"amount", f.account>>}
    BY <1>1, <2>1 DEF Event!AmountFields
  <2>5. Event!CategoryFields(type, g) = Event!CategoryFields(type, f)
    BY <2>3 DEF Event!CategoryFields
  <2>6. ASSUME NEW c \in Event!CategoryFields(type, f)
        PROVE  g[c] = f[c]
    <3>1. c = "category" \/ (c = "feeCategory" /\ ~ f.income /\ f.feeEnabled)
      BY <1>1, <2>3 DEF Event!CategoryFields
    <3> QED BY <2>1, <3>1
  <2>7. ASSUME NEW t \in Event!AmountFields(type, f) \cup Event!FeeField(type, f)
        PROVE  Event!ParseAmount(g[t[1]], t[2]) = Event!ParseAmount(f[t[1]], t[2])
    <3>1. t = <<"amount", f.account>> \/ (t = <<"feeAmount", f.account>> /\ ~ f.income /\ f.feeEnabled)
      BY <2>3, <2>4
    <3>2. (t[1] = "amount" \/ (t[1] = "feeAmount" /\ ~ f.income /\ f.feeEnabled)) /\ t[2] = f.account
      BY <3>1, EventPairOf
    <3> QED BY <2>1, <3>2
  <2> QED BY <2>1, <2>2, <2>3, <2>4, <2>5, <2>6, <2>7
<1>2. CASE type = "SHOPPING_LIST"
  <2>1. g.account = f.account
    BY <1>2 DEF EventLike
  <2>2. Event!AccountFields(type) = {"account"}
    BY <1>2 DEF Event!AccountFields
  <2>3. Event!FeeField(type, f) = {} /\ Event!FeeField(type, g) = {}
    BY <1>2 DEF Event!FeeField, Event!FeeShown
  <2>4. Event!AmountFields(type, f) = {} /\ Event!AmountFields(type, g) = {}
    BY <1>2 DEF Event!AmountFields
  <2>5. Event!CategoryFields(type, f) = {} /\ Event!CategoryFields(type, g) = {}
    BY <1>2, <2>3 DEF Event!CategoryFields
  <2> QED BY <2>1, <2>2, <2>3, <2>4, <2>5
<1>3. CASE type = "ACCOUNT_TRANSFER"
  <2>1. /\ g.source = f.source /\ g.destination = f.destination /\ g.category = f.category
        /\ Event!ParseAmount(g.sourceAmount, f.source) = Event!ParseAmount(f.sourceAmount, f.source)
        /\ ~ Event!SameTransferCurrency(f) =>
             Event!ParseAmount(g.destinationAmount, f.destination) = Event!ParseAmount(f.destinationAmount, f.destination)
        /\ (g.feeEnabled <=> f.feeEnabled)
        /\ f.feeEnabled => /\ g.feeCategory = f.feeCategory
                           /\ Event!ParseAmount(g.feeAmount, f.destination) = Event!ParseAmount(f.feeAmount, f.destination)
    BY <1>3 DEF EventLike
  <2>2. Event!AccountFields(type) = {"source", "destination"} /\ (Event!SameTransferCurrency(g) <=> Event!SameTransferCurrency(f))
    BY <1>3, <2>1 DEF Event!AccountFields, Event!SameTransferCurrency
  <2>3. /\ Event!FeeField(type, f) = (IF f.feeEnabled THEN {<<"feeAmount", f.destination>>} ELSE {})
        /\ Event!FeeField(type, g) = Event!FeeField(type, f)
    BY <1>3, <2>1 DEF Event!FeeField, Event!FeeShown
  <2>4. /\ Event!AmountFields(type, f) =
             {<<"sourceAmount", f.source>>} \cup
               (IF Event!SameTransferCurrency(f) THEN {} ELSE {<<"destinationAmount", f.destination>>})
        /\ Event!AmountFields(type, g) = Event!AmountFields(type, f)
    BY <1>3, <2>1, <2>2 DEF Event!AmountFields
  <2>5. Event!CategoryFields(type, g) = Event!CategoryFields(type, f)
    BY <2>3 DEF Event!CategoryFields
  <2>6. ASSUME NEW c \in Event!CategoryFields(type, f)
        PROVE  g[c] = f[c]
    <3>1. c = "category" \/ (c = "feeCategory" /\ f.feeEnabled)
      BY <1>3, <2>3 DEF Event!CategoryFields
    <3> QED BY <2>1, <3>1
  <2>7. ASSUME NEW t \in Event!AmountFields(type, f) \cup Event!FeeField(type, f)
        PROVE  Event!ParseAmount(g[t[1]], t[2]) = Event!ParseAmount(f[t[1]], t[2])
    <3>1. \/ t = <<"sourceAmount", f.source>>
          \/ t = <<"destinationAmount", f.destination>> /\ ~ Event!SameTransferCurrency(f)
          \/ t = <<"feeAmount", f.destination>> /\ f.feeEnabled
      BY <2>3, <2>4
    <3>2. \/ t[1] = "sourceAmount" /\ t[2] = f.source
          \/ t[1] = "destinationAmount" /\ t[2] = f.destination /\ ~ Event!SameTransferCurrency(f)
          \/ t[1] = "feeAmount" /\ t[2] = f.destination /\ f.feeEnabled
      BY <3>1, EventPairOf
    <3> QED BY <2>1, <3>2
  <2> QED BY <2>1, <2>2, <2>3, <2>4, <2>5, <2>6, <2>7
<1> QED BY <1>1, <1>2, <1>3 DEF Event!Types

EventAccounts(type, f) == {<<a, f[a]>> : a \in Event!AccountFields(type)}
EventCategories(type, f) == {<<c, f[c]>> : c \in Event!CategoryFields(type, f)}
EventAmounts(type, f) ==
  {<<t[1], Event!ParseAmount(f[t[1]], t[2])>> : t \in Event!AmountFields(type, f) \cup Event!FeeField(type, f)}
EventLines(f) == [n \in DOMAIN f.lines |-> [f.lines[n] EXCEPT !.amount = Event!ParseAmount(f.lines[n].amount, f.account)]]

LEMMA EventScreen ==
  ASSUME NEW type, NEW f
  PROVE  Event!Screen(type, f) =
           [time |-> f.time, income |-> type = "TRANSACTION" /\ f.income, accounts |-> EventAccounts(type, f),
            categories |-> EventCategories(type, f), amounts |-> EventAmounts(type, f), lines |-> EventLines(f)]
BY Zenon DEF Event!Screen, EventAccounts, EventCategories, EventAmounts, EventLines

LEMMA EventLinesAre ==
  ASSUME NEW f, Event!IsForm(f), NEW n \in DOMAIN f.lines
  PROVE  EventLines(f)[n] = [category |-> f.lines[n].category, quantity |-> f.lines[n].quantity,
                             amount |-> Event!ParseAmount(f.lines[n].amount, f.account)]
<1>1. f.lines[n] \in [category: Event!AllCategories, quantity: Quantities, amount: Event!Text]
  BY EventRows DEF Event!Line
<1>2. PICK l : l = f.lines[n]
  OBVIOUS
<1>3. PICK p : p = Event!ParseAmount(l.amount, f.account)
  OBVIOUS
<1>4. EventLines(f)[n] = [l EXCEPT !.amount = p]
  BY <1>2, <1>3 DEF EventLines
<1>5. [l EXCEPT !.amount = p] = [category |-> l.category, quantity |-> l.quantity, amount |-> p]
  BY <1>1, <1>2
<1> QED BY <1>2, <1>3, <1>4, <1>5

LEMMA EventSameScreen ==
  ASSUME NEW type \in Event!Types, NEW f, EventFormOk(type, f), NEW g, EventFormOk(type, g), EventLike(type, f, g),
         g.time = f.time
  PROVE  Event!Screen(type, g) = Event!Screen(type, f)
<1>0. Event!IsForm(f) /\ Event!IsForm(g) /\ f.income \in BOOLEAN /\ g.income \in BOOLEAN
  BY EventFields DEF EventFormOk
<1>1. EventAccounts(type, g) = EventAccounts(type, f)
  <2>1. \A a \in Event!AccountFields(type) : g[a] = f[a]
    BY <1>0, EventSameFields
  <2> QED BY <2>1 DEF EventAccounts
<1>2. EventCategories(type, g) = EventCategories(type, f)
  <2>1. /\ Event!CategoryFields(type, g) = Event!CategoryFields(type, f)
        /\ \A c \in Event!CategoryFields(type, f) : g[c] = f[c]
    BY <1>0, EventSameFields
  <2> QED BY <2>1 DEF EventCategories
<1>3. EventAmounts(type, g) = EventAmounts(type, f)
  <2>1. /\ Event!FeeField(type, g) = Event!FeeField(type, f)
        /\ Event!AmountFields(type, g) = Event!AmountFields(type, f)
        /\ \A t \in Event!AmountFields(type, f) \cup Event!FeeField(type, f) :
              Event!ParseAmount(g[t[1]], t[2]) = Event!ParseAmount(f[t[1]], t[2])
    BY <1>0, EventSameFields
  <2> QED BY <2>1 DEF EventAmounts
<1>4. EventLines(g) = EventLines(f)
  <2>1. DOMAIN g.lines = DOMAIN f.lines
    BY <1>0 DEF EventLike, EventFormOk, Event!Types
  <2>2. ASSUME NEW n \in DOMAIN f.lines
        PROVE  EventLines(g)[n] = EventLines(f)[n]
    <3>1. type = "SHOPPING_LIST"
      BY <2>2 DEF EventFormOk
    <3>2. /\ g.account = f.account
          /\ g.lines[n].category = f.lines[n].category /\ g.lines[n].quantity = f.lines[n].quantity
          /\ Event!ParseAmount(g.lines[n].amount, f.account) = Event!ParseAmount(f.lines[n].amount, f.account)
      BY <3>1 DEF EventLike
    <3> QED BY <1>0, <2>1, <3>2, EventLinesAre, ZenonT(40)
  <2>3. /\ EventLines(f) = [n \in DOMAIN f.lines |-> EventLines(f)[n]]
        /\ EventLines(g) = [n \in DOMAIN f.lines |-> EventLines(g)[n]]
    BY <2>1 DEF EventLines
  <2> QED BY <2>2, <2>3
<1>5. (type = "TRANSACTION" /\ g.income) = (type = "TRANSACTION" /\ f.income)
  BY <1>0 DEF EventLike
<1> QED BY <1>1, <1>2, <1>3, <1>4, <1>5, EventScreen

\* The screen as a record that is sent with the movements (history).
LEMMA EventScreenTyped ==
  ASSUME NEW type \in Event!Types, NEW f, Event!IsForm(f), NEW s, s = Event!Screen(type, f)
  PROVE  s \in [time: Labels, income: BOOLEAN, accounts: SUBSET (Event!AccountNames \X Event!AllAccounts),
                categories: SUBSET (Event!CategoryNames \X Event!AllCategories), amounts: SUBSET (Event!AmountNames \X (Nat \cup {None})),
                lines: [DOMAIN f.lines -> [category: Event!AllCategories, quantity: Quantities, amount: Nat \cup {None}]]]
<1>0. /\ f.time \in Labels /\ f.account \in Event!AllAccounts /\ f.source \in Event!AllAccounts
      /\ f.destination \in Event!AllAccounts /\ f.category \in Event!AllCategories /\ f.feeCategory \in Event!AllCategories
      /\ f.income \in BOOLEAN /\ f.amount \in Event!Text /\ f.sourceAmount \in Event!Text
      /\ f.destinationAmount \in Event!Text /\ f.feeAmount \in Event!Text
  BY EventFields
<1>1. EventAccounts(type, f) \in SUBSET (Event!AccountNames \X Event!AllAccounts)
  <2>1. ASSUME NEW a \in Event!AccountFields(type)
        PROVE  a \in Event!AccountNames /\ f[a] \in Event!AllAccounts
    <3>1. a = "account" \/ a = "source" \/ a = "destination"
      BY DEF Event!AccountFields
    <3> QED BY <1>0, <3>1 DEF Event!AccountNames
  <2> QED BY <2>1 DEF EventAccounts
<1>2. EventCategories(type, f) \in SUBSET (Event!CategoryNames \X Event!AllCategories)
  <2>1. ASSUME NEW c \in Event!CategoryFields(type, f)
        PROVE  c \in Event!CategoryNames /\ f[c] \in Event!AllCategories
    <3>1. c = "category" \/ c = "feeCategory"
      BY DEF Event!CategoryFields
    <3> QED BY <1>0, <3>1 DEF Event!CategoryNames
  <2> QED BY <2>1 DEF EventCategories
<1>3. EventAmounts(type, f) \in SUBSET (Event!AmountNames \X (Nat \cup {None}))
  <2>1. ASSUME NEW t \in Event!AmountFields(type, f) \cup Event!FeeField(type, f)
        PROVE  t[1] \in Event!AmountNames /\ Event!ParseAmount(f[t[1]], t[2]) \in Nat \cup {None}
    <3>1. \/ t = <<"amount", f.account>> \/ t = <<"sourceAmount", f.source>>
          \/ t = <<"destinationAmount", f.destination>>
          \/ t = <<"feeAmount", f.account>> \/ t = <<"feeAmount", f.destination>>
      BY DEF Event!AmountFields, Event!FeeField, Event!Types
    <3>2. /\ t[1] \in {"amount", "sourceAmount", "destinationAmount", "feeAmount"}
          /\ t[2] \in Event!AllAccounts
      BY <1>0, <3>1, EventPairOf
    <3>3. PICK x : x = f[t[1]]
      OBVIOUS
    <3>4. x \in Event!Text
      BY <1>0, <3>2, <3>3
    <3>5. Event!ParseAmount(x, t[2]) = None \/ Event!ParseAmount(x, t[2]) \in 0..MaxSafe
      BY <3>2, <3>4, EventParses
    <3>6. Event!ParseAmount(x, t[2]) \in Nat \cup {None}
      BY <3>5, EventNumbers
    <3> QED BY <3>2, <3>3, <3>6 DEF Event!AmountNames
  <2> QED BY <2>1 DEF EventAmounts
<1>4. EventLines(f) \in [DOMAIN f.lines -> [category: Event!AllCategories, quantity: Quantities, amount: Nat \cup {None}]]
  <2>1. ASSUME NEW n \in DOMAIN f.lines
        PROVE  EventLines(f)[n] \in [category: Event!AllCategories, quantity: Quantities, amount: Nat \cup {None}]
    <3>1. PICK p : p = Event!ParseAmount(f.lines[n].amount, f.account)
      OBVIOUS
    <3>2. p = None \/ p \in 0..MaxSafe
      BY <1>0, <3>1, EventRows, EventParses
    <3>3. p \in Nat \cup {None}
      BY <3>2, EventNumbers
    <3>4. EventLines(f)[n] = [category |-> f.lines[n].category, quantity |-> f.lines[n].quantity, amount |-> p]
      BY <3>1, EventLinesAre
    <3> QED BY <3>3, <3>4, EventRows
  <2>2. EventLines(f) = [n \in DOMAIN f.lines |-> EventLines(f)[n]]
    BY DEF EventLines
  <2> QED BY <2>1, <2>2
<1>5. PICK b \in BOOLEAN : b = (type = "TRANSACTION" /\ f.income)
  <2>1. (type = "TRANSACTION" /\ f.income) \in BOOLEAN
    OBVIOUS
  <2> QED BY <2>1, Zenon
<1>6. s = [time |-> f.time, income |-> b, accounts |-> EventAccounts(type, f),
           categories |-> EventCategories(type, f), amounts |-> EventAmounts(type, f), lines |-> EventLines(f)]
  BY <1>5, EventScreen
<1> QED BY <1>0, <1>1, <1>2, <1>3, <1>4, <1>6

\* The amounts of an event that is sent are on the screen.
LEMMA EventShownAll ==
  ASSUME NEW type \in Event!Types, NEW f, EventFormOk(type, f), NEW e, EventSays(type, f, e),
         NEW n \in DOMAIN e.movements, NEW x, x = Event!AmountInput(e.movements[n].value, e.movements[n].account).minor,
         NEW s, s = Event!Screen(type, f)
  PROVE  (\E t \in s.amounts : x = t[2]) \/ (\E k \in DOMAIN s.lines : x = s.lines[k].amount)
<1>0. Event!IsForm(f) /\ s.amounts = EventAmounts(type, f) /\ s.lines = EventLines(f)
  BY EventScreen DEF EventFormOk
<1>1. ASSUME NEW name, NEW a, <<name, a>> \in Event!AmountFields(type, f) \cup Event!FeeField(type, f),
             x = Event!ParseAmount(f[name], a)
      PROVE  \E t \in s.amounts : x = t[2]
  <2>1. PICK t : t = <<name, a>>
    OBVIOUS
  <2>2. t[1] = name /\ t[2] = a
    BY <2>1, EventPairOf
  <2>3. <<name, x>> \in EventAmounts(type, f)
    BY <1>1, <2>1, <2>2 DEF EventAmounts
  <2>4. <<name, x>>[2] = x
    BY EventPairOf
  <2> QED BY <1>0, <2>3, <2>4
<1>2. CASE type = "TRANSACTION"
  <2>1. <<"amount", f.account>> \in Event!AmountFields(type, f)
    BY <1>2 DEF Event!AmountFields
  <2>2. ~ f.income /\ f.feeEnabled => <<"feeAmount", f.account>> \in Event!FeeField(type, f)
    BY <1>2 DEF Event!FeeField, Event!FeeShown
  <2>3. \/ x = Event!ParseAmount(f.amount, f.account)
        \/ ~ f.income /\ f.feeEnabled /\ x = Event!ParseAmount(f.feeAmount, f.account)
    BY <1>2 DEF EventSays
  <2> QED BY <1>1, <2>1, <2>2, <2>3
<1>3. CASE type = "ACCOUNT_TRANSFER"
  <2>1. /\ <<"sourceAmount", f.source>> \in Event!AmountFields(type, f)
        /\ ~ Event!SameTransferCurrency(f) => <<"destinationAmount", f.destination>> \in Event!AmountFields(type, f)
    BY <1>3 DEF Event!AmountFields
  <2>2. f.feeEnabled => <<"feeAmount", f.destination>> \in Event!FeeField(type, f)
    BY <1>3 DEF Event!FeeField, Event!FeeShown
  <2>3. \/ x = Event!ParseAmount(f.sourceAmount, f.source)
        \/ ~ Event!SameTransferCurrency(f) /\ x = Event!ParseAmount(f.destinationAmount, f.destination)
        \/ f.feeEnabled /\ x = Event!ParseAmount(f.feeAmount, f.destination)
    BY <1>3 DEF EventSays
  <2> QED BY <1>1, <2>1, <2>2, <2>3
<1>4. CASE type = "SHOPPING_LIST"
  <2>1. n \in DOMAIN f.lines /\ x = Event!ParseAmount(f.lines[n].amount, f.account)
    BY <1>4 DEF EventSays
  <2>2. EventLines(f)[n].amount = x
    <3>1. EventLines(f)[n] = [category |-> f.lines[n].category, quantity |-> f.lines[n].quantity, amount |-> x]
      BY <1>0, <2>1, EventLinesAre
    <3> QED BY <3>1
  <2>3. n \in DOMAIN EventLines(f)
    BY <2>1 DEF EventLines
  <2> QED BY <1>0, <2>2, <2>3
<1> QED BY <1>2, <1>3, <1>4 DEF Event!Types

LEMMA EventRecordIs ==
  ASSUME NEW type, NEW f
  PROVE  EventFormOk(type, f) <=>
           /\ EventRecord(f, f.lines)
           /\ DOMAIN f.lines \subseteq Event!Numbers /\ f.lines \in [DOMAIN f.lines -> Event!Line]
           /\ f.amount # None => f.amount.minor > 0
           /\ f.sourceAmount # None => f.sourceAmount.minor > 0
           /\ f.destinationAmount # None => f.destinationAmount.minor > 0
           /\ f.feeAmount # None => f.feeAmount.minor > 0
           /\ \A n \in DOMAIN f.lines : f.lines[n].amount # None => f.lines[n].amount.minor > 0
           /\ type = "SHOPPING_LIST" <=> DOMAIN f.lines # {}
BY DEF EventFormOk, EventRecord, Event!IsForm, Event!IsNumbered

\* One field of a form is changed.
LEMMA EventFieldSet ==
  ASSUME NEW type, NEW f, EventFormOk(type, f), NEW name, NEW y, NEW g, g = [f EXCEPT ![name] = y],
         \/ name = "time" /\ y \in Labels
         \/ name \in {"income", "feeEnabled"} /\ y \in BOOLEAN
         \/ name \in Event!AccountNames /\ y \in Event!AllAccounts
         \/ name \in Event!CategoryNames /\ y \in Event!AllCategories
         \/ name \in Event!AmountNames /\ y \in Event!Text /\ (y # None => y.minor > 0)
  PROVE  EventFormOk(type, g)
<1>1. EventRecord(f, f.lines)
  BY EventRecordIs
<1>2. PICK lines : lines = f.lines
  OBVIOUS
<1>3. /\ DOMAIN lines \subseteq Event!Numbers /\ lines \in [DOMAIN lines -> Event!Line]
      /\ \A n \in DOMAIN lines : lines[n].amount # None => lines[n].amount.minor > 0
      /\ type = "SHOPPING_LIST" <=> DOMAIN lines # {}
  BY <1>2, EventRecordIs
<1>4. /\ f.amount # None => f.amount.minor > 0
      /\ f.sourceAmount # None => f.sourceAmount.minor > 0
      /\ f.destinationAmount # None => f.destinationAmount.minor > 0
      /\ f.feeAmount # None => f.feeAmount.minor > 0
  BY EventRecordIs
<1>5. /\ EventRecord(g, lines) /\ g.lines = lines
      /\ g.amount # None => g.amount.minor > 0
      /\ g.sourceAmount # None => g.sourceAmount.minor > 0
      /\ g.destinationAmount # None => g.destinationAmount.minor > 0
      /\ g.feeAmount # None => g.feeAmount.minor > 0
  <2>1. CASE name = "time" /\ y \in Labels
    BY <1>1, <1>2, <1>4, <2>1 DEF EventRecord
  <2>2. CASE name \in {"income", "feeEnabled"} /\ y \in BOOLEAN
    BY <1>1, <1>2, <1>4, <2>2 DEF EventRecord
  <2>3. CASE name \in Event!AccountNames /\ y \in Event!AllAccounts
    BY <1>1, <1>2, <1>4, <2>3 DEF EventRecord, Event!AccountNames
  <2>4. CASE name \in Event!CategoryNames /\ y \in Event!AllCategories
    BY <1>1, <1>2, <1>4, <2>4 DEF EventRecord, Event!CategoryNames
  <2>5. CASE name \in Event!AmountNames /\ y \in Event!Text /\ (y # None => y.minor > 0)
    BY <1>1, <1>2, <1>4, <2>5 DEF EventRecord, Event!AmountNames
  <2> QED BY <2>1, <2>2, <2>3, <2>4, <2>5
<1> QED BY <1>3, <1>5, EventRecordIs, Zenon

\* The lines of a shopping list are changed.
LEMMA EventLinesSet ==
  ASSUME NEW f, EventFormOk("SHOPPING_LIST", f), NEW lines, NEW g, g = [f EXCEPT !.lines = lines],
         DOMAIN lines \subseteq Event!Numbers, DOMAIN lines # {}, lines \in [DOMAIN lines -> Event!Line],
         \A n \in DOMAIN lines : lines[n].amount # None => lines[n].amount.minor > 0
  PROVE  EventFormOk("SHOPPING_LIST", g)
<1>1. EventRecord(f, f.lines)
  BY EventRecordIs
<1>2. /\ EventRecord(g, lines) /\ g.lines = lines /\ g.amount = f.amount /\ g.sourceAmount = f.sourceAmount
      /\ g.destinationAmount = f.destinationAmount /\ g.feeAmount = f.feeAmount
  BY <1>1 DEF EventRecord
<1> QED BY <1>2, EventRecordIs, Zenon

LEMMA EventNewLine ==
  /\ Event!NewLine \in Event!Line /\ Event!NewLine.amount = None
<1>1. None \in Event!Text
  BY DEF Event!Text
<1> QED BY <1>1, EventAddresses DEF Event!NewLine, Event!Line

LEMMA EventNewForm ==
  ASSUME NEW type \in Event!Types, NEW now \in Instants
  PROVE  EventFormOk(type, Event!NewForm(type, now))
<1>1. LocalTime[now] \in Labels
  <2>1. LocalTime \in [Instants -> Labels]
    BY EventAssumption, Zenon
  <2> QED BY <2>1
<1>2. PICK b : b = Event!Blank(LocalTime[now])
  OBVIOUS
<1>3. /\ Event!IsForm(b) /\ DOMAIN b.lines = {} /\ b.amount = None /\ b.feeAmount = None /\ b.sourceAmount = None
      /\ b.destinationAmount = None
  BY <1>1, <1>2, EventBlank
<1>4. CASE type # "SHOPPING_LIST"
  BY <1>2, <1>3, <1>4 DEF EventFormOk, Event!NewForm
<1>5. CASE type = "SHOPPING_LIST"
  <2>1. PICK lines : lines = [n \in {1} |-> Event!NewLine]
    OBVIOUS
  <2>2. /\ DOMAIN lines = {1} /\ lines \in [DOMAIN lines -> Event!Line]
        /\ \A n \in DOMAIN lines : lines[n].amount = None
    BY <2>1, EventNewLine
  <2>3. {1} \subseteq Event!Numbers
    BY EventNumbers DEF Event!Numbers
  <2>4. PICK g : g = [b EXCEPT !.lines = lines]
    OBVIOUS
  <2>5. Event!NewForm(type, now) = g
    BY <1>2, <1>5, <2>1, <2>4 DEF Event!NewForm
  <2>6. EventRecord(b, b.lines)
    BY <1>3 DEF Event!IsForm, EventRecord
  <2>7. /\ EventRecord(g, lines) /\ g.lines = lines /\ g.amount = None /\ g.sourceAmount = None
        /\ g.destinationAmount = None /\ g.feeAmount = None
    BY <1>3, <2>4, <2>6 DEF EventRecord
  <2> QED BY <1>5, <2>2, <2>3, <2>5, <2>7, EventRecordIs
<1> QED BY <1>4, <1>5

\* What is being saved is what some form sent and showed.
EventSaved(type, q) ==
  \E f : /\ EventFormOk(type, f) /\ Event!Payload(type, f) = q.movements /\ q.movements # None
         /\ Event!Screen(type, f) = q.screen /\ ParseTime[f.time] = q.time /\ q.time # None

\* An event that an editor wrote is as it was when it is opened and saved again.
EventKept(e) ==
  /\ Event!IsEvent(e) /\ Event!Valid(e)
  /\ ~ e.api => ParseTime[LocalTime[e.time]] = e.time /\ Event!Payload(e.type, Event!FormOf(e)) = e.movements

EventServer(s) ==
  /\ s \in Seq(Event!Range(s)) /\ Len(s) <= MaxEvents
  /\ \A i \in DOMAIN s : EventKept(s[i])

EventRecordOf(u, form, http) ==
  u \in [open: BOOLEAN, event: 0..MaxEvents, type: Event!Types, form: {form}, saving: BOOLEAN, error: BOOLEAN,
         http: {http}, edits: 0..MaxEdits, kept: Nat, lost: BOOLEAN]

\* The editor u beside the events s: it says that it saves while it does, what
\* it saves is what a form showed, and it creates an event once.
EventPage(u, s) ==
  /\ EventRecordOf(u, u.form, u.http)
  /\ u.saving <=> u.http # None
  /\ u.http # None => /\ u.open /\ EventSaved(u.type, u.http)
                      /\ \E D, E \in SUBSET Event!Numbers : u.http \in Event!Asked(D, E)
  /\ u.event = 0 \/ u.event \in DOMAIN s
  /\ u.open => EventFormOk(u.type, u.form)
  /\ ~ u.lost => u.kept \in {0, 1} /\ (u.kept = 1 => u.http # None /\ u.http.at = "answered")

EventInv == EventServer(server) /\ EventPage(ui, server)

LEMMA EventChanges ==
  ASSUME EventInv, EventPage(ui', server), UNCHANGED server
  PROVE  EventInv'
BY DEF EventInv, EventPage, EventServer, EventRecordOf

LEMMA EventEdits ==
  ASSUME EventInv, ui.open, NEW f, EventFormOk(ui.type, f), Event!Edit(f)
  PROVE  EventInv'
<1>1. EventPage(ui, server) /\ MaxEdits \in Nat
  BY EventNumbers DEF EventInv
<1>2. ui' = [ui EXCEPT !.form = f, !.error = FALSE, !.edits = @ + 1] /\ UNCHANGED server /\ ui.edits < MaxEdits
  BY DEF Event!Edit, Event!Become
<1>3. EventRecordOf(ui, ui.form, ui.http)
  BY <1>1 DEF EventPage
<1>6. PICK n \in 0..MaxEdits : n = ui.edits + 1
  <2>1. ui.edits \in 0..MaxEdits
    BY <1>3 DEF EventRecordOf
  <2>2. ui.edits + 1 \in 0..MaxEdits
    BY <1>1, <1>2, <2>1
  <2> QED BY <2>2
<1>7. ui' = [ui EXCEPT !.form = f, !.error = FALSE, !.edits = n]
  BY <1>2, <1>6
<1>4. /\ EventRecordOf(ui', f, ui.http) /\ ui'.form = f /\ ui'.http = ui.http /\ (ui'.open <=> ui.open)
      /\ (ui'.saving <=> ui.saving) /\ ui'.type = ui.type /\ ui'.event = ui.event /\ ui'.kept = ui.kept
      /\ (ui'.lost <=> ui.lost)
  BY <1>3, <1>7, Zenon DEF EventRecordOf
<1>5. EventPage(ui', server)
  BY <1>1, <1>4 DEF EventPage
<1> QED BY <1>2, <1>5, EventChanges

LEMMA EventCloses ==
  ASSUME EventInv, Event!Become([Event!Closed EXCEPT !.edits = ui.edits])
  PROVE  EventInv'
<1>1. EventRecordOf(ui, ui.form, ui.http)
  BY DEF EventInv, EventPage
<1>2. PICK u : u = [Event!Closed EXCEPT !.edits = ui.edits]
  OBVIOUS
<1>3. /\ EventRecordOf(u, None, None) /\ u.form = None /\ u.http = None /\ ~ u.open /\ ~ u.saving /\ u.event = 0
      /\ u.kept = 0
  <2>1. ui.edits \in 0..MaxEdits /\ 0 \in 0..MaxEvents
    BY <1>1, EventNumbers DEF EventRecordOf
  <2>2. u = [open |-> FALSE, event |-> 0, type |-> "TRANSACTION", form |-> None, saving |-> FALSE, error |-> FALSE,
             http |-> None, edits |-> ui.edits, kept |-> 0, lost |-> FALSE]
    BY <1>2, Zenon DEF Event!Closed
  <2> QED BY <2>1, <2>2 DEF EventRecordOf, Event!Types
<1>4. EventPage(u, server)
  BY <1>3 DEF EventPage
<1>5. ui' = u /\ UNCHANGED server
  BY <1>2 DEF Event!Become
<1> QED BY <1>4, <1>5, EventChanges

LEMMA EventOpens ==
  ASSUME EventInv, ~ ui.open, NEW type \in Event!Types, NEW event, event = 0 \/ event \in DOMAIN server,
         NEW form, EventFormOk(type, form), Event!Opened(type, event, form)
  PROVE  EventInv'
<1>1. EventPage(ui, server) /\ EventServer(server)
  BY DEF EventInv
<1>2. event \in 0..MaxEvents
  <2>1. PICK n \in Nat : n = Len(server) /\ DOMAIN server = 1..n
    BY <1>1 DEF EventServer
  <2> QED BY <1>1, <2>1, EventNumbers DEF EventServer
<1>3. /\ ui' = [ui EXCEPT !.open = TRUE, !.type = type, !.event = event, !.form = form, !.error = FALSE,
                          !.kept = 0, !.lost = FALSE]
      /\ UNCHANGED server
  BY DEF Event!Opened, Event!Become
<1>4. EventRecordOf(ui, ui.form, ui.http) /\ ui.http = None /\ ~ ui.saving
  BY <1>1 DEF EventPage, EventRecordOf
<1>5. /\ EventRecordOf(ui', form, None) /\ ui'.form = form /\ ui'.http = None /\ ui'.open
      /\ ~ ui'.saving /\ ui'.type = type /\ ui'.event = event /\ ui'.kept = 0
  BY <1>2, <1>3, <1>4, Zenon DEF EventRecordOf
<1>6. EventPage(ui', server)
  BY <1>1, <1>5 DEF EventPage
<1> QED BY <1>3, <1>6, EventChanges

\* A payload, and the screen beside it, as they are sent.
LEMMA EventSends ==
  ASSUME NEW type \in Event!Types, NEW f, EventFormOk(type, f), NEW ms, ms = Event!Payload(type, f), ms # None,
         NEW time \in Instants
  PROVE  /\ Event!IsEvent([type |-> type, time |-> time, movements |-> ms, api |-> FALSE])
         /\ Event!Valid([type |-> type, time |-> time, movements |-> ms, api |-> FALSE])
         /\ EventLike(type, f, Event!FormOf([type |-> type, time |-> time, movements |-> ms, api |-> FALSE]))
         /\ EventSays(type, f, [type |-> type, time |-> time, movements |-> ms, api |-> FALSE])
<1>1. PICK e : e = [type |-> type, time |-> time, movements |-> ms, api |-> FALSE]
  OBVIOUS
<1>2. /\ e.type = type /\ e.movements = ms /\ e \in [type: Event!Types, time: Instants, movements: {e.movements}, api: BOOLEAN]
  BY <1>1
<1>3. /\ type = "TRANSACTION" => ms = Event!TransactionPayload(f)
      /\ type = "SHOPPING_LIST" => ms = Event!ShoppingListPayload(f)
      /\ type = "ACCOUNT_TRANSFER" => ms = Event!TransferPayload(f)
  BY DEF Event!Payload
<1>4. Event!IsEvent(e) /\ Event!Valid(e) /\ EventLike(type, f, Event!FormOf(e)) /\ EventSays(type, f, e)
  <2>1. CASE type = "TRANSACTION"
    BY <1>2, <1>3, <2>1, EventTransactionBack
  <2>2. CASE type = "SHOPPING_LIST"
    BY <1>2, <1>3, <2>2, EventListBack
  <2>3. CASE type = "ACCOUNT_TRANSFER"
    BY <1>2, <1>3, <2>3, EventTransferBack
  <2> QED BY <2>1, <2>2, <2>3 DEF Event!Types
<1> QED BY <1>1, <1>4

\* Such an event is opened, and saved again, as it was; and, if its time reads
\* as it did, the screen is the same.
LEMMA EventReturns ==
  ASSUME NEW type \in Event!Types, NEW f, EventFormOk(type, f), NEW e, e.type = type, e.movements = Event!Payload(type, f),
         Event!IsEvent(e), Event!Valid(e), EventLike(type, f, Event!FormOf(e))
  PROVE  /\ Event!Payload(type, Event!FormOf(e)) = e.movements
         /\ LocalTime[e.time] = f.time => Event!Screen(type, Event!FormOf(e)) = Event!Screen(type, f)
<1>1. EventFormOk(type, Event!FormOf(e)) /\ Event!FormOf(e).time = LocalTime[e.time]
  BY EventReopens
<1>2. Event!IsForm(f) /\ Event!IsForm(Event!FormOf(e))
  BY <1>1 DEF EventFormOk
<1>3. Event!Payload(type, Event!FormOf(e)) = e.movements
  BY <1>2, EventSamePayload
<1>4. ASSUME LocalTime[e.time] = f.time
      PROVE  Event!Screen(type, Event!FormOf(e)) = Event!Screen(type, f)
  BY <1>1, <1>4, EventSameScreen
<1> QED BY <1>3, <1>4

LEMMA EventSequence ==
  ASSUME NEW T, NEW s \in Seq(T)
  PROVE  s \in Seq(Event!Range(s)) /\ DOMAIN s = 1..Len(s) /\ Len(s) \in Nat
BY DEF Event!Range

LEMMA EventInit == Event!Init => EventInv
<1> SUFFICES ASSUME Event!Init
             PROVE  EventInv
  OBVIOUS
<1>1. ui = Event!Closed /\ (server = <<>> \/ \E e \in FirstEvents : server = <<e>>)
  BY DEF Event!Init
<1>2. EventServer(server)
  <2>1. CASE server = <<>>
    <3>1. server \in Seq({}) /\ Len(server) = 0 /\ DOMAIN server = {}
      BY <2>1
    <3> QED BY <3>1, EventSequence, EventNumbers DEF EventServer
  <2>2. ASSUME NEW e \in FirstEvents, server = <<e>>
        PROVE  EventServer(server)
    <3>1. server \in Seq({e}) /\ Len(server) = 1 /\ DOMAIN server = {1} /\ server[1] = e
      BY <2>2
    <3>2. Event!IsEvent(e) /\ Event!Valid(e) /\ e.api
      BY EventAssumption
    <3> QED BY <3>1, <3>2, EventSequence, EventNumbers DEF EventServer, EventKept
  <2> QED BY <1>1, <2>1, <2>2
<1>3. EventRecordOf(ui, None, None) /\ ui.form = None /\ ui.http = None /\ ~ ui.open /\ ~ ui.saving /\ ui.event = 0 /\ ui.kept = 0
  <2>1. 0 \in 0..MaxEdits /\ 0 \in 0..MaxEvents
    BY EventNumbers
  <2> QED BY <1>1, <2>1 DEF Event!Closed, EventRecordOf, Event!Types
<1>4. EventPage(ui, server)
  BY <1>3 DEF EventPage
<1> QED BY <1>2, <1>4 DEF EventInv

LEMMA EventAdds ==
  ASSUME EventInv, ui.open, ui.type = "SHOPPING_LIST", Event!AddMovement
  PROVE  EventInv'
<1>1. EventFormOk(ui.type, ui.form)
  BY DEF EventInv, EventPage
<1>2. PICK lines : lines = ui.form.lines
  OBVIOUS
<1>3. PICK n \in Event!Numbers :
        Event!Edit([ui.form EXCEPT !.lines = [k \in DOMAIN lines \cup {n} |-> IF k = n THEN Event!NewLine ELSE lines[k]]])
  BY <1>2, Zenon DEF Event!AddMovement
<1>4. PICK more : more = [k \in DOMAIN lines \cup {n} |-> IF k = n THEN Event!NewLine ELSE lines[k]]
  BY Zenon
<1>5. /\ DOMAIN lines \subseteq Event!Numbers /\ lines \in [DOMAIN lines -> Event!Line]
      /\ \A k \in DOMAIN lines : lines[k].amount # None => lines[k].amount.minor > 0
  BY <1>1, <1>2, EventRecordIs
<1>6. DOMAIN more = DOMAIN lines \cup {n}
  BY <1>4
<1>7. ASSUME NEW k \in DOMAIN more
      PROVE  more[k] \in Event!Line /\ (more[k].amount # None => more[k].amount.minor > 0)
  BY <1>4, <1>5, <1>6, EventNewLine
<1>8. more \in [DOMAIN more -> Event!Line]
  BY <1>4, <1>7
<1>9. PICK g : g = [ui.form EXCEPT !.lines = more]
  OBVIOUS
<1>10. EventFormOk("SHOPPING_LIST", g)
  BY <1>1, <1>5, <1>6, <1>7, <1>8, <1>9, EventLinesSet
<1> QED BY <1>3, <1>4, <1>9, <1>10, EventEdits

LEMMA EventRemoves ==
  ASSUME EventInv, ui.open, ui.type = "SHOPPING_LIST", NEW n \in DOMAIN ui.form.lines, Event!RemoveMovement(n)
  PROVE  EventInv'
<1>1. EventFormOk(ui.type, ui.form)
  BY DEF EventInv, EventPage
<1>2. PICK lines : lines = ui.form.lines
  OBVIOUS
<1>3. /\ Event!Edit([ui.form EXCEPT !.lines = [k \in DOMAIN lines \ {n} |-> lines[k]]])
      /\ Cardinality(DOMAIN lines) > 1
  BY <1>2, EventCardinality DEF Event!RemoveMovement
<1>4. PICK less : less = [k \in DOMAIN lines \ {n} |-> lines[k]]
  OBVIOUS
<1>5. /\ DOMAIN lines \subseteq Event!Numbers /\ lines \in [DOMAIN lines -> Event!Line]
      /\ \A k \in DOMAIN lines : lines[k].amount # None => lines[k].amount.minor > 0
  BY <1>1, <1>2, EventRecordIs
<1>6. DOMAIN less = DOMAIN lines \ {n}
  BY <1>4
<1>7. DOMAIN less # {}
  <2>1. SUFFICES ASSUME DOMAIN less = {}
                 PROVE  FALSE
    OBVIOUS
  <2>2. DOMAIN lines = {n}
    BY <1>2, <1>6, <2>1
  <2>3. Cardinality(DOMAIN lines) = 1
    BY <2>2, FS_Singleton, Zenon
  <2> QED BY <1>3, <2>3
<1>8. ASSUME NEW k \in DOMAIN less
      PROVE  less[k] \in Event!Line /\ (less[k].amount # None => less[k].amount.minor > 0)
  BY <1>4, <1>5, <1>6
<1>9. less \in [DOMAIN less -> Event!Line]
  BY <1>4, <1>8
<1>10. PICK g : g = [ui.form EXCEPT !.lines = less]
  OBVIOUS
<1>11. EventFormOk("SHOPPING_LIST", g)
  BY <1>1, <1>5, <1>6, <1>7, <1>8, <1>9, <1>10, EventLinesSet
<1> QED BY <1>3, <1>4, <1>10, <1>11, EventEdits

LEMMA EventLineSet ==
  ASSUME EventInv, ui.open, ui.type = "SHOPPING_LIST", NEW n \in DOMAIN ui.form.lines, NEW l \in Event!Line,
         l.amount # None => l.amount.minor > 0,
         Event!Edit([ui.form EXCEPT !.lines = [ui.form.lines EXCEPT ![n] = l]])
  PROVE  EventInv'
<1>1. EventFormOk(ui.type, ui.form)
  BY DEF EventInv, EventPage
<1>2. PICK old : old = ui.form.lines
  OBVIOUS
<1>3. PICK lines : lines = [old EXCEPT ![n] = l]
  OBVIOUS
<1>4. /\ DOMAIN old \subseteq Event!Numbers /\ old \in [DOMAIN old -> Event!Line]
      /\ \A k \in DOMAIN old : old[k].amount # None => old[k].amount.minor > 0
  BY <1>1, <1>2, EventRecordIs
<1>5. DOMAIN lines = DOMAIN old /\ n \in DOMAIN old /\ \A k \in DOMAIN old : lines[k] = IF k = n THEN l ELSE old[k]
  BY <1>2, <1>3, <1>4
<1>6. /\ lines \in [DOMAIN lines -> Event!Line]
      /\ \A k \in DOMAIN lines : lines[k].amount # None => lines[k].amount.minor > 0
  BY <1>3, <1>4, <1>5
<1>7. PICK g : g = [ui.form EXCEPT !.lines = lines]
  OBVIOUS
<1>8. EventFormOk("SHOPPING_LIST", g)
  BY <1>1, <1>4, <1>5, <1>6, <1>7, EventLinesSet
<1> QED BY <1>2, <1>3, <1>7, <1>8, EventEdits

LEMMA EventSetsLine ==
  ASSUME EventInv, ui.open, ui.type = "SHOPPING_LIST", NEW n \in DOMAIN ui.form.lines, Event!SetMovement(n)
  PROVE  EventInv'
<1>1. EventFormOk(ui.type, ui.form) /\ Event!IsForm(ui.form)
  BY DEF EventInv, EventPage, EventFormOk
<1>2. PICK old : old = ui.form.lines[n]
  OBVIOUS
<1>3. /\ old \in [category: Event!AllCategories, quantity: Quantities, amount: Event!Text]
      /\ old.amount # None => old.amount.minor > 0
      /\ ui.form.account \in Event!AllAccounts
  BY <1>1, <1>2, EventRows, EventRecordIs, EventFields DEF Event!Line
<1>4. ASSUME NEW name, NEW y, NEW l, l = [old EXCEPT ![name] = y],
             Event!Edit([ui.form EXCEPT !.lines[n][name] = y]), l \in Event!Line, l.amount # None => l.amount.minor > 0
      PROVE  EventInv'
  <2>1. [ui.form EXCEPT !.lines[n][name] = y] = [ui.form EXCEPT !.lines = [ui.form.lines EXCEPT ![n] = l]]
    BY <1>2, <1>4
  <2> QED BY <1>4, <2>1, EventLineSet, Zenon
<1>5. ASSUME NEW c \in Event!AllCategories, Event!Edit([ui.form EXCEPT !.lines[n].category = c])
      PROVE  EventInv'
  <2>1. PICK l : l = [old EXCEPT !["category"] = c]
    OBVIOUS
  <2>2. l \in Event!Line /\ (l.amount # None => l.amount.minor > 0)
    BY <1>3, <2>1 DEF Event!Line
  <2> QED BY <1>4, <1>5, <2>1, <2>2, Zenon
<1>6. ASSUME NEW q \in Quantities, Event!Edit([ui.form EXCEPT !.lines[n].quantity = q])
      PROVE  EventInv'
  <2>1. PICK l : l = [old EXCEPT !["quantity"] = q]
    OBVIOUS
  <2>2. l \in Event!Line /\ (l.amount # None => l.amount.minor > 0)
    BY <1>3, <2>1 DEF Event!Line
  <2> QED BY <1>4, <1>6, <2>1, <2>2, Zenon
<1>7. ASSUME NEW minor \in Typed, Event!Edit([ui.form EXCEPT !.lines[n].amount = Event!Input(minor, ui.form.account)])
      PROVE  EventInv'
  <2>1. PICK y : y = Event!Input(minor, ui.form.account)
    OBVIOUS
  <2>2. y \in Event!Text /\ (y # None => y.minor > 0)
    BY <1>3, <2>1, EventTyped
  <2>3. PICK l : l = [old EXCEPT !["amount"] = y]
    OBVIOUS
  <2>4. l \in Event!Line /\ (l.amount # None => l.amount.minor > 0)
    BY <1>3, <2>2, <2>3 DEF Event!Line
  <2> QED BY <1>4, <1>7, <2>1, <2>3, <2>4
<1> QED BY <1>5, <1>6, <1>7, Zenon DEF Event!SetMovement

LEMMA EventReplaced ==
  ASSUME NEW T, NEW s \in Seq(T), NEW i, NEW e \in T
  PROVE  [s EXCEPT ![i] = e] \in Seq(T) /\ Len([s EXCEPT ![i] = e]) = Len(s)
<1>1. PICK n \in Nat : n = Len(s) /\ DOMAIN s = 1..n /\ s \in [1..n -> T]
  OBVIOUS
<1>2. PICK r : r = [s EXCEPT ![i] = e]
  OBVIOUS
<1>3. r \in [1..n -> T] /\ DOMAIN r = 1..n
  BY <1>1, <1>2, Zenon
<1>4. r \in Seq(T) /\ Len(r) = n
  BY <1>3
<1> QED BY <1>1, <1>2, <1>4

LEMMA EventTimes ==
  ASSUME NEW l \in Labels, ParseTime[l] # None
  PROVE  ParseTime[l] \in Instants /\ ParseTime[LocalTime[ParseTime[l]]] = ParseTime[l]
<1>1. /\ ParseTime \in [Labels -> Instants \cup {None}]
      /\ \A k \in Labels : ParseTime[k] # None => ParseTime[LocalTime[ParseTime[k]]] = ParseTime[k]
  BY EventAssumption, Zenon
<1> QED BY <1>1

LEMMA EventSaves ==
  ASSUME EventInv, Event!Save
  PROVE  EventInv'
<1>1. EventPage(ui, server) /\ ui.open /\ ~ ui.saving
  BY DEF EventInv, Event!Save
<1>2. EventRecordOf(ui, ui.form, ui.http) /\ EventFormOk(ui.type, ui.form) /\ ui.http = None
  BY <1>1 DEF EventPage
<1>3. PICK ms : ms = Event!Payload(ui.type, ui.form)
  OBVIOUS
<1>4. PICK screen : screen = Event!Screen(ui.type, ui.form)
  OBVIOUS
<1>5. PICK time : time = ParseTime[ui.form.time]
  OBVIOUS
<1>6. PICK q : q = [at |-> "sent", time |-> time, movements |-> ms, screen |-> screen]
  OBVIOUS
<1>7. /\ ui' = IF ms = None \/ time = None THEN [ui EXCEPT !.error = TRUE]
               ELSE [ui EXCEPT !.saving = TRUE, !.error = FALSE, !.http = q]
      /\ UNCHANGED server
  BY <1>3, <1>4, <1>5, <1>6, Zenon DEF Event!Save, Event!Become
<1>8. CASE ms = None \/ time = None
  <2>1. /\ EventRecordOf(ui', ui.form, ui.http) /\ ui'.form = ui.form /\ ui'.http = ui.http /\ (ui'.open <=> ui.open)
        /\ (ui'.saving <=> ui.saving) /\ ui'.type = ui.type /\ ui'.event = ui.event /\ ui'.kept = ui.kept
        /\ (ui'.lost <=> ui.lost)
    BY <1>2, <1>7, <1>8, Zenon DEF EventRecordOf
  <2>2. EventPage(ui', server)
    BY <1>1, <2>1 DEF EventPage
  <2> QED BY <1>7, <2>2, EventChanges
<1>9. CASE ~ (ms = None \/ time = None)
  <2>1. Event!IsForm(ui.form) /\ ui.form.time \in Labels /\ ui.type \in Event!Types
    BY <1>2, EventFields DEF EventFormOk, EventRecordOf
  <2>2. time \in Instants
    BY <1>5, <1>9, <2>1, EventTimes
  <2>3. PICK e : e = [type |-> ui.type, time |-> time, movements |-> ms, api |-> FALSE]
    OBVIOUS
  <2>4. Event!IsEvent(e) /\ e.movements = ms
    BY <1>2, <1>3, <1>9, <2>1, <2>2, <2>3, EventSends
  <2>5. PICK D \in SUBSET Event!Numbers : ms \in [D -> Event!Movement]
    BY <2>4 DEF Event!IsEvent, Event!IsMovements, Event!IsNumbered
  <2>6. PICK E \in SUBSET Event!Numbers : E = DOMAIN ui.form.lines
    BY <2>1, EventFields
  <2>7. screen \in [time: Labels, income: BOOLEAN, accounts: SUBSET (Event!AccountNames \X Event!AllAccounts),
                    categories: SUBSET (Event!CategoryNames \X Event!AllCategories),
                    amounts: SUBSET (Event!AmountNames \X (Nat \cup {None})),
                    lines: [E -> [category: Event!AllCategories, quantity: Quantities, amount: Nat \cup {None}]]]
    BY <1>4, <2>1, <2>6, EventScreenTyped
  <2>8. q \in Event!Asked(D, E)
    BY <1>6, <2>2, <2>5, <2>7 DEF Event!Asked
  <2>9. q # None
    BY <2>8, EventNone
  <2>10. q.time = time /\ q.movements = ms /\ q.screen = screen /\ q.at = "sent"
    BY <1>6
  <2>11. EventSaved(ui.type, q)
    BY <1>2, <1>3, <1>4, <1>5, <1>9, <2>10 DEF EventSaved
  <2>12. /\ EventRecordOf(ui', ui.form, q) /\ ui'.form = ui.form /\ ui'.http = q /\ ui'.open
         /\ ui'.saving /\ ui'.type = ui.type /\ ui'.event = ui.event /\ ui'.kept = ui.kept /\ (ui'.lost <=> ui.lost)
    BY <1>1, <1>2, <1>7, <1>9, Zenon DEF EventRecordOf
  <2>13. ~ ui'.lost => ui'.kept = 0
    BY <1>1, <1>2, <2>12 DEF EventPage
  <2>14. EventPage(ui', server)
    BY <1>1, <1>2, <2>8, <2>9, <2>11, <2>12, <2>13 DEF EventPage
  <2> QED BY <1>7, <2>14, EventChanges
<1> QED BY <1>8, <1>9

LEMMA EventStored ==
  ASSUME EventInv, ui.http # None, NEW e, e = Event!Stored(ui.http)
  PROVE  EventKept(e)
<1>1. EventRecordOf(ui, ui.form, ui.http) /\ EventSaved(ui.type, ui.http)
  BY DEF EventInv, EventPage
<1>2. PICK f : /\ EventFormOk(ui.type, f) /\ Event!Payload(ui.type, f) = ui.http.movements /\ ui.http.movements # None
               /\ ParseTime[f.time] = ui.http.time /\ ui.http.time # None
  BY <1>1 DEF EventSaved
<1>3. ui.type \in Event!Types /\ f.time \in Labels
  BY <1>1, <1>2, EventFields DEF EventRecordOf, EventFormOk
<1>4. ui.http.time \in Instants /\ ParseTime[LocalTime[ui.http.time]] = ui.http.time
  BY <1>2, <1>3, EventTimes
<1>5. e = [type |-> ui.type, time |-> ui.http.time, movements |-> ui.http.movements, api |-> FALSE]
  BY DEF Event!Stored
<1>6. e.type = ui.type /\ e.time = ui.http.time /\ e.movements = ui.http.movements /\ ~ e.api
  BY <1>5
<1>7. Event!IsEvent(e) /\ Event!Valid(e) /\ EventLike(ui.type, f, Event!FormOf(e))
  BY <1>2, <1>3, <1>4, <1>5, EventSends
<1>8. Event!Payload(ui.type, Event!FormOf(e)) = e.movements
  BY <1>2, <1>3, <1>6, <1>7, EventReturns
<1> QED BY <1>4, <1>6, <1>7, <1>8 DEF EventKept

LEMMA EventServes ==
  ASSUME EventInv, Event!Serve
  PROVE  EventInv'
<1>1. EventPage(ui, server) /\ EventServer(server) /\ ui.http # None /\ ui.http.at = "sent"
  BY DEF EventInv, Event!Serve
<1>2. PICK e : e = Event!Stored(ui.http)
  OBVIOUS
<1>3. EventKept(e)
  BY <1>1, <1>2, EventStored
<1>4. /\ ui.event = 0 => Len(server) < MaxEvents
      /\ server' = IF ui.event = 0 THEN Append(server, e) ELSE [server EXCEPT ![ui.event] = e]
  BY <1>2 DEF Event!Serve
<1>5. PICK http : http = [ui.http EXCEPT !.at = "answered"]
  OBVIOUS
<1>6. PICK kept : kept = IF ui.event = 0 THEN ui.kept + 1 ELSE ui.kept
  OBVIOUS
<1>7. ui' = [ui EXCEPT !.http = http, !.kept = kept]
  <2>1. ui' = [ui EXCEPT !.http.at = "answered", !.kept = IF ui.event = 0 THEN @ + 1 ELSE @]
    BY DEF Event!Serve
  <2> QED BY <1>5, <1>6, <2>1
<1>8. EventRecordOf(ui, ui.form, ui.http) /\ EventSaved(ui.type, ui.http) /\ ui.open /\ ui.saving
  BY <1>1 DEF EventPage
<1>9. PICK D \in SUBSET Event!Numbers, E \in SUBSET Event!Numbers : ui.http \in Event!Asked(D, E)
  BY <1>1 DEF EventPage
<1>10. /\ http \in Event!Asked(D, E) /\ http.at = "answered" /\ http.time = ui.http.time
       /\ http.movements = ui.http.movements /\ http.screen = ui.http.screen
  BY <1>5, <1>9 DEF Event!Asked
<1>11. http # None
  BY <1>10, EventNone
<1>12. EventSaved(ui.type, http)
  BY <1>8, <1>10 DEF EventSaved
<1>13. /\ EventRecordOf(ui', ui.form, http) /\ ui'.form = ui.form /\ ui'.http = http /\ ui'.open
       /\ ui'.saving /\ ui'.type = ui.type /\ ui'.event = ui.event /\ ui'.kept = kept /\ (ui'.lost <=> ui.lost)
  <2>1. ui.kept \in Nat
    BY <1>8 DEF EventRecordOf
  <2>2. kept \in Nat
    BY <1>6, <2>1
  <2> QED BY <1>7, <1>8, <2>2, Zenon DEF EventRecordOf
<1>14. ~ ui'.lost => ui'.kept \in {0, 1}
  <2>1. ~ ui.lost => ui.kept = 0
    BY <1>1 DEF EventPage
  <2> QED BY <1>6, <1>13, <2>1
<1>15. DOMAIN server = 1..Len(server) /\ Len(server) \in Nat /\ Len(server) <= MaxEvents /\ MaxEvents \in Nat
       /\ \A i \in DOMAIN server : EventKept(server[i])
  BY <1>1, EventSequence, EventNumbers DEF EventServer
<1>16. PICK T : T = Event!Range(server) \cup {e}
  OBVIOUS
<1>17. server \in Seq(T)
  BY <1>1, <1>16 DEF EventServer
<1>18. /\ server' \in Seq(T) /\ Len(server') <= MaxEvents /\ DOMAIN server \subseteq DOMAIN server'
       /\ \A i \in DOMAIN server' : server'[i] = e \/ (i \in DOMAIN server /\ server'[i] = server[i])
  <2>1. CASE ui.event = 0
    <3>1. server' = Append(server, e) /\ Len(server) < MaxEvents
      BY <1>4, <2>1
    <3>2. /\ server' \in Seq(T) /\ Len(server') = Len(server) + 1
          /\ \A i \in 1..Len(server') : server'[i] = IF i = Len(server) + 1 THEN e ELSE server[i]
      BY <1>16, <1>17, <3>1
    <3>3. DOMAIN server' = 1..Len(server')
      BY <3>2
    <3> QED BY <1>15, <3>1, <3>2, <3>3
  <2>2. CASE ui.event # 0
    <3>1. server' = [server EXCEPT ![ui.event] = e]
      BY <1>4, <2>2
    <3>4. e \in T
      BY <1>16
    <3>5. PICK s \in Seq(T) : s = server
      BY <1>17
    <3>6. [s EXCEPT ![ui.event] = e] \in Seq(T) /\ Len([s EXCEPT ![ui.event] = e]) = Len(s)
      BY <3>4, EventReplaced
    <3>2. server' \in Seq(T) /\ Len(server') = Len(server)
      BY <3>1, <3>5, <3>6
    <3>3. DOMAIN server' = DOMAIN server /\ \A i \in DOMAIN server : server'[i] = IF i = ui.event THEN e ELSE server[i]
      BY <1>17, <3>1
    <3> QED BY <1>15, <3>2, <3>3
  <2> QED BY <2>1, <2>2
<1>19. server' \in Seq(Event!Range(server'))
  BY <1>18, EventSequence
<1>20. \A i \in DOMAIN server' : EventKept(server'[i])
  BY <1>3, <1>15, <1>18
<1>21. EventServer(server')
  BY <1>18, <1>19, <1>20 DEF EventServer
<1>22. EventPage(ui', server')
  BY <1>1, <1>8, <1>10, <1>11, <1>12, <1>13, <1>14, <1>18 DEF EventPage
<1> QED BY <1>21, <1>22, Zenon DEF EventInv, EventServer, EventPage, EventRecordOf

LEMMA EventFails ==
  ASSUME EventInv, Event!Fail
  PROVE  EventInv'
<1>1. EventPage(ui, server) /\ ui.http # None
  BY DEF EventInv, Event!Fail
<1>2. EventRecordOf(ui, ui.form, ui.http)
  BY <1>1 DEF EventPage
<1>3. PICK lost \in BOOLEAN : lost = (ui.lost \/ ui.http.at = "answered")
  <2>1. (ui.lost \/ ui.http.at = "answered") \in BOOLEAN
    OBVIOUS
  <2> QED BY <2>1, Zenon
<1>4. ui' = [ui EXCEPT !.http = None, !.saving = FALSE, !.error = TRUE, !.lost = lost] /\ UNCHANGED server
  <2>1. /\ ui' = [ui EXCEPT !.http = None, !.saving = FALSE, !.error = TRUE, !.lost = ui.lost \/ ui.http.at = "answered"]
        /\ UNCHANGED server
    BY DEF Event!Fail, Event!Become
  <2> QED BY <1>3, <2>1
<1>5. /\ EventRecordOf(ui', ui.form, None) /\ ui'.form = ui.form /\ ui'.http = None /\ (ui'.open <=> ui.open)
      /\ ~ ui'.saving /\ ui'.type = ui.type /\ ui'.event = ui.event /\ ui'.kept = ui.kept
      /\ (ui'.lost <=> (ui.lost \/ ui.http.at = "answered"))
  BY <1>2, <1>3, <1>4, Zenon DEF EventRecordOf
<1>6. EventPage(ui', server)
  BY <1>1, <1>5 DEF EventPage
<1> QED BY <1>4, <1>6, EventChanges

LEMMA EventSetsField ==
  ASSUME EventInv, ui.open, NEW name, NEW y, Event!Edit([ui.form EXCEPT ![name] = y]),
         \/ name = "time" /\ y \in Labels
         \/ name \in {"income", "feeEnabled"} /\ y \in BOOLEAN
         \/ name \in Event!AccountNames /\ y \in Event!AllAccounts
         \/ name \in Event!CategoryNames /\ y \in Event!AllCategories
         \/ name \in Event!AmountNames /\ y \in Event!Text /\ (y # None => y.minor > 0)
  PROVE  EventInv'
<1>1. EventFormOk(ui.type, ui.form)
  BY DEF EventInv, EventPage
<1>2. PICK g : g = [ui.form EXCEPT ![name] = y]
  OBVIOUS
<1>3. EventFormOk(ui.type, g)
  BY <1>1, <1>2, EventFieldSet
<1> QED BY <1>2, <1>3, EventEdits

LEMMA EventSetsAmount ==
  ASSUME EventInv, NEW minor \in Typed, Event!SetAmount(minor)
  PROVE  EventInv'
<1>1. ui.open /\ EventFormOk(ui.type, ui.form) /\ ui.type \in Event!Types
  BY DEF EventInv, EventPage, EventRecordOf, Event!SetAmount
<1>2. Event!IsForm(ui.form)
  BY <1>1 DEF EventFormOk
<1>3. /\ ui.form.account \in Event!AllAccounts /\ ui.form.source \in Event!AllAccounts
      /\ ui.form.destination \in Event!AllAccounts
  BY <1>2, EventFields
<1>4. PICK t \in Event!AmountFields(ui.type, ui.form) \cup Event!FeeField(ui.type, ui.form) :
        Event!Edit([ui.form EXCEPT ![t[1]] = Event!Input(minor, t[2])])
  BY Zenon DEF Event!SetAmount
<1>5. PICK name \in Event!AmountNames, a \in Event!AllAccounts : t = <<name, a>>
  <2>1. CASE t \in Event!FeeField(ui.type, ui.form)
    BY <1>3, <2>1 DEF Event!FeeField, Event!AmountNames
  <2>2. CASE t \in Event!AmountFields(ui.type, ui.form) /\ ui.type = "TRANSACTION"
    BY <1>3, <2>2 DEF Event!AmountFields, Event!AmountNames
  <2>3. CASE t \in Event!AmountFields(ui.type, ui.form) /\ ui.type = "SHOPPING_LIST"
    BY <2>3 DEF Event!AmountFields
  <2>4. CASE t \in Event!AmountFields(ui.type, ui.form) /\ ui.type = "ACCOUNT_TRANSFER"
    BY <1>3, <2>4 DEF Event!AmountFields, Event!AmountNames
  <2> QED BY <1>1, <1>4, <2>1, <2>2, <2>3, <2>4 DEF Event!Types
<1>6. t[1] = name /\ t[2] = a
  BY <1>5, EventPairOf
<1>7. PICK y : y = Event!Input(minor, a)
  OBVIOUS
<1>8. y \in Event!Text /\ (y # None => y.minor > 0)
  BY <1>7, EventTyped
<1>9. Event!Edit([ui.form EXCEPT ![name] = y])
  BY <1>4, <1>6, <1>7
<1> QED BY <1>1, <1>5, <1>8, <1>9, EventSetsField

LEMMA EventNext == EventInv /\ (Event!Next \/ UNCHANGED <<ui, server>>) => EventInv'
<1> SUFFICES ASSUME EventInv, Event!Next \/ UNCHANGED <<ui, server>>
             PROVE  EventInv'
  OBVIOUS
<1>1. EventPage(ui, server) /\ EventServer(server)
  BY DEF EventInv
<1>2. CASE UNCHANGED <<ui, server>>
  <2>1. EventPage(ui', server) /\ UNCHANGED server
    BY <1>1, <1>2
  <2> QED BY <2>1, EventChanges
<1>3. ASSUME NEW type \in Event!Types, NEW now \in Instants, Event!OpenNew(type, now)
      PROVE  EventInv'
  <2>1. ~ ui.open /\ Event!Opened(type, 0, Event!NewForm(type, now))
    BY <1>3 DEF Event!OpenNew
  <2> QED BY <2>1, EventNewForm, EventOpens
<1>4. ASSUME NEW i \in 1..MaxEvents, Event!OpenEvent(i)
      PROVE  EventInv'
  <2>1. ~ ui.open /\ i \in DOMAIN server /\ Event!Opened(server[i].type, i, Event!FormOf(server[i]))
    BY <1>4 DEF Event!OpenEvent
  <2>2. EventKept(server[i])
    BY <1>1, <2>1 DEF EventServer
  <2>3. Event!IsEvent(server[i]) /\ Event!Valid(server[i])
    BY <2>2 DEF EventKept
  <2>4. EventFormOk(server[i].type, Event!FormOf(server[i])) /\ server[i].type \in Event!Types
    BY <2>3, EventReopens, EventLabel
  <2> QED BY <2>1, <2>4, EventOpens
<1>5. ASSUME NEW l \in Labels, Event!SetTime(l)
      PROVE  EventInv'
  <2>1. ui.open /\ Event!Edit([ui.form EXCEPT !["time"] = l])
    BY <1>5 DEF Event!SetTime
  <2> QED BY <2>1, EventSetsField
<1>6. ASSUME NEW b \in BOOLEAN, Event!SetDirection(b)
      PROVE  EventInv'
  <2>1. ui.open /\ Event!Edit([ui.form EXCEPT !["income"] = b])
    BY <1>6 DEF Event!SetDirection
  <2> QED BY <2>1, EventSetsField
<1>7. ASSUME NEW field \in Event!AccountNames, NEW a \in Event!AllAccounts, Event!SetAccount(field, a)
      PROVE  EventInv'
  <2>1. ui.open /\ Event!Edit([ui.form EXCEPT ![field] = a])
    BY <1>7 DEF Event!SetAccount
  <2> QED BY <2>1, EventSetsField
<1>8. ASSUME NEW field \in Event!CategoryNames, NEW c \in Event!AllCategories, Event!SetCategory(field, c)
      PROVE  EventInv'
  <2>1. ui.open /\ Event!Edit([ui.form EXCEPT ![field] = c])
    BY <1>8 DEF Event!SetCategory
  <2> QED BY <2>1, EventSetsField
<1>9. CASE Event!ToggleFee
  <2>1. ui.open /\ Event!Edit([ui.form EXCEPT !.feeEnabled = ~ @]) /\ EventFormOk(ui.type, ui.form)
    BY <1>1, <1>9 DEF Event!ToggleFee, EventPage
  <2>2. EventRecord(ui.form, ui.form.lines)
    BY <2>1, EventRecordIs
  <2>3. PICK b \in BOOLEAN : b = ~ ui.form.feeEnabled
    <3>1. (~ ui.form.feeEnabled) \in BOOLEAN
      OBVIOUS
    <3> QED BY <3>1, Zenon
  <2>4. [ui.form EXCEPT !.feeEnabled = ~ @] = [ui.form EXCEPT !["feeEnabled"] = b]
    BY <2>2, <2>3 DEF EventRecord
  <2> QED BY <2>1, <2>4, EventSetsField
<1>10. CASE Event!EditLines
  <2>1. /\ ui.open /\ ui.type = "SHOPPING_LIST"
        /\ Event!AddMovement \/ \E n \in DOMAIN ui.form.lines : Event!RemoveMovement(n) \/ Event!SetMovement(n)
    BY <1>10, Zenon DEF Event!EditLines
  <2> QED BY <2>1, EventAdds, EventRemoves, EventSetsLine, Zenon
<1>11. CASE Event!RequestClose \/ Event!Leave \/ Event!SaveAnswer
  <2>1. Event!Become([Event!Closed EXCEPT !.edits = ui.edits])
    BY <1>11 DEF Event!RequestClose, Event!Leave, Event!SaveAnswer
  <2> QED BY <2>1, EventCloses
<1> QED BY <1>2, <1>3, <1>4, <1>5, <1>6, <1>7, <1>8, <1>9, <1>10, <1>11, EventSetsAmount, EventSaves, EventServes,
           EventFails, Zenon DEF Event!Next

LEMMA EventTypes == EventInv => Event!TypeOK /\ Event!BusyIsPending
<1> SUFFICES ASSUME EventInv
             PROVE  Event!TypeOK /\ Event!BusyIsPending
  OBVIOUS
<1>1. EventPage(ui, server) /\ EventServer(server)
  BY DEF EventInv
<1>2. ui \in [open: BOOLEAN, event: 0..MaxEvents, type: Event!Types, form: {ui.form}, saving: BOOLEAN, error: BOOLEAN,
              http: {ui.http}, edits: 0..MaxEdits, kept: Nat, lost: BOOLEAN]
  BY <1>1 DEF EventPage, EventRecordOf
<1>3. ui.open => Event!IsForm(ui.form)
  BY <1>1 DEF EventPage, EventFormOk
<1>4. ui.http # None => \E D, E \in SUBSET Event!Numbers : ui.http \in Event!Asked(D, E)
  BY <1>1 DEF EventPage
<1>5. server \in Seq(Event!Range(server)) /\ Len(server) <= MaxEvents /\ \A i \in DOMAIN server : Event!IsEvent(server[i])
  BY <1>1 DEF EventServer, EventKept
<1>6. ui.saving <=> ui.http # None
  BY <1>1 DEF EventPage
<1> QED BY <1>2, <1>3, <1>4, <1>5, <1>6, Zenon DEF Event!TypeOK, Event!BusyIsPending

LEMMA EventShows == EventInv => Event!SavedAsShown
<1> SUFFICES ASSUME EventInv, ui.http # None
             PROVE  Event!SavedAsShown
  BY DEF Event!SavedAsShown
<1>1. EventRecordOf(ui, ui.form, ui.http) /\ EventSaved(ui.type, ui.http)
  BY DEF EventInv, EventPage
<1>2. PICK f : /\ EventFormOk(ui.type, f) /\ Event!Payload(ui.type, f) = ui.http.movements /\ ui.http.movements # None
               /\ Event!Screen(ui.type, f) = ui.http.screen /\ ParseTime[f.time] = ui.http.time /\ ui.http.time # None
  BY <1>1 DEF EventSaved
<1>3. ui.type \in Event!Types /\ f.time \in Labels
  BY <1>1, <1>2, EventFields DEF EventRecordOf, EventFormOk
<1>4. ui.http.time \in Instants
  BY <1>2, <1>3, EventTimes
<1>5. PICK e : e = Event!Stored(ui.http)
  OBVIOUS
<1>6. e = [type |-> ui.type, time |-> ui.http.time, movements |-> ui.http.movements, api |-> FALSE]
  BY <1>5 DEF Event!Stored
<1>7. e.type = ui.type /\ e.movements = ui.http.movements
  BY <1>6
<1>8. Event!IsEvent(e) /\ Event!Valid(e) /\ EventLike(ui.type, f, Event!FormOf(e)) /\ EventSays(ui.type, f, e)
  BY <1>2, <1>3, <1>4, <1>6, EventSends
<1>9. PICK screen : screen = ui.http.screen
  OBVIOUS
<1>10. PICK lines : lines = {screen.lines[n].amount : n \in DOMAIN screen.lines}
  OBVIOUS
<1>11. ASSUME NEW n \in DOMAIN e.movements
       PROVE  Event!AmountInput(e.movements[n].value, e.movements[n].account).minor \in {t[2] : t \in screen.amounts} \cup lines
  <2>1. PICK x : x = Event!AmountInput(e.movements[n].value, e.movements[n].account).minor
    OBVIOUS
  <2>2. (\E t \in screen.amounts : x = t[2]) \/ (\E k \in DOMAIN screen.lines : x = screen.lines[k].amount)
    BY <1>2, <1>3, <1>8, <1>9, <2>1, EventShownAll
  <2> QED BY <1>10, <2>1, <2>2
<1>12. LocalTime[e.time] = screen.time => Event!Screen(e.type, Event!FormOf(e)) = screen
  <2>1. screen.time = f.time
    BY <1>2, <1>9, EventScreen
  <2> QED BY <1>2, <1>3, <1>7, <1>8, <1>9, <2>1, EventReturns
<1> QED BY <1>5, <1>9, <1>10, <1>11, <1>12 DEF Event!SavedAsShown

LEMMA EventHolds == EventInv => Event!TypeOK /\ Event!BusyIsPending /\ Event!SettledIsServers
<1> SUFFICES ASSUME EventInv
             PROVE  Event!TypeOK /\ Event!BusyIsPending /\ Event!SettledIsServers
  OBVIOUS
<1>1. Event!OpeningLosesNothing
  BY DEF EventInv, EventServer, EventKept, Event!OpeningLosesNothing
<1>2. ui.kept > 1 => ui.lost
  <2>1. ~ ui.lost => ui.kept \in {0, 1}
    BY DEF EventInv, EventPage
  <2> QED BY <2>1
<1> QED BY <1>1, <1>2, EventTypes, EventShows DEF Event!SettledIsServers

--------------------------------------------------------------------------------
(* The field of codes *)

\* Quotients and remainders are unique.
LEMMA Quotient ==
  ASSUME NEW b \in Nat \ {0}, NEW q \in Int, NEW r \in 0..(b - 1), NEW a \in Int, a = q * b + r
  PROVE  a \div b = q /\ a % b = r
<1>1. PICK p, s : p = a \div b /\ s = a % b
  OBVIOUS
<1>2. p \in Int /\ s \in 0..(b - 1) /\ a = b * p + s
  BY <1>1
<1>3. ASSUME NEW x \in Int, NEW y \in Int, NEW u \in 0..(b - 1), NEW v \in 0..(b - 1), x * b + u = y * b + v
      PROVE  ~ (x > y)
  <2> SUFFICES ASSUME x > y
               PROVE  FALSE
    OBVIOUS
  <2>1. PICK d \in Nat \ {0} : x = y + d
    <3>1. x - y \in Nat \ {0} /\ x = y + (x - y)
      OBVIOUS
    <3> QED BY <3>1
  <2>2. x * b = y * b + d * b
    BY <2>1
  <2>3. d * b >= b
    <3>1. d * b = (d - 1) * b + b
      OBVIOUS
    <3>2. (d - 1) * b >= 0
      <4>1. d - 1 \in Nat /\ b \in Nat
        OBVIOUS
      <4> QED BY <4>1
    <3>3. (d - 1) * b \in Int
      OBVIOUS
    <3> QED BY <3>1, <3>2, <3>3
  <2>4. y * b \in Int /\ d * b \in Int
    OBVIOUS
  <2> QED BY <1>3, <2>2, <2>3, <2>4
<1>4. q = p
  <2>1. p * b + s = q * b + r
    BY <1>2
  <2>2. ~ (p > q) /\ ~ (q > p)
    BY <1>2, <1>3, <2>1
  <2> QED BY <1>2, <2>2
<1>5. r = s
  <2>1. q * b \in Int
    OBVIOUS
  <2> QED BY <1>2, <1>4, <2>1
<1> QED BY <1>1, <1>4, <1>5

LEMMA Divided ==
  ASSUME NEW a \in Nat, NEW b \in Nat \ {0}
  PROVE  /\ a \div b \in Nat /\ a % b \in 0..(b - 1) /\ a = (a \div b) * b + (a % b) /\ a \div b <= a
<1>1. PICK p, s : p = a \div b /\ s = a % b
  OBVIOUS
<1>2. p \in Int /\ s \in 0..(b - 1) /\ a = p * b + s
  BY <1>1
<1>3. p >= 0
  <2> SUFFICES ASSUME p < 0
               PROVE  FALSE
    BY <1>2
  <2>1. PICK d \in Nat : p = - d - 1
    <3>1. - p - 1 \in Nat /\ p = - (- p - 1) - 1
      BY <1>2
    <3> QED BY <3>1
  <2>2. p * b = - (d * b) - b
    BY <2>1
  <2>3. d * b >= 0 /\ d * b \in Int
    OBVIOUS
  <2> QED BY <1>2, <2>2, <2>3
<1>4. p <= a
  <2>1. PICK c \in Nat : b = c + 1
    <3>1. b - 1 \in Nat /\ b = (b - 1) + 1
      OBVIOUS
    <3> QED BY <3>1
  <2>2. p * b = p * c + p
    BY <1>2, <2>1
  <2>3. p * c >= 0 /\ p * c \in Int
    BY <1>2, <1>3
  <2> QED BY <1>2, <2>2, <2>3
<1> QED BY <1>1, <1>2, <1>3, <1>4

\* A smaller number has no larger quotient.
LEMMA QuotientsGrow ==
  ASSUME NEW a \in Nat, NEW c \in Nat, a <= c, NEW b \in Nat \ {0}
  PROVE  a \div b <= c \div b
<1>1. PICK p \in Nat, s \in 0..(b - 1) : p = a \div b /\ a = p * b + s
  BY Divided
<1>2. PICK q \in Nat, r \in 0..(b - 1) : q = c \div b /\ c = q * b + r
  BY Divided
<1> SUFFICES ASSUME p > q
             PROVE  FALSE
  BY <1>1, <1>2
<1>3. PICK d \in Nat : p = q + 1 + d
  <2>1. p - q - 1 \in Nat /\ p = q + 1 + (p - q - 1)
    OBVIOUS
  <2> QED BY <2>1
<1>4. p * b = q * b + b + d * b
  BY <1>3
<1>5. d * b >= 0 /\ d * b \in Int /\ q * b \in Int
  OBVIOUS
<1> QED BY <1>1, <1>2, <1>4, <1>5

LEMMA CodeNumbers ==
  /\ CodeLength \in Nat \ {0} /\ GroupLength \in Nat \ {0} /\ CodeLength % GroupLength = 0
  /\ Code!Hyphen \notin Code!Alphanumeric
BY CodeAssumption, Zenon

\* Where the n-th character stands among the hyphens, and the length of n.
CodePlace(n) == n + (n - 1) \div GroupLength
CodeSize(n) == IF n = 0 THEN 0 ELSE CodePlace(n)

LEMMA CodePlaced ==
  ASSUME NEW n \in Nat \ {0}, NEW i, i = CodePlace(n)
  PROVE  i \in Nat \ {0} /\ i >= n /\ i % (GroupLength + 1) # 0 /\ i - i \div (GroupLength + 1) = n
<1>1. GroupLength \in Nat \ {0} /\ GroupLength + 1 \in Nat \ {0} /\ n - 1 \in Nat
  BY CodeNumbers
<1>2. PICK q \in Nat, r \in 0..(GroupLength - 1) : q = (n - 1) \div GroupLength /\ n - 1 = q * GroupLength + r
  BY <1>1, Divided, Zenon
<1>3. i = n + q
  BY <1>2 DEF CodePlace
<1>4. i = q * (GroupLength + 1) + (r + 1)
  <2>1. q * (GroupLength + 1) = q * GroupLength + q /\ q * GroupLength \in Int
    BY <1>1
  <2> QED BY <1>2, <1>3, <2>1
<1>5. r + 1 \in 0..((GroupLength + 1) - 1) /\ r + 1 # 0 /\ i \in Int
  BY <1>1, <1>3
<1>6. i \div (GroupLength + 1) = q /\ i % (GroupLength + 1) = r + 1
  BY <1>1, <1>4, <1>5, Quotient
<1> QED BY <1>3, <1>5, <1>6

LEMMA CodeUnplaced ==
  ASSUME NEW i \in Nat \ {0}, i % (GroupLength + 1) # 0, NEW n, n = i - i \div (GroupLength + 1)
  PROVE  n \in Nat \ {0} /\ i = CodePlace(n)
<1>1. PICK g \in Nat \ {0} : g = GroupLength
  BY CodeNumbers
<1>2. PICK q \in Nat, r \in 0..((g + 1) - 1) : q = i \div (g + 1) /\ r = i % (g + 1) /\ i = q * (g + 1) + r
  <2>1. g + 1 \in Nat \ {0}
    OBVIOUS
  <2>2. i \div (g + 1) \in Nat /\ i % (g + 1) \in 0..((g + 1) - 1) /\ i = (i \div (g + 1)) * (g + 1) + (i % (g + 1))
    BY <2>1, Divided, Zenon
  <2> QED BY <2>2
<1>3. PICK x \in Nat : x = q * g
  <2>1. q * g \in Nat
    OBVIOUS
  <2> QED BY <2>1
<1>4. i = x + q + r
  <2>1. q * (g + 1) = q * g + q
    OBVIOUS
  <2> QED BY <1>2, <1>3, <2>1, Zenon
<1>5. n = i - q /\ r # 0
  BY <1>1, <1>2
<1>6. n = x + r /\ r \in 1..g
  BY <1>4, <1>5
<1>7. n - 1 = x + (r - 1) /\ r - 1 \in 0..(g - 1) /\ n \in Nat \ {0} /\ n - 1 \in Int
  BY <1>6
<1>8. (n - 1) \div g = q
  <2>1. PICK a \in Int : a = n - 1
    BY <1>7
  <2>2. a = q * g + (r - 1) /\ r - 1 \in 0..(g - 1)
    BY <1>3, <1>7, <2>1
  <2>3. a \div g = q
    BY <2>2, Quotient
  <2> QED BY <2>1, <2>3
<1> QED BY <1>1, <1>5, <1>7, <1>8 DEF CodePlace

LEMMA CodePlacesGrow ==
  ASSUME NEW n \in Nat \ {0}, NEW m \in Nat \ {0}, n < m
  PROVE  CodePlace(n) < CodePlace(m)
<1>1. n - 1 \in Nat /\ m - 1 \in Nat /\ n - 1 <= m - 1 /\ GroupLength \in Nat \ {0}
  BY CodeNumbers
<1>2. (n - 1) \div GroupLength <= (m - 1) \div GroupLength
  BY <1>1, QuotientsGrow
<1>3. (n - 1) \div GroupLength \in Nat /\ (m - 1) \div GroupLength \in Nat
  BY <1>1, Divided
<1> QED BY <1>2, <1>3 DEF CodePlace

LEMMA CodeSizes ==
  ASSUME NEW n \in Nat, NEW m \in Nat, n <= m
  PROVE  CodeSize(n) \in Nat /\ CodeSize(m) \in Nat /\ CodeSize(n) <= CodeSize(m)
<1>1. n # 0 => CodePlace(n) \in Nat
  BY CodePlaced
<1>2. m # 0 => CodePlace(m) \in Nat
  BY CodePlaced
<1>3. n # 0 /\ n < m => CodePlace(n) < CodePlace(m)
  BY CodePlacesGrow
<1> QED BY <1>1, <1>2, <1>3 DEF CodeSize

\* A code in groups.
CodeGrouped(raw) ==
  [i \in 1..CodeSize(Len(raw)) |->
     IF i % (GroupLength + 1) = 0 THEN Code!Hyphen ELSE raw[i - i \div (GroupLength + 1)]]

CodeSigns == Code!Alphanumeric \cup {Code!Hyphen}

\* What stands at a place of a code in groups.
LEMMA CodeStands ==
  ASSUME NEW n \in Nat, NEW i \in 1..CodeSize(n)
  PROVE  \/ i % (GroupLength + 1) = 0
         \/ i % (GroupLength + 1) # 0 /\ i - i \div (GroupLength + 1) \in 1..n /\ i = CodePlace(i - i \div (GroupLength + 1))
<1> SUFFICES ASSUME i % (GroupLength + 1) # 0
             PROVE  i - i \div (GroupLength + 1) \in 1..n /\ i = CodePlace(i - i \div (GroupLength + 1))
  OBVIOUS
<1>1. PICK k : k = i - i \div (GroupLength + 1)
  OBVIOUS
<1>2. i \in Nat \ {0} /\ CodeSize(n) \in Nat
  BY CodeSizes
<1>3. k \in Nat \ {0} /\ i = CodePlace(k)
  BY <1>1, <1>2, CodeUnplaced
<1>4. n # 0 /\ CodeSize(n) = CodePlace(n)
  BY <1>2 DEF CodeSize
<1>5. ~ (n < k)
  <2> SUFFICES ASSUME n < k
               PROVE  FALSE
    OBVIOUS
  <2>1. CodePlace(n) < CodePlace(k)
    BY <1>3, <1>4, CodePlacesGrow
  <2> QED BY <1>2, <1>3, <1>4, <2>1
<1> QED BY <1>1, <1>3, <1>5

LEMMA CodeGroupedIs ==
  ASSUME NEW raw \in Seq(Code!Alphanumeric), NEW s, s = CodeGrouped(raw)
  PROVE  /\ s \in Seq(CodeSigns) /\ Len(s) = CodeSize(Len(raw))
         /\ \A i \in 1..Len(s) : s[i] = Code!Hyphen \/ \E n \in 1..Len(raw) : i = CodePlace(n) /\ s[i] = raw[n]
         /\ \A n \in 1..Len(raw) : CodePlace(n) \in 1..Len(s) /\ s[CodePlace(n)] = raw[n]
<1>1. PICK N \in Nat : N = Len(raw) /\ \A n \in 1..N : raw[n] \in Code!Alphanumeric
  OBVIOUS
<1>2. PICK M \in Nat : M = CodeSize(N)
  BY CodeSizes
<1>3. s = [i \in 1..M |-> IF i % (GroupLength + 1) = 0 THEN Code!Hyphen ELSE raw[i - i \div (GroupLength + 1)]]
  BY <1>1, <1>2 DEF CodeGrouped
<1>4. ASSUME NEW i \in 1..M
      PROVE  s[i] = Code!Hyphen \/ \E n \in 1..N : i = CodePlace(n) /\ s[i] = raw[n]
  <2>1. CASE i % (GroupLength + 1) = 0
    BY <1>3, <2>1
  <2>2. CASE i % (GroupLength + 1) # 0
    <3>1. PICK n : n = i - i \div (GroupLength + 1)
      OBVIOUS
    <3>2. n \in 1..N /\ i = CodePlace(n)
      BY <1>2, <2>2, <3>1, CodeStands
    <3>3. s[i] = raw[n]
      BY <1>3, <2>2, <3>1
    <3> QED BY <3>2, <3>3
  <2> QED BY <2>1, <2>2
<1>5. ASSUME NEW n \in 1..N
      PROVE  CodePlace(n) \in 1..M /\ s[CodePlace(n)] = raw[n]
  <2>1. PICK i : i = CodePlace(n)
    OBVIOUS
  <2>2. i \in Nat \ {0} /\ i % (GroupLength + 1) # 0 /\ i - i \div (GroupLength + 1) = n
    BY <2>1, CodePlaced
  <2>3. i <= M
    <3>1. CodeSize(n) <= CodeSize(N) /\ CodeSize(n) = i
      BY <2>1, CodeSizes DEF CodeSize
    <3> QED BY <1>2, <3>1
  <2>4. i \in 1..M
    BY <2>2, <2>3
  <2> QED BY <1>3, <2>1, <2>2, <2>4
<1>6. \A i \in 1..M : s[i] \in CodeSigns
  BY <1>1, <1>4 DEF CodeSigns
<1>7. s \in [1..M -> CodeSigns]
  BY <1>3, <1>6
<1>8. s \in Seq(CodeSigns) /\ Len(s) = M
  BY <1>7
<1> QED BY <1>1, <1>2, <1>4, <1>5, <1>8

\* The characters of a code in groups are the code.
LEMMA CodeUngrouped ==
  ASSUME NEW raw \in Seq(Code!Alphanumeric)
  PROVE  Filter(CodeGrouped(raw), Code!Alphanumeric) = raw
<1>1. PICK s : s = CodeGrouped(raw)
  OBVIOUS
<1>2. PICK N \in Nat : N = Len(raw)
  OBVIOUS
<1>12. raw = [n \in 1..N |-> raw[n]] /\ \A n \in 1..N : raw[n] \in Code!Alphanumeric
  BY <1>2
<1>3. /\ s \in Seq(CodeSigns)
      /\ \A i \in 1..Len(s) : s[i] = Code!Hyphen \/ \E n \in 1..N : i = CodePlace(n) /\ s[i] = raw[n]
      /\ \A n \in 1..N : CodePlace(n) \in 1..Len(s) /\ s[CodePlace(n)] = raw[n]
  BY <1>1, <1>2, CodeGroupedIs
<1>4. DOMAIN s = 1..Len(s)
  BY <1>3
<1>5. PICK p : p = [n \in 1..N |-> CodePlace(n)]
  OBVIOUS
<1>6. p \in [1..N -> KeptAt(s, Code!Alphanumeric)]
  BY <1>12, <1>3, <1>4, <1>5 DEF KeptAt
<1>7. \A n, m \in 1..N : n < m => p[n] < p[m]
  BY <1>5, CodePlacesGrow
<1>8. ASSUME NEW i \in KeptAt(s, Code!Alphanumeric)
      PROVE  \E n \in 1..N : p[n] = i
  <2>1. i \in 1..Len(s) /\ s[i] \in Code!Alphanumeric
    BY <1>4 DEF KeptAt
  <2>2. s[i] # Code!Hyphen
    BY <2>1, CodeNumbers
  <2>3. PICK n \in 1..N : i = CodePlace(n)
    BY <1>3, <2>1, <2>2
  <2> QED BY <1>5, <2>3
<1>13. s \in Seq(CodeSigns)
  BY <1>3
<1>9. Filter(s, Code!Alphanumeric) = [n \in 1..N |-> s[p[n]]]
  <2>1. \A i \in KeptAt(s, Code!Alphanumeric) : \E n \in 1..N : p[n] = i
    BY <1>8
  <2>2. GrowsThrough(s, Code!Alphanumeric, N, p)
    BY <1>6, <1>7, <2>1, Zenon DEF GrowsThrough
  <2> QED BY <1>13, <2>2, FilterBy
<1>10. \A n \in 1..N : s[p[n]] = raw[n]
  BY <1>3, <1>5
<1>11. [n \in 1..N |-> s[p[n]]] = [n \in 1..N |-> raw[n]]
  BY <1>10
<1> QED BY <1>1, <1>12, <1>9, <1>11, Zenon

\* What a code in groups begins with is what the code begins with, in groups.
LEMMA CodeBegins ==
  ASSUME NEW raw \in Seq(Code!Alphanumeric), NEW b \in 0..Len(raw)
  PROVE  /\ SubSeq(CodeGrouped(raw), 1, CodeSize(b)) = CodeGrouped(SubSeq(raw, 1, b))
         /\ SubSeq(raw, 1, b) \in Seq(Code!Alphanumeric) /\ Len(SubSeq(raw, 1, b)) = b
<1>1. PICK s : s = CodeGrouped(raw)
  OBVIOUS
<1>2. PICK t : t = SubSeq(raw, 1, b)
  OBVIOUS
<1>3. PICK M \in Nat : M = CodeSize(b) /\ M <= CodeSize(Len(raw))
  BY CodeSizes
<1>4. t \in Seq(Code!Alphanumeric) /\ Len(t) = b /\ \A n \in 1..b : t[n] = raw[n]
  BY <1>2
<1>5. s \in Seq(CodeSigns) /\ Len(s) = CodeSize(Len(raw)) /\ CodeSize(Len(raw)) \in Nat
  BY <1>1, CodeGroupedIs, CodeSizes
<1>6. PICK u : u = SubSeq(s, 1, M)
  OBVIOUS
<1>7. u = [i \in 1..M |-> s[i]]
  BY <1>3, <1>5, <1>6
<1>8. CodeGrouped(t) = [i \in 1..M |-> IF i % (GroupLength + 1) = 0 THEN Code!Hyphen ELSE t[i - i \div (GroupLength + 1)]]
  BY <1>3, <1>4 DEF CodeGrouped
<1>9. ASSUME NEW i \in 1..M
      PROVE  s[i] = IF i % (GroupLength + 1) = 0 THEN Code!Hyphen ELSE t[i - i \div (GroupLength + 1)]
  <2>1. i \in 1..CodeSize(Len(raw))
    BY <1>3, <1>5
  <2>2. s[i] = IF i % (GroupLength + 1) = 0 THEN Code!Hyphen ELSE raw[i - i \div (GroupLength + 1)]
    BY <1>1, <2>1 DEF CodeGrouped
  <2>3. i % (GroupLength + 1) # 0 => i - i \div (GroupLength + 1) \in 1..b
    BY <1>3, CodeStands
  <2>4. ASSUME NEW n \in 1..b
        PROVE  t[n] = raw[n]
    BY <1>4
  <2> QED BY <2>2, <2>3, <2>4
<1>10. u = CodeGrouped(t)
  BY <1>7, <1>8, <1>9
<1> QED BY <1>1, <1>2, <1>3, <1>4, <1>6, <1>10

LEMMA CodeFilter ==
  ASSUME NEW s, NEW kept
  PROVE  Code!Filter(s, kept) = Filter(s, kept)
BY Zenon DEF Code!Filter, Filter, Code!Cardinality, Cardinality

LEMMA CodePrefixIs ==
  ASSUME NEW S, NEW s \in Seq(S), NEW n \in Nat
  PROVE  /\ Code!Prefix(s, n) \in Seq(S) /\ Len(Code!Prefix(s, n)) = Code!Least(n, Len(s))
         /\ Code!Least(n, Len(s)) \in 0..Len(s) /\ Code!Least(n, Len(s)) <= n
         /\ \A i \in 1..Len(Code!Prefix(s, n)) : Code!Prefix(s, n)[i] = s[i]
<1>1. PICK k : k = Code!Least(n, Len(s))
  OBVIOUS
<1>2. k \in 0..Len(s) /\ k <= n
  BY <1>1 DEF Code!Least
<1>3. Code!Prefix(s, n) = SubSeq(s, 1, k)
  BY <1>1 DEF Code!Prefix
<1>4. SubSeq(s, 1, k) \in Seq(S) /\ Len(SubSeq(s, 1, k)) = k /\ \A i \in 1..k : SubSeq(s, 1, k)[i] = s[i]
  BY <1>2
<1> QED BY <1>1, <1>2, <1>3, <1>4

\* What is read of a field is a code, and it is written in groups.
LEMMA CodeNormal ==
  ASSUME NEW S, NEW s \in Seq(S), NEW raw, raw = Code!Normalize(s)
  PROVE  /\ raw \in Seq(Code!Alphanumeric) /\ Len(raw) \in 0..CodeLength
         /\ raw = Code!Prefix(Filter(s, Code!Alphanumeric), CodeLength)
         /\ Code!Format(s) = CodeGrouped(raw)
<1>1. PICK t : t = Filter(s, Code!Alphanumeric)
  OBVIOUS
<1>2. t \in Seq(S) /\ Elements(t) = Elements(s) \cap Code!Alphanumeric
  BY <1>1, FilterKeeps
<1>3. t \in Seq(Code!Alphanumeric)
  BY <1>2 DEF Elements
<1>4. raw = Code!Prefix(t, CodeLength)
  BY <1>1, CodeFilter DEF Code!Normalize
<1>5. raw \in Seq(Code!Alphanumeric) /\ Len(raw) \in 0..CodeLength
  BY <1>3, <1>4, CodePrefixIs, CodeNumbers
<1>6. Code!Format(s) = CodeGrouped(raw)
  <2>1. PICK n \in Nat : n = Len(raw)
    BY <1>5
  <2>2. PICK hyphens : hyphens = IF n = 0 THEN 0 ELSE (n - 1) \div GroupLength
    OBVIOUS
  <2>3. n + hyphens = CodeSize(n)
    BY <2>2 DEF CodeSize, CodePlace
  <2>4. Code!Format(s) = [i \in 1 .. n + hyphens |->
                            IF i % (GroupLength + 1) = 0 THEN Code!Hyphen ELSE raw[i - i \div (GroupLength + 1)]]
    BY <2>1, <2>2, Zenon DEF Code!Format
  <2> QED BY <2>1, <2>3, <2>4 DEF CodeGrouped
<1> QED BY <1>1, <1>4, <1>5, <1>6

LEMMA CodeReread ==
  ASSUME NEW raw \in Seq(Code!Alphanumeric), Len(raw) <= CodeLength
  PROVE  Code!Normalize(CodeGrouped(raw)) = raw
<1>1. PICK s : s = CodeGrouped(raw)
  OBVIOUS
<1>2. s \in Seq(CodeSigns)
  BY <1>1, CodeGroupedIs
<1>3. Code!Normalize(s) = Code!Prefix(raw, CodeLength)
  BY <1>1, <1>2, CodeNormal, CodeUngrouped
<1>4. Code!Prefix(raw, CodeLength) = SubSeq(raw, 1, Len(raw))
  BY CodeNumbers DEF Code!Prefix, Code!Least
<1>5. SubSeq(raw, 1, Len(raw)) = raw
  OBVIOUS
<1> QED BY <1>1, <1>3, <1>4, <1>5

\* The beginning of a field has no more characters than the field.
LEMMA CodeLess ==
  ASSUME NEW S, NEW s \in Seq(S), NEW n \in Nat
  PROVE  Len(Code!Normalize(Code!Prefix(s, n))) <= Len(Code!Normalize(s))
<1>1. PICK t : t = Code!Prefix(s, n)
  OBVIOUS
<1>2. t \in Seq(S) /\ Len(t) <= Len(s) /\ Len(t) \in Nat /\ \A i \in 1..Len(t) : t[i] = s[i]
  BY <1>1, CodePrefixIs
<1>3. PICK A, B : A = KeptAt(t, Code!Alphanumeric) /\ B = KeptAt(s, Code!Alphanumeric)
  OBVIOUS
<1>4. A \subseteq B
  BY <1>2, <1>3 DEF KeptAt
<1>5. IsFiniteSet(B)
  BY <1>3, KeptFinite
<1>6. Cardinality(A) \in Nat /\ Cardinality(B) \in Nat /\ Cardinality(A) <= Cardinality(B)
  BY <1>4, <1>5, FS_Subset, FS_CardinalityType
<1>7. PICK f, g : f = Filter(t, Code!Alphanumeric) /\ g = Filter(s, Code!Alphanumeric)
  OBVIOUS
<1>8. f \in Seq(S) /\ Len(f) = Cardinality(A) /\ g \in Seq(S) /\ Len(g) = Cardinality(B)
  BY <1>2, <1>3, <1>7, FilterKeeps
<1>9. CodeLength \in Nat
  BY CodeNumbers
<1>10. /\ Code!Normalize(t) = Code!Prefix(f, CodeLength) /\ Code!Normalize(s) = Code!Prefix(g, CodeLength)
  BY <1>2, <1>7, CodeNormal
<1>11. /\ Len(Code!Normalize(t)) = Code!Least(CodeLength, Cardinality(A))
       /\ Len(Code!Normalize(s)) = Code!Least(CodeLength, Cardinality(B))
  BY <1>8, <1>9, <1>10, CodePrefixIs
<1> QED BY <1>1, <1>6, <1>9, <1>11 DEF Code!Least

LEMMA CodeMax ==
  /\ Code!MaxLength \in Nat /\ CodeLength <= Code!MaxLength /\ CodeSize(CodeLength) = Code!MaxLength
<1>1. PICK g \in Nat \ {0} : g = GroupLength
  BY CodeNumbers
<1>2. CodeLength \in Nat \ {0} /\ CodeLength % g = 0
  BY <1>1, CodeNumbers
<1>3. PICK q \in Nat : q = CodeLength \div g /\ CodeLength = q * g
  BY <1>2, Divided
<1>4. q # 0
  BY <1>2, <1>3
<1>5. CodeLength - 1 = (q - 1) * g + (g - 1)
  <2>1. (q - 1) * g = q * g - g
    OBVIOUS
  <2>2. q * g \in Int
    OBVIOUS
  <2> QED BY <1>3, <2>1, <2>2
<1>6. (CodeLength - 1) \div g = q - 1
  <2>1. PICK a \in Int : a = CodeLength - 1
    BY <1>2
  <2>2. PICK p \in Int : p = q - 1
    OBVIOUS
  <2>3. a = p * g + (g - 1) /\ g - 1 \in 0..(g - 1)
    BY <1>5, <2>1, <2>2
  <2>4. a \div g = p
    BY <2>3, Quotient
  <2> QED BY <2>1, <2>2, <2>4
<1>7. Code!MaxLength = CodeLength + q - 1
  BY <1>1, <1>3 DEF Code!MaxLength
<1>8. CodeSize(CodeLength) = CodeLength + (q - 1)
  BY <1>1, <1>2, <1>6 DEF CodeSize, CodePlace
<1> QED BY <1>2, <1>4, <1>7, <1>8

\* The field u shows the code raw, and its caret stands where it stood.
CodeShown(u, s, raw) ==
  /\ raw \in Seq(Code!Alphanumeric) /\ Len(raw) <= CodeLength /\ s = CodeGrouped(raw)
  /\ u = [field |-> s, caret |-> u.caret, before |-> u.before]
  /\ u.caret \in 0..Len(s) /\ u.before \in 0..Code!MaxLength
  /\ Len(Code!Normalize(Code!Prefix(s, u.caret))) = Code!Least(u.before, Len(raw))

CodeInv == \E raw : CodeShown(ui, server, raw)

LEMMA CodeTyped ==
  ASSUME NEW raw, NEW s, NEW u, CodeShown(u, s, raw)
  PROVE  /\ s \in Seq(CodeSigns) /\ Len(s) \in 0..Code!MaxLength /\ Code!Normalize(s) = raw
         /\ Code!Format(s) = s /\ u.field = s /\ Len(raw) \in Nat
<1>1. raw \in Seq(Code!Alphanumeric) /\ Len(raw) <= CodeLength /\ s = CodeGrouped(raw)
  BY DEF CodeShown
<1>2. s \in Seq(CodeSigns) /\ Len(s) = CodeSize(Len(raw)) /\ Len(raw) \in Nat
  BY <1>1, CodeGroupedIs
<1>3. CodeSize(Len(raw)) \in Nat /\ CodeSize(Len(raw)) <= CodeSize(CodeLength)
  BY <1>1, <1>2, CodeSizes, CodeNumbers
<1>4. Code!Normalize(s) = raw
  BY <1>1, CodeReread
<1>5. Code!Format(s) = s
  BY <1>1, <1>2, <1>4, CodeNormal
<1>6. u.field = s
  <2>1. u = [field |-> s, caret |-> u.caret, before |-> u.before]
    BY DEF CodeShown
  <2>2. PICK c, b : c = u.caret /\ b = u.before
    OBVIOUS
  <2>3. u = [field |-> s, caret |-> c, before |-> b]
    BY <2>1, <2>2
  <2> QED BY <2>3
<1> QED BY <1>2, <1>3, <1>4, <1>5, <1>6, CodeMax

LEMMA CodeReads ==
  ASSUME NEW S, NEW s \in Seq(S), NEW n \in Nat, Code!OnInput(s, n)
  PROVE  CodeInv'
<1>1. PICK raw : raw = Code!Normalize(s)
  OBVIOUS
<1>2. raw \in Seq(Code!Alphanumeric) /\ Len(raw) \in 0..CodeLength /\ Code!Format(s) = CodeGrouped(raw)
  BY <1>1, CodeNormal
<1>3. PICK N \in Nat : N = Len(raw)
  BY <1>2, CodeNumbers
<1>4. PICK before \in Nat : before = Len(Code!Normalize(Code!Prefix(s, n))) /\ before <= CodeLength
  <2>1. Code!Prefix(s, n) \in Seq(S)
    BY CodePrefixIs
  <2>2. Len(Code!Normalize(Code!Prefix(s, n))) \in 0..CodeLength
    BY <2>1, CodeNormal
  <2> QED BY <2>2, CodeNumbers
<1>5. PICK t : t = CodeGrouped(raw)
  OBVIOUS
<1>6. t \in Seq(CodeSigns) /\ Len(t) = CodeSize(N) /\ CodeSize(N) \in Nat
  BY <1>2, <1>3, <1>5, CodeGroupedIs, CodeSizes
<1>7. PICK caret : caret = Code!NextCursor(t, before)
  OBVIOUS
<1>8. PICK k \in 0..N : k = Code!Least(before, N)
  BY DEF Code!Least
<1>9. caret = CodeSize(k) /\ caret \in 0..Len(t)
  <2>1. PICK c : c = before + (IF before = 0 THEN 0 ELSE before - 1) \div GroupLength
    OBVIOUS
  <2>2. c = CodeSize(before)
    <3>1. CASE before = 0
      <4>1. 0 \div GroupLength = 0
        BY CodeNumbers, Divided
      <4> QED BY <2>1, <3>1, <4>1 DEF CodeSize
    <3>2. CASE before # 0
      BY <2>1, <3>2 DEF CodeSize, CodePlace
    <3> QED BY <3>1, <3>2
  <2>3. caret = Code!Least(Len(t), c)
    BY <1>7, <2>1, Zenon DEF Code!NextCursor
  <2>4. CodeSize(before) \in Nat /\ CodeSize(k) \in Nat /\ CodeSize(k) <= CodeSize(N)
    BY <1>3, <1>4, <1>8, CodeSizes
  <2>5. CASE before <= N
    <3>1. k = before
      BY <1>8, <2>5 DEF Code!Least
    <3>2. CodeSize(before) <= CodeSize(N)
      BY <2>5, CodeSizes
    <3> QED BY <1>6, <2>2, <2>3, <2>4, <3>1, <3>2 DEF Code!Least
  <2>6. CASE ~ (before <= N)
    <3>1. k = N
      BY <1>8, <2>6 DEF Code!Least
    <3>2. CodeSize(N) <= CodeSize(before)
      BY <2>6, CodeSizes
    <3> QED BY <1>6, <2>2, <2>3, <2>4, <3>1, <3>2 DEF Code!Least
  <2> QED BY <2>5, <2>6
<1>10. Len(Code!Normalize(Code!Prefix(t, caret))) = k
  <2>1. /\ SubSeq(t, 1, CodeSize(k)) = CodeGrouped(SubSeq(raw, 1, k))
        /\ SubSeq(raw, 1, k) \in Seq(Code!Alphanumeric) /\ Len(SubSeq(raw, 1, k)) = k
    BY <1>2, <1>3, <1>5, CodeBegins
  <2>2. Code!Prefix(t, caret) = SubSeq(t, 1, CodeSize(k))
    BY <1>6, <1>9 DEF Code!Prefix, Code!Least
  <2>3. k <= CodeLength
    BY <1>2, <1>3, CodeNumbers
  <2>4. Code!Normalize(CodeGrouped(SubSeq(raw, 1, k))) = SubSeq(raw, 1, k)
    BY <2>1, <2>3, CodeReread
  <2> QED BY <2>1, <2>2, <2>4, Zenon
<1>11. ui' = [field |-> t, caret |-> caret, before |-> before] /\ server' = t
  BY <1>2, <1>4, <1>5, <1>7, Zenon DEF Code!OnInput
<1>12. before \in 0..Code!MaxLength
  BY <1>4, CodeMax, CodeNumbers
<1>13. CodeShown(ui', server', raw)
  <2>1. ui'.caret = caret /\ ui'.before = before /\ ui' = [field |-> server', caret |-> ui'.caret, before |-> ui'.before]
    BY <1>11
  <2> QED BY <1>2, <1>3, <1>5, <1>8, <1>9, <1>10, <1>11, <1>12, <2>1 DEF CodeShown
<1> QED BY <1>13 DEF CodeInv, CodeShown

LEMMA CodeEmpty ==
  ASSUME NEW S
  PROVE  \E s \in Seq(S) : s = <<>> /\ Len(s) = 0 /\ DOMAIN s = {}
<1>1. <<>> \in Seq(S) /\ Len(<<>>) = 0
  OBVIOUS
<1>2. DOMAIN <<>> = {}
  OBVIOUS
<1> QED BY <1>1, <1>2, Zenon

CodePasted == CodeSigns \cup Signs

LEMMA CodeInit == Code!Init => CodeInv
<1> SUFFICES ASSUME Code!Init
             PROVE  CodeInv
  OBVIOUS
<1>1. server = <<>> /\ ui = [field |-> <<>>, caret |-> 0, before |-> 0]
  BY DEF Code!Init
<1>2. PICK raw \in Seq(Code!Alphanumeric) : raw = <<>> /\ Len(raw) = 0
  BY CodeEmpty
<1>3. CodeGrouped(raw) = <<>>
  <2>1. CodeGrouped(raw) = [i \in 1..0 |-> IF i % (GroupLength + 1) = 0 THEN Code!Hyphen ELSE raw[i - i \div (GroupLength + 1)]]
    BY <1>2 DEF CodeGrouped, CodeSize
  <2> QED BY <2>1
<1>4. Len(Code!Normalize(Code!Prefix(server, 0))) = 0
  <2>1. Code!Prefix(server, 0) = CodeGrouped(raw)
    BY <1>1, <1>3 DEF Code!Prefix, Code!Least
  <2>3. Len(raw) <= CodeLength
    BY <1>2, CodeNumbers
  <2>2. Code!Normalize(CodeGrouped(raw)) = raw
    BY <2>3, CodeReread
  <2> QED BY <1>2, <2>1, <2>2
<1>5. 0 \in 0..Code!MaxLength /\ Code!Least(0, Len(raw)) = 0 /\ 0 \in 0..Len(server)
  BY <1>1, <1>2, CodeMax DEF Code!Least
<1>6. ui.caret = 0 /\ ui.before = 0 /\ Len(raw) <= CodeLength /\ ui = [field |-> server, caret |-> ui.caret, before |-> ui.before]
  BY <1>1, <1>2, CodeNumbers
<1>7. CodeShown(ui, server, raw)
  BY <1>1, <1>2, <1>3, <1>4, <1>5, <1>6 DEF CodeShown
<1> QED BY <1>7 DEF CodeInv

\* A field that is edited has characters that may be typed or pasted.
LEMMA CodeFields ==
  ASSUME CodeInv
  PROVE  ui.field \in Seq(CodePasted) /\ ui.caret \in 0..Len(ui.field) /\ Len(ui.field) \in Nat /\ ui.field = server
<1>1. PICK raw : CodeShown(ui, server, raw)
  BY DEF CodeInv
<1>2. server \in Seq(CodeSigns) /\ Len(server) \in Nat /\ ui.field = server
  BY <1>1, CodeTyped, CodeMax
<1>3. ui.caret \in 0..Len(server)
  BY <1>1 DEF CodeShown
<1> QED BY <1>2, <1>3 DEF CodePasted

LEMMA CodeInserts ==
  ASSUME CodeInv, NEW t \in Seq(CodePasted)
  PROVE  Code!Inserted(t) \in Seq(CodePasted)
<1>1. PICK s \in Seq(CodePasted) : s = ui.field
  BY CodeFields
<1>2. PICK n \in 0..Len(s) : n = ui.caret
  BY <1>1, CodeFields
<1>3. PICK a \in Seq(CodePasted) : a = SubSeq(s, 1, n)
  <2>1. SubSeq(s, 1, n) \in Seq(CodePasted)
    OBVIOUS
  <2> QED BY <2>1, Zenon
<1>4. PICK b \in Seq(CodePasted) : b = SubSeq(s, n + 1, Len(s))
  <2>1. SubSeq(s, n + 1, Len(s)) \in Seq(CodePasted)
    OBVIOUS
  <2> QED BY <2>1, Zenon
<1>5. Code!Inserted(t) = (a \o t) \o b
  BY <1>1, <1>2, <1>3, <1>4 DEF Code!Inserted
<1>6. PICK c \in Seq(CodePasted) : c = a \o t
  <2>1. a \o t \in Seq(CodePasted)
    OBVIOUS
  <2> QED BY <2>1, Zenon
<1>7. c \o b \in Seq(CodePasted)
  OBVIOUS
<1> QED BY <1>5, <1>6, <1>7

LEMMA CodeRemoves ==
  ASSUME NEW S, NEW s \in Seq(S), NEW i \in 1..Len(s)
  PROVE  Code!Without(s, i) \in Seq(S)
<1>1. PICK a \in Seq(S) : a = SubSeq(s, 1, i - 1)
  <2>1. SubSeq(s, 1, i - 1) \in Seq(S)
    OBVIOUS
  <2> QED BY <2>1, Zenon
<1>2. PICK b \in Seq(S) : b = SubSeq(s, i + 1, Len(s))
  <2>1. SubSeq(s, i + 1, Len(s)) \in Seq(S)
    OBVIOUS
  <2> QED BY <2>1, Zenon
<1>3. a \o b \in Seq(S)
  OBVIOUS
<1> QED BY <1>1, <1>2, <1>3 DEF Code!Without

LEMMA CodeMoves ==
  ASSUME CodeInv, NEW n \in 0..Len(ui.field), Code!MoveCaret(n)
  PROVE  CodeInv'
<1>1. PICK raw : CodeShown(ui, server, raw)
  BY DEF CodeInv
<1>2. server \in Seq(CodeSigns) /\ Len(server) \in Nat /\ ui.field = server /\ Code!Normalize(server) = raw /\ Len(raw) \in Nat
  BY <1>1, CodeTyped, CodeMax
<1>3. PICK before : before = Len(Code!Normalize(Code!Prefix(server, n)))
  OBVIOUS
<1>4. n \in Nat /\ n \in 0..Len(server)
  BY <1>2
<1>5. before \in 0..CodeLength /\ before <= Len(raw)
  <2>1. Code!Prefix(server, n) \in Seq(CodeSigns)
    BY <1>2, <1>4, CodePrefixIs
  <2> QED BY <1>2, <1>3, <1>4, <2>1, CodeNormal, CodeLess
<1>6. before \in 0..Code!MaxLength /\ Code!Least(before, Len(raw)) = before
  BY <1>2, <1>5, CodeMax, CodeNumbers DEF Code!Least
<1>7. ui' = [ui EXCEPT !.caret = n, !.before = before] /\ server' = server
  BY <1>2, <1>3 DEF Code!MoveCaret
<1>8. ui' = [field |-> server, caret |-> n, before |-> before]
  <2>1. ui = [field |-> server, caret |-> ui.caret, before |-> ui.before]
    BY <1>1 DEF CodeShown
  <2>2. PICK c, b : ui = [field |-> server, caret |-> c, before |-> b]
    BY <2>1
  <2> QED BY <1>7, <2>2, Zenon
<1>9. ui'.caret = n /\ ui'.before = before /\ ui' = [field |-> server', caret |-> ui'.caret, before |-> ui'.before]
  BY <1>7, <1>8, Zenon
<1>10. raw \in Seq(Code!Alphanumeric) /\ Len(raw) <= CodeLength /\ server' = CodeGrouped(raw)
  BY <1>1, <1>7 DEF CodeShown
<1>11. CodeShown(ui', server', raw)
  BY <1>3, <1>4, <1>6, <1>7, <1>9, <1>10 DEF CodeShown
<1> QED BY <1>11 DEF CodeInv, CodeShown

LEMMA CodeResets ==
  ASSUME CodeInv, Code!WriteValue(<<>>)
  PROVE  CodeInv'
<1>1. server' = <<>> /\ ui' = [field |-> Code!Format(<<>>), caret |-> Len(Code!Format(<<>>)), before |-> Len(Code!Normalize(<<>>))]
  BY DEF Code!WriteValue
<1>2. PICK s \in Seq(CodeSigns) : s = <<>> /\ Len(s) = 0 /\ DOMAIN s = {}
  BY CodeEmpty
<1>3. PICK raw : raw = Code!Normalize(s)
  OBVIOUS
<1>4. Len(raw) = 0
  <2>1. Filter(s, Code!Alphanumeric) = s
    BY <1>2, FilterNone, Zenon
  <2>2. raw = Code!Prefix(s, CodeLength)
    BY <1>3, <2>1, CodeNormal
  <2>3. CodeLength \in Nat /\ s \in Seq(CodeSigns) /\ Len(s) = 0
    BY <1>2, CodeNumbers
  <2>4. Len(raw) = Code!Least(CodeLength, Len(s)) /\ Code!Least(CodeLength, Len(s)) \in 0..Len(s)
    BY <2>2, <2>3, CodePrefixIs, Zenon
  <2> QED BY <2>3, <2>4
<1>5. Code!Format(s) = CodeGrouped(raw) /\ raw \in Seq(Code!Alphanumeric)
  BY <1>3, CodeNormal
<1>6. CodeGrouped(raw) = <<>>
  <2>1. CodeGrouped(raw) = [i \in 1..0 |-> IF i % (GroupLength + 1) = 0 THEN Code!Hyphen ELSE raw[i - i \div (GroupLength + 1)]]
    BY <1>4 DEF CodeGrouped, CodeSize
  <2> QED BY <2>1
<1>7. server' = <<>> /\ ui' = [field |-> <<>>, caret |-> 0, before |-> 0]
  <2>1. PICK f, c, b : /\ f = Code!Format(s) /\ c = Len(Code!Format(s)) /\ b = Len(Code!Normalize(s))
                       /\ ui' = [field |-> f, caret |-> c, before |-> b]
    BY <1>1, <1>2, Zenon
  <2>2. f = <<>> /\ b = 0
    BY <1>3, <1>4, <1>5, <1>6, <2>1
  <2>3. c = 0
    BY <2>1, <2>2
  <2> QED BY <1>1, <2>1, <2>2, <2>3
<1>8. Len(Code!Normalize(Code!Prefix(s, 0))) = 0
  <2>1. Code!Prefix(s, 0) = s
    BY <1>2 DEF Code!Prefix, Code!Least
  <2> QED BY <1>3, <1>4, <2>1
<1>9. 0 \in 0..Code!MaxLength /\ Code!Least(0, Len(raw)) = 0 /\ Len(raw) <= CodeLength /\ server' = s /\ 0 \in 0..Len(s)
  BY <1>2, <1>4, <1>7, CodeMax, CodeNumbers DEF Code!Least
<1>10. ui'.caret = 0 /\ ui'.before = 0 /\ ui' = [field |-> server', caret |-> ui'.caret, before |-> ui'.before]
  BY <1>7
<1>11. CodeShown(ui', server', raw)
  BY <1>2, <1>5, <1>6, <1>8, <1>9, <1>10 DEF CodeShown
<1> QED BY <1>11 DEF CodeInv, CodeShown

LEMMA CodeNext == CodeInv /\ (Code!Next \/ UNCHANGED <<ui, server>>) => CodeInv'
<1> SUFFICES ASSUME CodeInv, Code!Next \/ UNCHANGED <<ui, server>>
             PROVE  CodeInv'
  OBVIOUS
<1>1. /\ ui.field \in Seq(CodePasted) /\ ui.caret \in 0..Len(ui.field) /\ Len(ui.field) \in Nat
  BY CodeFields
<1>2. CASE UNCHANGED <<ui, server>>
  BY <1>2 DEF CodeInv, CodeShown
<1>3. CASE Code!DeleteBackward
  <2>1. ui.caret > 0 /\ Code!OnInput(Code!Without(ui.field, ui.caret), ui.caret - 1)
    BY <1>3 DEF Code!DeleteBackward
  <2>2. ui.caret \in 1..Len(ui.field) /\ ui.caret - 1 \in Nat
    BY <1>1, <2>1
  <2>3. Code!Without(ui.field, ui.caret) \in Seq(CodePasted)
    BY <1>1, <2>2, CodeRemoves
  <2> QED BY <2>1, <2>2, <2>3, CodeReads
<1>4. CASE Code!DeleteForward
  <2>1. ui.caret < Len(ui.field) /\ Code!OnInput(Code!Without(ui.field, ui.caret + 1), ui.caret)
    BY <1>4 DEF Code!DeleteForward
  <2>2. ui.caret + 1 \in 1..Len(ui.field) /\ ui.caret \in Nat
    BY <1>1, <2>1
  <2>3. Code!Without(ui.field, ui.caret + 1) \in Seq(CodePasted)
    BY <1>1, <2>2, CodeRemoves
  <2> QED BY <2>1, <2>2, <2>3, CodeReads
<1>5. ASSUME NEW c \in Code!Alphanumeric, Code!Type(c)
      PROVE  CodeInv'
  <2>1. Code!OnInput(Code!Inserted(<<c>>), ui.caret + 1)
    BY <1>5 DEF Code!Type
  <2>2. <<c>> \in Seq(CodePasted) /\ ui.caret + 1 \in Nat
    BY <1>1 DEF CodePasted, CodeSigns
  <2> QED BY <2>1, <2>2, CodeInserts, CodeReads, Zenon
<1>6. ASSUME NEW t \in Code!UpTo(Code!Alphanumeric \cup {Code!Hyphen} \cup Signs, MaxPaste), Code!Paste(t)
      PROVE  CodeInv'
  <2>1. t \in Seq(CodePasted)
    <3>1. PICK m \in 0..MaxPaste : t \in [1..m -> CodePasted]
      BY <1>6 DEF Code!UpTo, CodePasted, CodeSigns
    <3>2. m \in Nat
      BY <3>1, CodeAssumption
    <3> QED BY <3>1, <3>2
  <2>2. PICK room : room = Code!MaxLength - Len(ui.field)
    OBVIOUS
  <2>3. PICK fits : fits = Code!Prefix(t, room)
    OBVIOUS
  <2>4. Code!OnInput(Code!Inserted(fits), ui.caret + Len(fits))
    BY <1>6, <2>2, <2>3 DEF Code!Paste
  <2>5. room \in Nat
    <3>1. PICK raw : CodeShown(ui, server, raw)
      BY DEF CodeInv
    <3>2. Len(ui.field) \in 0..Code!MaxLength
      BY <3>1, CodeTyped
    <3> QED BY <2>2, <3>2, CodeMax
  <2>6. fits \in Seq(CodePasted)
    BY <2>1, <2>3, <2>5, CodePrefixIs
  <2>7. ui.caret + Len(fits) \in Nat
    BY <1>1, <2>6
  <2> QED BY <2>4, <2>6, <2>7, CodeInserts, CodeReads
<1> QED BY <1>2, <1>3, <1>4, <1>5, <1>6, CodeMoves, CodeResets, Zenon DEF Code!Next

LEMMA CodeHolds == CodeInv => Code!TypeOK /\ Code!SettledIsServers
<1> SUFFICES ASSUME CodeInv
             PROVE  Code!TypeOK /\ Code!SettledIsServers
  OBVIOUS
<1>1. PICK raw : CodeShown(ui, server, raw)
  BY DEF CodeInv
<1>2. /\ server \in Seq(CodeSigns) /\ Len(server) \in 0..Code!MaxLength /\ Code!Normalize(server) = raw
      /\ Code!Format(server) = server /\ ui.field = server /\ Len(raw) \in Nat
  BY <1>1, CodeTyped
<1>3. /\ raw \in Seq(Code!Alphanumeric) /\ Len(raw) <= CodeLength /\ server = CodeGrouped(raw)
      /\ ui.caret \in 0..Len(server) /\ ui.before \in 0..Code!MaxLength
      /\ Len(Code!Normalize(Code!Prefix(server, ui.caret))) = Code!Least(ui.before, Len(raw))
  BY <1>1 DEF CodeShown
<1>4. server \in Code!Fields
  <2>1. PICK m \in 0..Code!MaxLength : m = Len(server)
    BY <1>2
  <2>2. server \in [1..m -> CodeSigns]
    BY <1>2, <2>1
  <2> QED BY <2>1, <2>2 DEF Code!Fields, Code!UpTo, CodeSigns
<1>5. ASSUME Code!Valid(server), server # <<>>
      PROVE  Len(server) = Code!MaxLength /\ Code!Range(server) \subseteq Letters \cup {Code!Hyphen}
  <2>1. Len(raw) = CodeLength /\ Code!Range(raw) \subseteq Letters
    BY <1>2, <1>5 DEF Code!Valid
  <2>2. /\ Len(server) = CodeSize(Len(raw))
        /\ \A i \in 1..Len(server) : server[i] = Code!Hyphen \/ \E n \in 1..Len(raw) : server[i] = raw[n]
    BY <1>3, CodeGroupedIs
  <2>3. \A n \in 1..Len(raw) : raw[n] \in Letters
    BY <1>3, <2>1 DEF Code!Range
  <2>4. \A i \in 1..Len(server) : server[i] \in Letters \cup {Code!Hyphen}
    BY <2>2, <2>3
  <2>5. DOMAIN server = 1..Len(server)
    BY <1>2
  <2> QED BY <2>1, <2>2, <2>4, <2>5, CodeMax DEF Code!Range
<1>6. Len(server) <= Code!MaxLength
  BY <1>2, CodeMax
<1> QED BY <1>2, <1>3, <1>4, <1>5, <1>6 DEF Code!TypeOK, Code!SettledIsServers

LEMMA SecurityStep == SecurityInv /\ (Security!Next \/ UNCHANGED <<ui, server>>) => SecurityInv'
<1>1. SecurityInv /\ UNCHANGED <<ui, server>> => SecurityInv'
  BY DEF SecurityInv, SecurityGood, SecurityWaits, SecuritySecrets, SecurityShows, Security!TypeOK,
         Security!SecretsStayInView, Security!Loading, Security!Busy
<1> QED BY <1>1, SecurityNext

LEMMA SecurityHolds == SecurityInv => Security!TypeOK /\ Security!SecretsStayInView /\ Security!SettledIsServers
<1> SUFFICES ASSUME SecurityInv
             PROVE  Security!TypeOK /\ Security!SecretsStayInView /\ Security!SettledIsServers
  OBVIOUS
<1>1. Security!TypeOK /\ Security!SecretsStayInView /\ SecuritySecrets /\ SecurityShows
  BY DEF SecurityInv, SecurityGood
<1>2. Security!SettledIsServers
  BY <1>1 DEF SecuritySecrets, SecurityShows, Security!SettledIsServers, Security!Shown, Security!Busy, Security!Loading, Security!Slots
<1> QED BY <1>1, <1>2

LEMMA AccessStep == AccessInv /\ (Access!Next \/ UNCHANGED <<ui, server>>) => AccessInv'
<1>1. AccessInv /\ UNCHANGED <<ui, server>> => AccessInv'
  BY Zenon DEF AccessInv, AccessGood, AccessForms, AccessWaits, AccessShows, Access!TypeOK, Access!BusyIsPending,
         Access!SecretsStayInView
<1> QED BY <1>1, AccessNext

LEMMA AccessHolds ==
  AccessInv => Access!TypeOK /\ Access!BusyIsPending /\ Access!SecretsStayInView /\ Access!SettledIsServers
<1> SUFFICES ASSUME AccessInv
             PROVE  Access!TypeOK /\ Access!BusyIsPending /\ Access!SecretsStayInView /\ Access!SettledIsServers
  OBVIOUS
<1>1. Access!TypeOK /\ Access!BusyIsPending /\ Access!SecretsStayInView /\ (~ ui.rebound => AccessWaits /\ AccessShows)
  BY DEF AccessInv, AccessGood
<1>2. Access!Range(ui.accesses) = Elements(ui.accesses)
  BY DEF Access!Range, Elements
<1>3. EachOnce(ui.accesses) => Access!IsInjective(ui.accesses)
  BY DEF Access!IsInjective, EachOnce
<1>4. Access!SettledIsServers
  BY <1>1, <1>2, <1>3 DEF AccessShows, Access!SettledIsServers, Access!Slots
<1> QED BY <1>1, <1>4

LEMMA PreferencesStep == PreferencesInv /\ (Preferences!Next \/ UNCHANGED <<ui, server>>) => PreferencesInv'
<1>1. PreferencesInv /\ UNCHANGED <<ui, server>> => PreferencesInv'
  BY DEF PreferencesInv, PreferencesWaits, PreferencesShow, Preferences!TypeOK, Preferences!BusyIsPending
<1> QED BY <1>1, PreferencesNext

LEMMA PreferencesHolds ==
  PreferencesInv => Preferences!TypeOK /\ Preferences!BusyIsPending /\ Preferences!SettledIsServers
<1> SUFFICES ASSUME PreferencesInv
             PROVE  Preferences!TypeOK /\ Preferences!BusyIsPending /\ Preferences!SettledIsServers
  OBVIOUS
<1>1. Preferences!TypeOK /\ Preferences!BusyIsPending /\ PreferencesWaits /\ PreferencesShow
  BY DEF PreferencesInv, PreferencesWaits
<1>2. Preferences!SettledIsServers
  BY <1>1 DEF PreferencesWaits, PreferencesShow, Preferences!SettledIsServers
<1> QED BY <1>1, <1>2

LEMMA MonthStep == MonthInv /\ (Month!Next \/ UNCHANGED <<ui, server>>) => MonthInv'
<1>1. MonthInv /\ UNCHANGED <<ui, server>> => MonthInv'
  BY DEF MonthInv, Month!TypeOK, Month!SettledIsServers, Month!Marked
<1> QED BY <1>1, MonthNext

LEMMA SelectorStep == SelectorInv /\ (Selector!Next \/ UNCHANGED <<ui, server>>) => SelectorInv'
<1> SUFFICES ASSUME SelectorInv, UNCHANGED <<ui, server>>
             PROVE  SelectorInv'
  BY SelectorNext
<1>1. Selector!TypeOK' /\ Selector!BusyIsPending'
  BY DEF SelectorInv, SelectorGood, Selector!TypeOK, Selector!BusyIsPending
<1>2. SelectorForms'
  BY DEF SelectorInv, SelectorGood, SelectorForms
<1>3. SelectorWaits'
  BY DEF SelectorInv, SelectorGood, SelectorWaits
<1>4. SelectorShows'
  BY DEF SelectorInv, SelectorGood, SelectorShows
<1> QED BY <1>1, <1>2, <1>3, <1>4 DEF SelectorInv, SelectorGood

--------------------------------------------------------------------------------
(* The dialogs *)

\* The inductive invariant is that of the dialog at hand.
DialogsInv ==
  /\ dialog \in Kinds
  /\ dialog = "security" => SecurityInv
  /\ dialog = "access" => AccessInv
  /\ dialog = "preferences" => PreferencesInv
  /\ dialog = "selector" => SelectorInv
  /\ dialog = "event" => EventInv
  /\ dialog = "landing" => LandingInv
  /\ dialog = "list" => ListInv
  /\ dialog = "month" => MonthInv
  /\ dialog = "code" => CodeInv

LEMMA DialogsInit == Init => DialogsInv
BY SecurityInit, AccessInit, PreferencesInit, SelectorInit, EventInit, LandingInit, ListInit, MonthInit, CodeInit, Zenon
   DEF Init, DialogsInv

LEMMA DialogsNext == DialogsInv /\ [Next]_vars => DialogsInv'
<1> SUFFICES ASSUME DialogsInv, [Next]_vars
             PROVE  DialogsInv'
  OBVIOUS
<1>1. /\ UNCHANGED dialog
      /\ \/ UNCHANGED <<ui, server>>
         \/ dialog = "security" /\ Security!Next
         \/ dialog = "access" /\ Access!Next
         \/ dialog = "preferences" /\ Preferences!Next
         \/ dialog = "selector" /\ Selector!Next
         \/ dialog = "event" /\ Event!Next
         \/ dialog = "landing" /\ Landing!Next
         \/ dialog = "list" /\ List!Next
         \/ dialog = "month" /\ Month!Next
         \/ dialog = "code" /\ Code!Next
  BY DEF Next, vars
<1>2. dialog = "security" => SecurityInv'
  BY <1>1, SecurityStep DEF DialogsInv
<1>3. dialog = "access" => AccessInv'
  BY <1>1, AccessStep DEF DialogsInv
<1>4. dialog = "preferences" => PreferencesInv'
  BY <1>1, PreferencesStep DEF DialogsInv
<1>5. dialog = "selector" => SelectorInv'
  BY <1>1, SelectorStep DEF DialogsInv
<1>6. dialog = "event" => EventInv'
  BY <1>1, EventNext DEF DialogsInv
<1>7. dialog = "landing" => LandingInv'
  BY <1>1, LandingNext DEF DialogsInv
<1>8. dialog = "list" => ListInv'
  BY <1>1, ListNext DEF DialogsInv
<1>9. dialog = "month" => MonthInv'
  BY <1>1, MonthStep DEF DialogsInv
<1>10. dialog = "code" => CodeInv'
  BY <1>1, CodeNext DEF DialogsInv
<1> QED BY <1>1, <1>2, <1>3, <1>4, <1>5, <1>6, <1>7, <1>8, <1>9, <1>10 DEF DialogsInv

LEMMA DialogsTypes == DialogsInv => TypeOK
<1>1. DialogsInv => dialog \in {"security", "access", "preferences", "selector", "event", "landing", "list", "month", "code"}
  BY KindsAssumption DEF DialogsInv
<1> QED BY <1>1, SecurityHolds, AccessHolds, PreferencesHolds, SelectorHolds, EventHolds, LandingHolds, ListHolds, CodeHolds, Zenon
        DEF DialogsInv, TypeOK, MonthInv

LEMMA DialogsWait == DialogsInv => BusyIsPending
BY AccessHolds, PreferencesHolds, SelectorHolds, EventHolds, LandingHolds, ListHolds DEF DialogsInv, BusyIsPending

LEMMA DialogsHide == DialogsInv => SecretsStayInView
BY SecurityHolds, AccessHolds DEF DialogsInv, SecretsStayInView

LEMMA DialogsSettle == DialogsInv => SettledIsServers
<1>1. DialogsInv => dialog \in {"security", "access", "preferences", "selector", "event", "landing", "list", "month", "code"}
  BY KindsAssumption DEF DialogsInv
<1> QED BY <1>1, SecurityHolds, AccessHolds, PreferencesHolds, SelectorHolds, EventHolds, LandingHolds, ListHolds, CodeHolds, ZenonT(40)
        DEF DialogsInv, SettledIsServers, MonthInv

\* The inductive invariant holds of every dialog, whatever the ledgers, the
\* events, the codes, the options and the bounds.
THEOREM DialogsInvariant == Spec => []DialogsInv
BY DialogsInit, DialogsNext, PTL DEF Spec

\* Every dialog, and what the server keeps for it, stays within its types.
THEOREM DialogsTypeOK == Spec => []TypeOK
BY DialogsInvariant, DialogsTypes, PTL

\* A dialog says that it loads, saves or deletes while it does: its flags
\* follow the subscriptions of its component (isLoading, isSaving, isDeleting).
THEOREM DialogsBusyIsPending == Spec => []BusyIsPending
BY DialogsInvariant, DialogsWait, PTL

\* The secret of a setup of TOTP, its picture, and the token of an access are
\* held only by the view that shows them.
THEOREM DialogsSecretsStayInView == Spec => []SecretsStayInView
BY DialogsInvariant, DialogsHide, PTL

\* What a dialog shows once it waits for nothing is what the server has; an
\* event that is opened and saved is as it was, and a code that is written
\* anew too.
THEOREM DialogsSettledIsServers == Spec => []SettledIsServers
BY DialogsInvariant, DialogsSettle, PTL

================================================================================
