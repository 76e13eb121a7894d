------------------------- MODULE Checkpoint_proofs -------------------------
(***************************************************************************)
(* Checkpoints, for every roster, schedule and number of attempts, and     *)
(* across copies of the database that are put back: a sealed store that    *)
(* v6 writers wrote can always be projected into a checkpoint that passes  *)
(* its own validation, at present and at every committed ordinal, and the  *)
(* recovery action the checkpoint names is the one of the journal.  Every  *)
(* table of the store can be read off its checkpoint, so that a current    *)
(* checkpoint is of the very rows it is compared with.                     *)
(***************************************************************************)
EXTENDS Checkpoint, RunStore_proofs, WellFoundedInduction

-----------------------------------------------------------------------------
(* Induction over the chain *)

LEMMA SetInduction ==
  ASSUME NEW T, 0 \in T, \A n \in Nat : n \in T => n + 1 \in T
  PROVE  Nat \subseteq T
<1> SUFFICES ASSUME Nat \ T # {} PROVE FALSE
  OBVIOUS
<1> DEFINE R == {ss \in Nat \X Nat : ss[1] < ss[2]}
<1>1. IsWellFoundedOn(R, Nat)
  BY NatLessThanWellFounded DEF OpToRel
<1>2. \E x \in Nat \ T : \A y \in Nat \ T : <<y, x>> \notin R
  BY <1>1, WFMin
<1>3. PICK x \in Nat \ T : \A y \in Nat \ T : ~(y < x)
  BY <1>2
<1>4. x # 0 /\ x - 1 \in Nat /\ x - 1 < x /\ (x - 1) + 1 = x
  BY <1>3
<1> QED
  BY <1>3, <1>4

LEMMA Parity ==
  \A n \in Nat : /\ n % 2 \in {0, 1} /\ (n % 2 = 0 <=> (n + 1) % 2 = 1)
                  /\ n % 2 = 1 => (n + 1) % 2 = 0 /\ n > 0
OBVIOUS

(* f is the function upTo of ChainTo, as far as n.                          *)
UpTo(f, o, n) ==
  f = [m \in 0 .. n |->
        IF m = 0 THEN <<>>
        ELSE IF chain[m].ordinal <= o THEN Append(f[m - 1], chain[m]) ELSE f[m - 1]]

LEMMA UpToExists == \A o : \A n \in Nat : \E f : UpTo(f, o, n)
<1> SUFFICES ASSUME NEW o PROVE \A n \in Nat : \E f : UpTo(f, o, n)
  OBVIOUS
<1> DEFINE T == {n \in Nat : \E f : UpTo(f, o, n)}
<1>1. 0 \in T
  <2>1. UpTo([m \in 0 .. 0 |-> <<>>], o, 0)
    BY DEF UpTo
  <2> QED
    BY <2>1
<1>2. ASSUME NEW n \in Nat, n \in T PROVE n + 1 \in T
  <2>1. PICK f : UpTo(f, o, n)
    BY <1>2
  <2> DEFINE last == IF chain[n + 1].ordinal <= o THEN Append(f[n], chain[n + 1]) ELSE f[n]
             g == [m \in 0 .. n + 1 |-> IF m = n + 1 THEN last ELSE f[m]]
  <2>2. \A m \in 0 .. n : g[m] = f[m]
    OBVIOUS
  <2>3. \A m \in 0 .. n : f[m] = IF m = 0 THEN <<>>
          ELSE IF chain[m].ordinal <= o THEN Append(f[m - 1], chain[m]) ELSE f[m - 1]
    <3> DEFINE e(m) == IF m = 0 THEN <<>>
          ELSE IF chain[m].ordinal <= o THEN Append(f[m - 1], chain[m]) ELSE f[m - 1]
    <3>1. f = [m \in 0 .. n |-> e(m)]
      BY <2>1 DEF UpTo
    <3> HIDE DEF e
    <3>2. \A m \in 0 .. n : f[m] = e(m)
      BY <3>1
    <3> QED
      BY <3>2 DEF e
  <2>4. ASSUME NEW m \in 0 .. n + 1
        PROVE  g[m] = IF m = 0 THEN <<>>
                 ELSE IF chain[m].ordinal <= o THEN Append(g[m - 1], chain[m]) ELSE g[m - 1]
    <3>1. CASE m = n + 1
      <4>1. m # 0 /\ m - 1 = n /\ g[m] = last /\ g[n] = f[n]
        BY <3>1, <2>2
      <4> QED
        BY <4>1, <3>1
    <3>2. CASE m \in 0 .. n
      <4>1. g[m] = f[m] /\ (m # 0 => g[m - 1] = f[m - 1])
        BY <3>2, <2>2
      <4> HIDE DEF g
      <4> QED
        BY <4>1, <3>2, <2>3
    <3> QED
      BY <3>1, <3>2
  <2>5. UpTo(g, o, n + 1)
    <3> DEFINE e(m) == IF m = 0 THEN <<>>
          ELSE IF chain[m].ordinal <= o THEN Append(g[m - 1], chain[m]) ELSE g[m - 1]
    <3>1. g = [m \in 0 .. n + 1 |-> g[m]]
      OBVIOUS
    <3>2. \A m \in 0 .. n + 1 : g[m] = e(m)
      BY <2>4
    <3> HIDE DEF g, e
    <3>3. g = [m \in 0 .. n + 1 |-> e(m)]
      BY <3>1, <3>2
    <3> QED
      BY <3>3 DEF UpTo, e
  <2> QED
    BY <2>5
<1> HIDE DEF T
<1>3. Nat \subseteq T
  BY <1>1, <1>2, SetInduction
<1> QED
  BY <1>3 DEF T

LEMMA ChainToIs ==
  ASSUME NEW o, Len(chain) \in Nat
  PROVE  \E f : UpTo(f, o, Len(chain)) /\ ChainTo(o) = f[Len(chain)]
<1> DEFINE f == CHOOSE g : UpTo(g, o, Len(chain))
<1>1. UpTo(f, o, Len(chain))
  BY UpToExists
<1>2. ChainTo(o) = f[Len(chain)]
  BY DEF ChainTo, UpTo
<1> QED
  BY <1>1, <1>2

-----------------------------------------------------------------------------
(* The causal chain of a checkpoint *)

(* Links that alternate, each authorization behind its failure.             *)
Alternates(s, o) ==
  \A i \in 1 .. Len(s) :
    /\ s[i].ordinal <= o
    /\ s[i].kind = IF i % 2 = 1 THEN "failure" ELSE "authorization"
    /\ i % 2 = 0 => s[i] = Authorization(s[i - 1].ordinal, s[i - 1].index)

Fails(n, o) == n > 0 /\ chain[n].kind = "failure" /\ chain[n].ordinal <= o

(* What the first n links leave of themselves at an ordinal: the pairs of   *)
(* its failures and their authorizations, and the last failure if there is  *)
(* no authorization yet.                                                    *)
Selected(s, o, n) ==
  /\ s \in Seq(Link)
  /\ Alternates(s, o)
  /\ Fails(n, o) => Len(s) % 2 = 1 /\ s[Len(s)] = chain[n]
  /\ ~Fails(n, o) => Len(s) % 2 = 0
  /\ \A i \in 1 .. n - 1 : Fails(i, o) => \E j \in 1 .. Len(s) - 1 : s[j] = chain[i] /\ s[j + 1] = chain[i + 1]

LEMMA AppendSelects ==
  ASSUME ChainIsLinked, chain \in Seq(Link), NEW o \in Nat, NEW n \in Nat, n + 1 <= Len(chain),
         NEW s, Selected(s, o, n), chain[n + 1].ordinal <= o
  PROVE  Selected(Append(s, chain[n + 1]), o, n + 1)
<1> DEFINE link == chain[n + 1]
           t == Append(s, link)
<1>0. /\ link \in Link /\ s \in Seq(Link) /\ Len(s) \in Nat /\ Len(chain) \in Nat
      /\ t \in Seq(Link) /\ Len(t) = Len(s) + 1 /\ t[Len(s) + 1] = link
      /\ \A i \in 1 .. Len(s) : t[i] = s[i] /\ s[i] \in Link
      /\ link.ordinal <= o
  BY DEF Selected
<1>1. /\ link.kind \in {"failure", "authorization"}
      /\ n = 0 => link.kind = "failure"
      /\ n > 0 => /\ chain[n].kind \in {"failure", "authorization"}
                  /\ chain[n].kind = "failure" => link = Authorization(chain[n].ordinal, chain[n].index)
                  /\ chain[n].kind = "authorization" => link.kind = "failure"
  <2>1. n > 0 => n \in 1 .. Len(chain) - 1 /\ chain[n] \in Link
    BY <1>0
  <2>2. n = 0 => chain[1] = link /\ chain # <<>>
    BY <1>0
  <2> QED
    BY <1>0, <2>1, <2>2 DEF ChainIsLinked, Link
<1> HIDE DEF link, t
<1>2. \A i \in 1 .. n - 1 : Fails(i, o) => \E j \in 1 .. Len(t) - 1 : t[j] = chain[i] /\ t[j + 1] = chain[i + 1]
  <2>1. SUFFICES ASSUME NEW i \in 1 .. n - 1, Fails(i, o)
                 PROVE  \E j \in 1 .. Len(t) - 1 : t[j] = chain[i] /\ t[j + 1] = chain[i + 1]
    OBVIOUS
  <2>2. PICK j \in 1 .. Len(s) - 1 : s[j] = chain[i] /\ s[j + 1] = chain[i + 1]
    BY <2>1 DEF Selected
  <2>3. j \in 1 .. Len(t) - 1 /\ j \in 1 .. Len(s) /\ j + 1 \in 1 .. Len(s)
    BY <1>0
  <2> QED
    BY <2>2, <2>3, <1>0
<1>3. CASE link.kind = "failure"
  <2>1. ~Fails(n, o)
    BY <1>1, <1>3 DEF Fails, Authorization
  <2>2. Len(s) % 2 = 0 /\ (Len(s) + 1) % 2 = 1
    <3>1. Len(s) % 2 = 0
      BY <2>1 DEF Selected
    <3>2. Len(s) \in Nat
      BY <1>0
    <3> QED
      BY <3>1, <3>2, Parity
  <2>3. Alternates(t, o)
    <3> SUFFICES ASSUME NEW i \in 1 .. Len(t)
                 PROVE  /\ t[i].ordinal <= o
                        /\ t[i].kind = IF i % 2 = 1 THEN "failure" ELSE "authorization"
                        /\ i % 2 = 0 => t[i] = Authorization(t[i - 1].ordinal, t[i - 1].index)
      BY DEF Alternates
    <3>1. CASE i = Len(s) + 1
      BY <3>1, <2>2, <1>0, <1>3
    <3>2. CASE i \in 1 .. Len(s)
      <4>1. i % 2 = 0 => i - 1 \in 1 .. Len(s)
        BY <3>2
      <4> QED
        BY <4>1, <3>2, <1>0 DEF Selected, Alternates
    <3> QED
      BY <3>1, <3>2, <1>0
  <2>4. Fails(n + 1, o) /\ link = chain[n + 1]
    BY <1>3, <1>0 DEF Fails, link
  <2>5. \A i \in 1 .. (n + 1) - 1 : Fails(i, o) => \E j \in 1 .. Len(t) - 1 : t[j] = chain[i] /\ t[j + 1] = chain[i + 1]
    <3>1. \A i \in 1 .. (n + 1) - 1 : i \in 1 .. n - 1 \/ i = n
      OBVIOUS
    <3> QED
      BY <3>1, <1>2, <2>1
  <2> QED
    BY <2>2, <2>3, <2>4, <2>5, <1>0 DEF Selected, t
<1>4. CASE link.kind = "authorization"
  <2>1. n > 0 /\ chain[n].kind = "failure" /\ link = Authorization(chain[n].ordinal, chain[n].index)
    BY <1>1, <1>4
  <2>2. Fails(n, o)
    BY <2>1, <1>0 DEF Fails, Authorization
  <2>3. Len(s) % 2 = 1 /\ s[Len(s)] = chain[n] /\ (Len(s) + 1) % 2 = 0 /\ Len(s) > 0
    <3>1. Len(s) % 2 = 1 /\ s[Len(s)] = chain[n]
      BY <2>2 DEF Selected
    <3>2. (Len(s) + 1) % 2 = 0 /\ Len(s) > 0
      <4>1. Len(s) \in Nat
        BY <1>0
      <4> QED
        BY <3>1, <4>1, Parity
    <3> QED
      BY <3>1, <3>2
  <2>4. Alternates(t, o)
    <3> SUFFICES ASSUME NEW i \in 1 .. Len(t)
                 PROVE  /\ t[i].ordinal <= o
                        /\ t[i].kind = IF i % 2 = 1 THEN "failure" ELSE "authorization"
                        /\ i % 2 = 0 => t[i] = Authorization(t[i - 1].ordinal, t[i - 1].index)
      BY DEF Alternates
    <3>1. CASE i = Len(s) + 1
      <4>1. i - 1 = Len(s) /\ i % 2 = 0 /\ Len(s) \in 1 .. Len(s)
        BY <3>1, <2>3, <1>0
      <4>2. t[i - 1] = chain[n] /\ t[i] = link
        BY <4>1, <3>1, <2>3, <1>0
      <4> QED
        BY <4>1, <4>2, <2>1, <1>0, <1>4
    <3>2. CASE i \in 1 .. Len(s)
      <4>1. i % 2 = 0 => i - 1 \in 1 .. Len(s)
        BY <3>2
      <4> QED
        BY <4>1, <3>2, <1>0 DEF Selected, Alternates
    <3> QED
      BY <3>1, <3>2, <1>0
  <2>5. ~Fails(n + 1, o)
    BY <1>4 DEF Fails, link
  <2>6. \A i \in 1 .. (n + 1) - 1 : Fails(i, o) => \E j \in 1 .. Len(t) - 1 : t[j] = chain[i] /\ t[j + 1] = chain[i + 1]
    <3>1. \A i \in 1 .. (n + 1) - 1 : i \in 1 .. n - 1 \/ i = n
      OBVIOUS
    <3>2. Len(s) \in 1 .. Len(t) - 1 /\ t[Len(s)] = chain[n] /\ t[Len(s) + 1] = chain[n + 1]
      BY <2>3, <1>0 DEF link
    <3> QED
      BY <3>1, <3>2, <1>2
  <2>7. Len(t) % 2 = 0
    BY <2>3, <1>0
  <2>8. Selected(t, o, n + 1)
    BY <2>4, <2>5, <2>6, <2>7, <1>0 DEF Selected
  <2> QED
    BY <2>8 DEF t, link
<1> QED
  BY <1>1, <1>3, <1>4

LEMMA SkipSelects ==
  ASSUME ChainIsLinked, chain \in Seq(Link), NEW o \in Nat, NEW n \in Nat, n + 1 <= Len(chain),
         NEW s, Selected(s, o, n), ~(chain[n + 1].ordinal <= o)
  PROVE  Selected(s, o, n + 1)
<1>1. ~Fails(n, o)
  <2>1. n > 0 => n \in 1 .. Len(chain) - 1 /\ chain[n] \in Link
    OBVIOUS
  <2>2. ASSUME n > 0, chain[n].kind = "failure"
        PROVE  chain[n + 1].ordinal = chain[n].ordinal
    <3>1. chain[n + 1] = Authorization(chain[n].ordinal, chain[n].index)
      BY <2>1, <2>2 DEF ChainIsLinked
    <3> QED
      BY <3>1 DEF Authorization
  <2> QED
    BY <2>2 DEF Fails
<1>2. ~Fails(n + 1, o)
  BY DEF Fails
<1>3. \A i \in 1 .. (n + 1) - 1 : i \in 1 .. n - 1 \/ i = n
  OBVIOUS
<1> QED
  BY <1>1, <1>2, <1>3 DEF Selected

LEMMA ChainToSelects ==
  ASSUME ChainIsLinked, chain \in Seq(Link), NEW o \in Nat
  PROVE  Selected(ChainTo(o), o, Len(chain))
<1>0. Len(chain) \in Nat
  OBVIOUS
<1>1. PICK f : UpTo(f, o, Len(chain)) /\ ChainTo(o) = f[Len(chain)]
  BY <1>0, ChainToIs
<1>2. /\ f[0] = <<>>
      /\ \A m \in 1 .. Len(chain) :
           f[m] = IF chain[m].ordinal <= o THEN Append(f[m - 1], chain[m]) ELSE f[m - 1]
  <2> DEFINE e(m) == IF m = 0 THEN <<>>
        ELSE IF chain[m].ordinal <= o THEN Append(f[m - 1], chain[m]) ELSE f[m - 1]
  <2>1. f = [m \in 0 .. Len(chain) |-> e(m)]
    BY <1>1 DEF UpTo
  <2> HIDE DEF e
  <2>2. \A m \in 0 .. Len(chain) : f[m] = e(m)
    BY <2>1
  <2>3. f[0] = e(0) /\ e(0) = <<>>
    BY <2>2, <1>0 DEF e
  <2>4. \A m \in 1 .. Len(chain) : f[m] = e(m) /\ m # 0
    BY <2>2, <1>0
  <2> QED
    BY <2>3, <2>4 DEF e
<1> DEFINE T == {n \in Nat : n <= Len(chain) => Selected(f[n], o, n)}
<1>3. 0 \in T
  <2>1. Selected(<<>>, o, 0)
    BY DEF Selected, Alternates, Fails
  <2> QED
    BY <2>1, <1>2
<1>4. ASSUME NEW n \in Nat, n \in T PROVE n + 1 \in T
  <2>1. SUFFICES ASSUME n + 1 <= Len(chain) PROVE Selected(f[n + 1], o, n + 1)
    OBVIOUS
  <2>2. Selected(f[n], o, n)
    BY <1>4, <2>1, <1>0
  <2>3. n + 1 \in 1 .. Len(chain) /\ (n + 1) - 1 = n
    <3> HIDE DEF T
    <3> QED
      BY <2>1, <1>0
  <2>4. CASE chain[n + 1].ordinal <= o
    BY <2>1, <2>2, <2>3, <2>4, <1>2, AppendSelects
  <2>5. CASE ~(chain[n + 1].ordinal <= o)
    BY <2>1, <2>2, <2>3, <2>5, <1>2, SkipSelects
  <2> QED
    BY <2>4, <2>5
<1> HIDE DEF T
<1>5. Len(chain) \in T
  BY <1>3, <1>4, <1>0, SetInduction
<1>6. Selected(f[Len(chain)], o, Len(chain))
  BY <1>5, <1>0 DEF T
<1> QED
  BY <1>6, <1>1

-----------------------------------------------------------------------------
(* A checkpoint of a store that verifies *)

(* The links after the latest failure, and what it failed.                  *)
LEMMA AuthorizedIsBound ==
  ASSUME ChainIsLinked, chain \in Seq(Link), NEW i \in 1 .. Len(chain), chain[i].kind = "authorization"
  PROVE  /\ i > 1 /\ chain[i - 1].kind = "failure"
         /\ chain[i] = Authorization(chain[i - 1].ordinal, chain[i - 1].index)
<1>1. chain[1].kind = "failure"
  BY DEF ChainIsLinked
<1>2. i > 1 /\ i - 1 \in 1 .. Len(chain) - 1 /\ (i - 1) + 1 = i /\ chain[i - 1] \in Link
  BY <1>1
<1>3. chain[i - 1].kind = "failure"
  BY <1>2 DEF ChainIsLinked, Link
<1> QED
  BY <1>2, <1>3 DEF ChainIsLinked

(* A halt is on the latest attempt of the current event.                    *)
LEMMA HaltIsOfLatest ==
  ASSUME Invariant, Halted
  PROVE  /\ next \in Ordinals /\ Len(chain) \in 1 .. Len(chain) /\ LastLink \in Link
         /\ LastLink = Failure(next, Len(journal[next]))
         /\ journal[next] # <<>> /\ Latest(next).status = "failed"
<1>0. /\ chain \in Seq(Link) /\ Len(chain) \in Nat /\ chain # <<>> /\ Len(chain) \in 1 .. Len(chain)
      /\ next \in Ordinals /\ LastLink.kind = "failure" /\ LastLink.ordinal = next
      /\ journal[next] # <<>> /\ Latest(next).status = "failed" /\ LastLink \in Link
  BY CurrentIsOrdinal DEF Invariant, LifecycleReplays, TypeOK, Halted, HaltIsCurrent, LatestIs, LastLink
<1> DEFINE k == LastLink.index
           n == Len(journal[next])
<1>1. /\ journal[next] \in Seq(Attempt) /\ n \in Nat /\ k \in 1 .. n /\ k \in DOMAIN journal[next]
      /\ \A j \in 1 .. Len(chain) - 1 : chain[j].kind = "failure" /\ chain[j].ordinal = next => chain[j].index < k
  <2>1. journal[next] \in Seq(Attempt)
    BY <1>0 DEF Invariant, TypeOK
  <2>2. k \in DOMAIN journal[next]
    BY <1>0 DEF Invariant, LifecycleReplays, FailuresAreBound, LastLink
  <2>3. \A j \in 1 .. Len(chain) - 1 : chain[j].kind = "failure" /\ chain[j].ordinal = next => chain[j].index < k
    BY <1>0 DEF Invariant, LifecycleReplays, FailuresAreBound, LastLink
  <2> QED
    BY <2>1, <2>2, <2>3
<1>2. ~(k < n)
  <2> SUFFICES ASSUME k < n PROVE FALSE
    OBVIOUS
  <2>1. k + 1 \in DOMAIN journal[next] /\ k + 1 > 1 /\ (k + 1) - 1 = k
    BY <1>1
  <2>2. \E i \in 1 .. Len(chain) - 1 : chain[i] = Failure(next, k)
    BY <2>1, <1>0 DEF Invariant, LifecycleReplays, RetriesAreAuthorized
  <2>3. PICK i \in 1 .. Len(chain) - 1 : chain[i] = Failure(next, k)
    BY <2>2
  <2>4. chain[i].kind = "failure" /\ chain[i].ordinal = next /\ chain[i].index = k
    BY <2>3 DEF Failure
  <2> QED
    BY <2>4, <1>1
<1>3. k = n
  BY <1>1, <1>2
<1>4. LastLink = [kind |-> LastLink.kind, ordinal |-> LastLink.ordinal, index |-> LastLink.index]
  BY <1>0 DEF Link
<1> QED
  BY <1>0, <1>3, <1>4 DEF Failure

(* The link a projection exposes, at present and in the past.               *)
LEMMA PresentFailure ==
  ASSUME Invariant
  PROVE  CurrentLink(ChainTo(next), next, "failure") = IF Halted THEN LastLink ELSE None
<1> DEFINE s == ChainTo(next)
<1>0. chain \in Seq(Link) /\ Len(chain) \in Nat /\ next \in Nat /\ ChainIsLinked
  BY ScheduleAssumption DEF Invariant, LifecycleReplays, TypeOK
<1>1. Selected(s, next, Len(chain))
  BY <1>0, ChainToSelects
<1> HIDE DEF s
<1>2. s \in Seq(Link) /\ Len(s) \in Nat /\ (s = <<>> <=> Len(s) = 0)
  BY <1>1 DEF Selected
<1>3. CASE Halted
  <2>1. Fails(Len(chain), next) /\ chain[Len(chain)] = LastLink
    BY <1>3, <1>0, HaltIsOfLatest DEF Fails, LastLink, Failure
  <2>2. s[Len(s)] = LastLink /\ Len(s) % 2 = 1
    BY <2>1, <1>1 DEF Selected
  <2>3. s # <<>>
    BY <2>2, <1>2
  <2>4. LastLink.kind = "failure" /\ LastLink.ordinal = next
    BY <1>3, HaltIsOfLatest DEF Failure
  <2> QED
    BY <1>3, <2>2, <2>3, <2>4 DEF CurrentLink, Last, s
<1>4. CASE ~Halted
  <2>1. ~Fails(Len(chain), next)
    BY <1>4, <1>0 DEF Fails, Halted, LastLink
  <2>2. Len(s) % 2 = 0
    BY <2>1, <1>1 DEF Selected
  <2>3. s # <<>> => s[Len(s)].kind = "authorization"
    BY <2>2, <1>1, <1>2 DEF Selected, Alternates
  <2> QED
    BY <1>4, <2>3 DEF CurrentLink, Last, s
<1> QED
  BY <1>3, <1>4

LEMMA PastFailure ==
  ASSUME Invariant, NEW o \in 0 .. next - 1
  PROVE  CurrentLink(ChainTo(o), o, "failure") = None
<1> DEFINE s == ChainTo(o)
<1>0. chain \in Seq(Link) /\ Len(chain) \in Nat /\ next \in Nat /\ o \in Nat /\ o < next /\ ChainIsLinked
  BY ScheduleAssumption DEF Invariant, LifecycleReplays, TypeOK
<1>1. Selected(s, o, Len(chain))
  BY <1>0, ChainToSelects
<1> HIDE DEF s
<1>2. s \in Seq(Link) /\ Len(s) \in Nat /\ (s = <<>> <=> Len(s) = 0)
  BY <1>1 DEF Selected
<1>3. ~Fails(Len(chain), o)
  <2> SUFFICES ASSUME Fails(Len(chain), o) PROVE FALSE
    OBVIOUS
  <2>1. Halted /\ LastLink.ordinal <= o
    BY <1>0 DEF Fails, Halted, LastLink
  <2>2. LastLink.ordinal = next
    BY <2>1, HaltIsOfLatest DEF Failure
  <2> QED
    BY <2>1, <2>2, <1>0
<1>4. Len(s) % 2 = 0
  BY <1>3, <1>1 DEF Selected
<1>5. s # <<>> => s[Len(s)].kind = "authorization"
  BY <1>4, <1>1, <1>2 DEF Selected, Alternates
<1> QED
  BY <1>5 DEF CurrentLink, Last, s

-----------------------------------------------------------------------------
(* Every projection is a well-formed checkpoint *)

ShownAttempt == [status : Status, answer : Reply \union {NoReply}]

LEMMA PrefixIs ==
  ASSUME Invariant, NEW o \in Ordinals
  PROVE  /\ o # EventCount /\ journal[o] \in Seq(Attempt)
         /\ AttemptPrefix(o) \in Seq(ShownAttempt) /\ Len(AttemptPrefix(o)) = Len(journal[o])
         /\ DOMAIN AttemptPrefix(o) = DOMAIN journal[o] /\ DOMAIN journal[o] = 1 .. Len(journal[o])
         /\ \A k \in DOMAIN journal[o] : AttemptPrefix(o)[k] = Shown(journal[o][k])
         /\ AttemptPrefix(o) = <<>> <=> journal[o] = <<>>
         /\ journal[o] # <<>> => Len(journal[o]) \in DOMAIN journal[o]
<1>1. o # EventCount /\ journal[o] \in Seq(Attempt)
  BY ScheduleAssumption DEF Ordinals, Invariant, TypeOK
<1>2. AttemptPrefix(o) = [k \in 1 .. Len(journal[o]) |-> Shown(journal[o][k])]
  BY <1>1 DEF AttemptPrefix
<1>3. \A k \in 1 .. Len(journal[o]) : Shown(journal[o][k]) \in ShownAttempt
  <2>1. \A row \in Attempt : Shown(row) \in ShownAttempt
    BY DEF Shown, ShownAttempt, Attempt
  <2>2. \A k \in 1 .. Len(journal[o]) : journal[o][k] \in Attempt
    BY <1>1
  <2> QED
    BY <2>1, <2>2
<1>4. AttemptPrefix(o) \in Seq(ShownAttempt) /\ Len(AttemptPrefix(o)) = Len(journal[o])
  <2>1. Len(journal[o]) \in Nat
    BY <1>1
  <2> DEFINE row(k) == Shown(journal[o][k])
             n == Len(journal[o])
  <2>2. AttemptPrefix(o) = [k \in 1 .. n |-> row(k)] /\ \A k \in 1 .. n : row(k) \in ShownAttempt
    BY <1>2, <1>3
  <2> HIDE DEF row, n
  <2>3. AttemptPrefix(o) \in Seq(ShownAttempt) /\ Len(AttemptPrefix(o)) = n
    BY <2>1, <2>2 DEF n
  <2> QED
    BY <2>3 DEF n
<1>5. DOMAIN journal[o] = 1 .. Len(journal[o]) /\ (journal[o] # <<>> => Len(journal[o]) \in 1 .. Len(journal[o]))
  BY <1>1
<1>6. \A k \in DOMAIN journal[o] : AttemptPrefix(o)[k] = Shown(journal[o][k])
  BY <1>2, <1>5
<1>7. AttemptPrefix(o) = <<>> <=> journal[o] = <<>>
  BY <1>1, <1>4
<1>8. DOMAIN AttemptPrefix(o) = DOMAIN journal[o]
  BY <1>4, <1>5
<1> QED
  BY <1>1, <1>4, <1>5, <1>6, <1>7, <1>8

LEMMA ProjectionFits ==
  ASSUME Invariant, AllFit, NEW o \in 0 .. next, NEW x
  PROVE  /\ ChainAlternates(Projection(o, x))
         /\ PrefixFits(Projection(o, x))
         /\ RetriesFit(Projection(o, x))
<1> DEFINE c == Projection(o, x)
<1>0. /\ c.ordinal = o /\ c.prefix = AttemptPrefix(o) /\ c.chain = ChainTo(o)
      /\ o \in Nat /\ next \in 0 .. EventCount /\ EventCount \in Nat /\ (o = EventCount \/ o \in Ordinals)
      /\ chain \in Seq(Link) /\ ChainIsLinked /\ Len(chain) \in Nat
  BY ScheduleAssumption DEF Projection, Invariant, LifecycleReplays, TypeOK, Ordinals
<1>1. Selected(c.chain, o, Len(chain))
  BY <1>0, ChainToSelects
<1>2. o = EventCount => c.prefix = <<>>
  BY <1>0 DEF AttemptPrefix
<1> HIDE DEF c
<1>3. ChainAlternates(c)
  <2>1. c.chain \in Seq(Link) /\ DOMAIN c.chain = 1 .. Len(c.chain)
    BY <1>1 DEF Selected
  <2> QED
    BY <2>1, <1>0, <1>1 DEF Selected, Alternates, ChainAlternates
<1>4. PrefixFits(c)
  <2>1. CASE o = EventCount
    <3>1. DOMAIN c.prefix = {} /\ Len(c.prefix) = 0
      BY <2>1, <1>2
    <3> QED
      BY <2>1, <3>1, <1>2, <1>0 DEF PrefixFits
  <2>2. CASE o \in Ordinals
    <3>1. /\ DOMAIN c.prefix = DOMAIN journal[o] /\ Len(c.prefix) = Len(journal[o])
          /\ o # EventCount /\ journal[o] \in Seq(Attempt) /\ DOMAIN journal[o] = 1 .. Len(journal[o])
          /\ \A k \in DOMAIN journal[o] : c.prefix[k] = Shown(journal[o][k]) /\ journal[o][k] \in Attempt
      BY <2>2, <1>0, PrefixIs
    <3>2. ASSUME NEW k \in DOMAIN journal[o] PROVE AnswerFits(c.prefix[k])
      <4>1. EvidenceFits(o, k)
        BY <2>2 DEF AllFit
      <4>2. c.prefix[k] = Shown(journal[o][k])
        BY <3>1
      <4>3. journal[o][k].status \in Terminal => journal[o][k].status = Outcome(journal[o][k].reply)
        BY <4>1 DEF EvidenceFits
      <4> QED
        BY <4>2, <4>3 DEF AnswerFits, Shown
    <3>3. ASSUME NEW k \in 1 .. Len(journal[o]) - 1 PROVE c.prefix[k].status = "failed"
      <4>1. k \in DOMAIN journal[o] /\ k < Len(journal[o])
        BY <3>1
      <4>2. journal[o][k].status = "failed"
        BY <4>1, <2>2 DEF Invariant, LifecycleReplays, AttemptsAreCovered
      <4>3. c.prefix[k] = Shown(journal[o][k])
        BY <4>1, <3>1
      <4> QED
        BY <4>2, <4>3 DEF Shown
    <3> QED
      BY <3>1, <3>2, <3>3, <1>0 DEF PrefixFits
  <2> QED
    BY <2>1, <2>2, <1>0
<1>5. RetriesFit(c)
  <2>1. SUFFICES ASSUME NEW k \in 1 .. Len(c.prefix) - 1
                 PROVE  \E j \in 1 .. Len(c.chain) - 1 : /\ c.chain[j] = Failure(o, k)
                                                         /\ c.chain[j + 1] = Authorization(o, k)
    BY <1>0 DEF RetriesFit
  <2>2. o \in Ordinals
    <3>1. Len(<<>>) = 0
      OBVIOUS
    <3> QED
      BY <2>1, <3>1, <1>0, <1>2
  <2>3. /\ k \in Nat /\ k + 1 \in DOMAIN journal[o] /\ k + 1 > 1 /\ (k + 1) - 1 = k
    BY <2>1, <2>2, <1>0, PrefixIs
  <2>4. PICK i \in 1 .. Len(chain) - 1 : chain[i] = Failure(o, k) /\ chain[i + 1] = Authorization(o, k)
    BY <2>2, <2>3 DEF Invariant, LifecycleReplays, RetriesAreAuthorized
  <2>5. Fails(i, o)
    BY <2>4, <1>0 DEF Fails, Failure
  <2> QED
    BY <2>4, <2>5, <1>1 DEF Selected
<1> QED
  BY <1>3, <1>4, <1>5 DEF c

LEMMA SnapshotIsWellFormed ==
  ASSUME Invariant, AllFit
  PROVE  WellFormed(Snapshot)
<1> DEFINE c == Projection(next, exec)
           failure == IF Halted THEN LastLink ELSE None
<1>0. /\ c.ordinal = next /\ c.prefix = AttemptPrefix(next) /\ c.chain = ChainTo(next) /\ c.execution = exec
      /\ c.failure = CurrentLink(ChainTo(next), next, "failure")
      /\ c.authorization = CurrentLink(ChainTo(next), next, "authorization")
      /\ next \in 0 .. next /\ next \in 0 .. EventCount /\ EventCount \in Nat
      /\ (next = EventCount <=> ~Running) /\ (Running => next \in Ordinals)
  BY ScheduleAssumption DEF Projection, Invariant, TypeOK, Running, Ordinals
<1>1. ChainAlternates(c) /\ PrefixFits(c) /\ RetriesFit(c)
  BY <1>0, ProjectionFits
<1>2. c.failure = failure /\ (Halted => LastLink # None)
  <2>1. Halted => LastLink \in Link
    BY HaltIsOfLatest
  <2> QED
    BY <1>0, <2>1, PresentFailure, NoneAssumption
<1>3. Running => /\ Len(AttemptPrefix(next)) = Len(journal[next])
                 /\ (AttemptPrefix(next) = <<>> <=> journal[next] = <<>>)
                 /\ journal[next] # <<>> => AttemptPrefix(next)[Len(journal[next])].status = Latest(next).status
  <2>1. ASSUME Running, journal[next] # <<>>
        PROVE  AttemptPrefix(next)[Len(journal[next])].status = Latest(next).status
    <3>1. AttemptPrefix(next)[Len(journal[next])] = Shown(journal[next][Len(journal[next])])
      BY <2>1, <1>0, PrefixIs
    <3> QED
      BY <3>1 DEF Shown, Latest
  <2> QED
    BY <2>1, <1>0, PrefixIs
<1>4. ~Running => c.prefix = <<>> /\ ~Halted
  BY <1>0, HaltIsOfLatest, ScheduleAssumption DEF AttemptPrefix, Running, Ordinals
<1> HIDE DEF c, failure
<1>5. CurrentLinkFits(c)
  <2>1. c.failure # None => /\ c.prefix # <<>> /\ Last(c.prefix).status = "failed"
                            /\ c.failure.index = Len(c.prefix)
    <3> SUFFICES ASSUME c.failure # None
                 PROVE  c.prefix # <<>> /\ Last(c.prefix).status = "failed" /\ c.failure.index = Len(c.prefix)
      OBVIOUS
    <3>1. Halted /\ c.failure = LastLink /\ Running
      BY <1>2, <1>4 DEF failure
    <3>2. LastLink.index = Len(journal[next]) /\ journal[next] # <<>> /\ Latest(next).status = "failed"
      BY <3>1, HaltIsOfLatest DEF Failure
    <3> QED
      BY <3>1, <3>2, <1>0, <1>3 DEF Last
  <2> QED
    BY <2>1, <1>0 DEF CurrentLinkFits
<1>6. c.execution = ReplayedExecution(c.ordinal, c.prefix, c.failure)
  <2>1. exec = DerivedExecution
    BY DEF Invariant, LifecycleReplays, ExecutionReplays
  <2>2. CurrentStarted <=> c.prefix # <<>>
    BY <1>0, <1>3, <1>4 DEF CurrentStarted
  <2>3. CurrentStarted => Last(c.prefix).status = Latest(next).status
    BY <1>0, <1>3 DEF CurrentStarted, Last
  <2>4. Halted <=> c.failure # None
    BY <1>2 DEF failure
  <2> DEFINE counts == [s \in Status |-> (IF s = "succeeded" THEN next ELSE 0)
                          + (IF CurrentStarted /\ Latest(next).status = s THEN 1 ELSE 0)]
             replayed == [s \in Status |-> (IF s = "succeeded" THEN c.ordinal ELSE 0)
                          + (IF c.prefix # <<>> /\ Last(c.prefix).status = s THEN 1 ELSE 0)]
  <2>5. counts = replayed
    BY <1>0, <2>2, <2>3
  <2>6. DerivedExecution =
          [status |-> IF ~Running THEN "COMPLETE" ELSE IF Halted THEN "FAILED" ELSE "RUNNING",
           next |-> next, current |-> next,
           ids |-> IF CurrentStarted THEN 0 .. next ELSE 0 .. next - 1,
           counts |-> counts, failed |-> IF Halted THEN {next} ELSE {}]
    BY DEF DerivedExecution
  <2>7. ReplayedExecution(c.ordinal, c.prefix, c.failure) =
          [status |-> IF c.ordinal = EventCount THEN "COMPLETE" ELSE IF c.failure # None THEN "FAILED" ELSE "RUNNING",
           next |-> c.ordinal, current |-> c.ordinal,
           ids |-> IF c.prefix = <<>> THEN 0 .. c.ordinal - 1 ELSE 0 .. c.ordinal,
           counts |-> replayed, failed |-> IF c.failure = None THEN {} ELSE {c.ordinal}]
    BY DEF ReplayedExecution
  <2> HIDE DEF counts, replayed
  <2> QED
    BY <2>1, <2>2, <2>4, <2>5, <2>6, <2>7, <1>0
<1> QED
  BY <1>1, <1>5, <1>6 DEF WellFormed, Snapshot, c

LEMMA HistoryIsWellFormed ==
  ASSUME Invariant, AllFit, NEW o \in 0 .. next - 1
  PROVE  WellFormed(History(o))
<1> DEFINE x == ReplayedExecution(o, AttemptPrefix(o), None)
           c == Projection(o, x)
<1>0. /\ c.ordinal = o /\ c.prefix = AttemptPrefix(o) /\ c.chain = ChainTo(o) /\ c.execution = x
      /\ c.failure = CurrentLink(ChainTo(o), o, "failure")
      /\ c.authorization = CurrentLink(ChainTo(o), o, "authorization")
      /\ o \in 0 .. next
  BY DEF Projection, Invariant, TypeOK
<1>1. ChainAlternates(c) /\ PrefixFits(c) /\ RetriesFit(c)
  BY <1>0, ProjectionFits
<1>2. c.failure = None
  BY <1>0, PastFailure
<1>3. c.execution = ReplayedExecution(c.ordinal, c.prefix, c.failure)
  BY <1>0, <1>2
<1> HIDE DEF c
<1>4. CurrentLinkFits(c)
  BY <1>0, <1>2 DEF CurrentLinkFits
<1>5. WellFormed(c)
  BY <1>1, <1>3, <1>4 DEF WellFormed
<1> QED
  BY <1>5 DEF c, History

-----------------------------------------------------------------------------
(* The recovery action *)

LEMMA FailedIsBound ==
  ASSUME Invariant, AllFit, Running, LatestIs(next, "failed")
  PROVE  /\ Bound(next, Len(journal[next]))
         /\ Freed(next, Len(journal[next])) <=> ~Halted
<1> DEFINE k == Len(journal[next])
<1>0. /\ next \in Ordinals /\ journal[next] \in Seq(Attempt) /\ journal[next] # <<>>
      /\ k \in DOMAIN journal[next] /\ journal[next][k].status = "failed"
      /\ chain \in Seq(Link) /\ Len(chain) \in Nat /\ DOMAIN chain = 1 .. Len(chain) /\ ChainIsLinked
  BY CurrentIsOrdinal DEF Invariant, LifecycleReplays, TypeOK, LatestIs, Latest
<1> HIDE DEF k
<1>1. Bound(next, k)
  BY <1>0 DEF AllFit, EvidenceFits, Terminal
<1>2. PICK i \in 1 .. Len(chain) : chain[i] = Failure(next, k)
  BY <1>0, <1>1 DEF Bound
<1>3. ASSUME Halted, NEW j \in 1 .. Len(chain), chain[j] = Authorization(next, k)
      PROVE  FALSE
  <2>1. j > 1 /\ chain[j - 1].kind = "failure"
        /\ chain[j] = Authorization(chain[j - 1].ordinal, chain[j - 1].index)
    BY <1>0, <1>3, AuthorizedIsBound DEF Authorization
  <2>2. chain[j - 1].ordinal = next /\ chain[j - 1].index = k
    BY <2>1, <1>3 DEF Authorization
  <2>3. /\ LastLink.kind = "failure" /\ LastLink.ordinal = next /\ LastLink.index = k
    BY <1>3, HaltIsOfLatest DEF Failure, k
  <2>4. Len(chain) \in DOMAIN chain /\ j - 1 \in 1 .. Len(chain) - 1
    BY <1>0, <2>1
  <2>5. chain[j - 1].index < LastLink.index
    BY <2>1, <2>2, <2>3, <2>4 DEF Invariant, LifecycleReplays, FailuresAreBound, LastLink
  <2>6. LastLink.index \in Nat
    BY <1>3, HaltIsOfLatest DEF Link
  <2> QED
    BY <2>2, <2>3, <2>5, <2>6
<1>4. ASSUME ~Halted PROVE Freed(next, k)
  <2>1. chain[i].kind = "failure" /\ chain[i].ordinal = next /\ chain[i].index = k
    BY <1>2 DEF Failure
  <2>a. chain # <<>>
    BY <1>0
  <2>2. i # Len(chain)
    BY <1>4, <2>1, <2>a DEF Halted, LastLink
  <2>3. i \in 1 .. Len(chain) - 1 /\ i + 1 \in DOMAIN chain
    BY <2>2, <1>0
  <2>4. chain[i + 1] = Authorization(next, k)
    BY <2>1, <2>3, <1>0 DEF ChainIsLinked
  <2> QED
    BY <2>3, <2>4 DEF Freed
<1> QED
  BY <1>0, <1>1, <1>3, <1>4 DEF Freed, k

LEMMA ResumeAgrees ==
  ASSUME Invariant, AllFit
  PROVE  ResumeAction(Snapshot) = ActionOf[ResumeState]
<1> DEFINE c == Snapshot
           k == Len(journal[next])
           s == Latest(next).status
<1>0. /\ c.ordinal = next /\ c.prefix = AttemptPrefix(next)
      /\ c.failure = IF Halted THEN LastLink ELSE None
      /\ (Halted => LastLink # None)
      /\ (next = EventCount <=> ~Running) /\ (Running => next \in Ordinals)
  <2>1. Halted => LastLink \in Link
    BY HaltIsOfLatest
  <2> QED
    BY <2>1, ScheduleAssumption, PresentFailure, NoneAssumption DEF Projection, Snapshot, Invariant,
       TypeOK, Running, Ordinals
<1>1. Running => /\ c.prefix = <<>> <=> journal[next] = <<>>
                 /\ journal[next] # <<>> => Last(c.prefix).status = s /\ s \in Status
  <2> SUFFICES ASSUME Running
               PROVE  /\ c.prefix = <<>> <=> journal[next] = <<>>
                      /\ journal[next] # <<>> => Last(c.prefix).status = s /\ s \in Status
    OBVIOUS
  <2>1. c.prefix = <<>> <=> journal[next] = <<>>
    BY <1>0, PrefixIs
  <2>2. ASSUME journal[next] # <<>> PROVE Last(c.prefix).status = s /\ s \in Status
    <3>1. /\ Len(c.prefix) = k /\ c.prefix[k] = Shown(journal[next][k]) /\ journal[next] \in Seq(Attempt)
          /\ k \in DOMAIN journal[next] /\ DOMAIN journal[next] = 1 .. k
      BY <2>2, <1>0, PrefixIs
    <3>2. journal[next][k] \in Attempt
      BY <3>1
    <3> QED
      BY <3>1, <3>2 DEF Last, Shown, Latest, Attempt
  <2> QED
    BY <2>1, <2>2
<1> HIDE DEF c
<1>2. CASE ~Running
  BY <1>2, <1>0 DEF ResumeAction, ResumeState, ActionOf, c
<1>3. CASE Running /\ journal[next] = <<>>
  BY <1>3, <1>0, <1>1 DEF ResumeAction, ResumeState, ActionOf, c
<1>4. CASE Running /\ journal[next] # <<>> /\ s = "pending"
  BY <1>4, <1>0, <1>1 DEF ResumeAction, ResumeState, ActionOf, c
<1>5. CASE Running /\ journal[next] # <<>> /\ s = "in_progress"
  BY <1>5, <1>0, <1>1 DEF ResumeAction, ResumeState, ActionOf, c
<1>6. CASE Running /\ journal[next] # <<>> /\ s = "succeeded"
  BY <1>6, <1>0, <1>1 DEF ResumeAction, ResumeState, ActionOf, c
<1>7. CASE Running /\ journal[next] # <<>> /\ s = "failed"
  <2>1. Bound(next, k) /\ (Freed(next, k) <=> ~Halted)
    BY <1>7, FailedIsBound DEF LatestIs
  <2>2. ResumeState = IF Halted THEN "halted_current_event" ELSE "retry_same_event"
    BY <1>7, <2>1 DEF ResumeState
  <2>3. ResumeAction(c) = IF Halted THEN "halted_current_event" ELSE "retry_same_event"
    BY <1>7, <1>0, <1>1 DEF ResumeAction
  <2> QED
    BY <2>2, <2>3 DEF ActionOf, c
<1> QED
  BY <1>1, <1>2, <1>3, <1>4, <1>5, <1>6, <1>7 DEF Status

-----------------------------------------------------------------------------
(* What a flattened sequence of sequences holds *)

Flat(f, seqs, n) ==
  f = [i \in 1 .. n |-> IF i = 1 THEN seqs[1] ELSE f[i - 1] \o seqs[i]]

LEMMA FlatExists ==
  ASSUME NEW seqs
  PROVE  \A n \in Nat : n > 0 => \E f : Flat(f, seqs, n)
<1> DEFINE T == {n \in Nat : n > 0 => \E f : Flat(f, seqs, n)}
<1>1. 0 \in T
  OBVIOUS
<1>2. ASSUME NEW n \in Nat, n \in T PROVE n + 1 \in T
  <2>1. CASE n = 0
    <3> DEFINE f == [i \in 1 .. 1 |-> seqs[1]]
    <3>1. Flat(f, seqs, 1)
      BY DEF Flat
    <3> QED
      BY <2>1, <3>1
  <2>2. CASE n > 0
    <3>1. PICK f : Flat(f, seqs, n)
      BY <1>2, <2>2
    <3> DEFINE e(h, i) == IF i = 1 THEN seqs[1] ELSE h[i - 1] \o seqs[i]
               g == [i \in 1 .. n + 1 |-> IF i = n + 1 THEN f[n] \o seqs[n + 1] ELSE f[i]]
    <3>2. f = [i \in 1 .. n |-> e(f, i)]
      BY <3>1 DEF Flat
    <3>3. \A i \in 1 .. n : g[i] = f[i]
      BY <2>2
    <3>4. g[n + 1] = f[n] \o seqs[n + 1] /\ g = [i \in 1 .. n + 1 |-> g[i]]
      <4>1. n + 1 \in 1 .. n + 1
        BY <2>2
      <4> QED
        BY <4>1
    <3> HIDE DEF g
    <3>5. \A i \in 1 .. n : f[i] = e(f, i)
      <4> HIDE DEF e
      <4> QED
        BY <3>2
    <3>6. ASSUME NEW i \in 1 .. n + 1 PROVE g[i] = e(g, i)
      <4>1. CASE i = n + 1
        <5>1. i # 1 /\ i - 1 = n /\ n \in 1 .. n
          BY <4>1, <2>2
        <5>2. g[n] = f[n]
          BY <5>1, <3>3
        <5> QED
          BY <4>1, <5>1, <5>2, <3>4
      <4>2. CASE i \in 1 .. n
        <5>1. i # 1 => i - 1 \in 1 .. n
          BY <4>2
        <5>2. i # 1 => g[i - 1] = f[i - 1]
          BY <5>1, <3>3
        <5>3. g[i] = e(f, i)
          BY <4>2, <3>3, <3>5
        <5> QED
          BY <5>2, <5>3
      <4> QED
        BY <4>1, <4>2
    <3>7. g = [i \in 1 .. n + 1 |-> e(g, i)]
      <4> HIDE DEF e
      <4> QED
        BY <3>4, <3>6
    <3>8. Flat(g, seqs, n + 1)
      BY <3>7 DEF Flat
    <3> QED
      BY <3>8
  <2> QED
    BY <2>1, <2>2
<1> HIDE DEF T
<1>3. Nat \subseteq T
  BY <1>1, <1>2, SetInduction
<1> QED
  BY <1>3 DEF T

In(s, x) == \E i \in 1 .. Len(s) : s[i] = x

LEMMA InConcat ==
  ASSUME NEW S, NEW s \in Seq(S), NEW t \in Seq(S)
  PROVE  s \o t \in Seq(S) /\ \A x : In(s \o t, x) <=> In(s, x) \/ In(t, x)
<1>0. s \o t \in Seq(S) /\ Len(s) \in Nat /\ Len(t) \in Nat /\ Len(s \o t) = Len(s) + Len(t)
      /\ (\A i \in 1 .. Len(s) : (s \o t)[i] = s[i])
      /\ (\A i \in 1 .. Len(t) : (s \o t)[Len(s) + i] = t[i])
  OBVIOUS
<1>1. ASSUME NEW x, In(s \o t, x) PROVE In(s, x) \/ In(t, x)
  <2>1. PICK i \in 1 .. Len(s \o t) : (s \o t)[i] = x
    BY <1>1 DEF In
  <2>2. CASE i \in 1 .. Len(s)
    BY <2>1, <2>2, <1>0 DEF In
  <2>3. CASE i > Len(s)
    <3>1. i - Len(s) \in 1 .. Len(t) /\ Len(s) + (i - Len(s)) = i
      BY <2>3, <1>0
    <3> QED
      BY <3>1, <2>1, <1>0 DEF In
  <2> QED
    BY <2>2, <2>3, <1>0
<1>2. ASSUME NEW x, In(s, x) PROVE In(s \o t, x)
  <2>1. PICK i \in 1 .. Len(s) : s[i] = x
    BY <1>2 DEF In
  <2>2. i \in 1 .. Len(s \o t)
    BY <1>0
  <2> QED
    BY <2>1, <2>2, <1>0 DEF In
<1>3. ASSUME NEW x, In(t, x) PROVE In(s \o t, x)
  <2>1. PICK i \in 1 .. Len(t) : t[i] = x
    BY <1>3 DEF In
  <2>2. Len(s) + i \in 1 .. Len(s \o t)
    BY <1>0
  <2> QED
    BY <2>1, <2>2, <1>0 DEF In
<1> QED
  BY <1>0, <1>1, <1>2, <1>3

(* FlattenSeq holds what its parts hold.                                    *)
LEMMA FlattenHolds ==
  ASSUME NEW S, NEW seqs \in Seq(Seq(S))
  PROVE  /\ FlattenSeq(seqs) \in Seq(S)
         /\ \A x : In(FlattenSeq(seqs), x) <=> \E j \in 1 .. Len(seqs) : In(seqs[j], x)
<1>0. Len(seqs) \in Nat /\ \A j \in 1 .. Len(seqs) : seqs[j] \in Seq(S)
  OBVIOUS
<1>1. CASE Len(seqs) = 0
  <2>1. FlattenSeq(seqs) = seqs /\ seqs = <<>>
    BY <1>1 DEF FlattenSeq
  <2> QED
    BY <2>1, <1>1 DEF In
<1>2. CASE Len(seqs) > 0
  <2> DEFINE f == CHOOSE g : Flat(g, seqs, Len(seqs))
  <2>1. Flat(f, seqs, Len(seqs))
    BY <1>0, <1>2, FlatExists
  <2>2. FlattenSeq(seqs) = f[Len(seqs)]
    <3>1. f = CHOOSE g : g = [i \in 1 .. Len(seqs) |-> IF i = 1 THEN seqs[i] ELSE g[i - 1] \o seqs[i]]
      <4>1. \A g : [i \in 1 .. Len(seqs) |-> IF i = 1 THEN seqs[1] ELSE g[i - 1] \o seqs[i]]
                   = [i \in 1 .. Len(seqs) |-> IF i = 1 THEN seqs[i] ELSE g[i - 1] \o seqs[i]]
        OBVIOUS
      <4> QED
        BY <4>1 DEF Flat
    <3>2. Len(seqs) # 0
      BY <1>2
    <3> HIDE DEF f
    <3> QED
      BY <3>1, <3>2 DEF FlattenSeq
  <2> DEFINE e(i) == IF i = 1 THEN seqs[1] ELSE f[i - 1] \o seqs[i]
  <2>3. f = [i \in 1 .. Len(seqs) |-> e(i)]
    BY <2>1 DEF Flat
  <2>4. \A i \in 1 .. Len(seqs) : f[i] = e(i)
    <3> HIDE DEF e, f
    <3> QED
      BY <2>3
  <2> HIDE DEF f
  <2> DEFINE T == {n \in Nat : n \in 1 .. Len(seqs) =>
                     f[n] \in Seq(S) /\ \A x : In(f[n], x) <=> \E j \in 1 .. n : In(seqs[j], x)}
  <2>5. 0 \in T
    OBVIOUS
  <2>6. ASSUME NEW n \in Nat, n \in T PROVE n + 1 \in T
    <3> SUFFICES ASSUME n + 1 \in 1 .. Len(seqs)
                 PROVE  /\ f[n + 1] \in Seq(S)
                        /\ \A x : In(f[n + 1], x) <=> \E j \in 1 .. n + 1 : In(seqs[j], x)
      OBVIOUS
    <3>1. CASE n = 0
      <4>1. f[n + 1] = seqs[1] /\ \A j : j \in 1 .. n + 1 <=> j = 1
        BY <3>1, <2>4
      <4> HIDE DEF e
      <4>2. seqs[1] \in Seq(S)
        BY <3>1, <1>0
      <4> HIDE DEF T
      <4> QED
        BY <4>1, <4>2
    <3>2. CASE n > 0
      <4>1. n + 1 # 1 /\ (n + 1) - 1 = n /\ n \in 1 .. Len(seqs) /\ seqs[n + 1] \in Seq(S)
        BY <3>2, <1>0
      <4>2. f[n + 1] = f[n] \o seqs[n + 1]
        BY <4>1, <2>4
      <4>3. f[n] \in Seq(S) /\ \A x : In(f[n], x) <=> \E j \in 1 .. n : In(seqs[j], x)
        BY <4>1, <2>6
      <4>4. f[n + 1] \in Seq(S) /\ \A x : In(f[n + 1], x) <=> In(f[n], x) \/ In(seqs[n + 1], x)
        BY <4>1, <4>2, <4>3, InConcat
      <4>5. \A j : j \in 1 .. n + 1 <=> j \in 1 .. n \/ j = n + 1
        OBVIOUS
      <4> HIDE DEF e, T
      <4> QED
        BY <4>3, <4>4, <4>5
    <3> HIDE DEF e, T
    <3>3. n = 0 \/ n > 0
      OBVIOUS
    <3> QED
      BY <3>1, <3>2, <3>3
  <2> HIDE DEF T
  <2>7. Len(seqs) \in T
    BY <2>5, <2>6, <1>0, SetInduction
  <2>8. Len(seqs) \in 1 .. Len(seqs)
    BY <1>0, <1>2
  <2> QED
    BY <2>2, <2>7, <2>8 DEF T
<1> QED
  BY <1>0, <1>1, <1>2

-----------------------------------------------------------------------------
(* A snapshot determines the rows                                           *)

HasAnswer(e, k) == journal[e][k].request /\ journal[e][k].reply # NoReply

AnswersOf(e) ==
  FlattenSeq([k \in DOMAIN journal[e] |-> IF HasAnswer(e, k) THEN <<Answered(e, k)>> ELSE <<>>])

LEMMA AnswersOfEvent ==
  ASSUME TypeOK, NEW e \in Ordinals
  PROVE  /\ AnswersOf(e) \in Seq(Nat \X Nat \X Reply)
         /\ \A x : In(AnswersOf(e), x)
                     <=> \E k \in DOMAIN journal[e] : HasAnswer(e, k) /\ x = Answered(e, k)
<1> DEFINE S == Nat \X Nat \X Reply
           part(k) == IF HasAnswer(e, k) THEN <<Answered(e, k)>> ELSE <<>>
           parts == [k \in DOMAIN journal[e] |-> part(k)]
<1>1. journal[e] \in Seq(Attempt) /\ DOMAIN journal[e] = 1 .. Len(journal[e])
      /\ Len(journal[e]) \in Nat /\ e \in Nat
  BY ScheduleAssumption DEF TypeOK, Ordinals
<1>2. ASSUME NEW k \in DOMAIN journal[e]
      PROVE  /\ part(k) \in Seq(S)
             /\ \A x : In(part(k), x) <=> HasAnswer(e, k) /\ x = Answered(e, k)
  <2>1. k \in Nat /\ journal[e][k] \in Attempt
    BY <1>1
  <2>2. HasAnswer(e, k) => Answered(e, k) \in S
    BY <2>1, <1>1 DEF HasAnswer, Answered, Attempt
  <2>3. CASE HasAnswer(e, k)
    <3>1. part(k) = <<Answered(e, k)>>
      BY <2>3
    <3> HIDE DEF part, S
    <3>2. Len(part(k)) = 1 /\ part(k)[1] = Answered(e, k) /\ part(k) \in Seq(S)
      BY <2>2, <2>3, <3>1
    <3>3. \A i : i \in 1 .. 1 <=> i = 1
      OBVIOUS
    <3> QED
      BY <2>3, <3>2, <3>3 DEF In
  <2>4. CASE ~HasAnswer(e, k)
    <3>1. part(k) = <<>>
      BY <2>4
    <3> HIDE DEF part, S
    <3>2. Len(part(k)) = 0 /\ part(k) \in Seq(S) /\ 1 .. 0 = {}
      BY <3>1
    <3> QED
      BY <2>4, <3>2 DEF In
  <2> QED
    BY <2>3, <2>4
<1> HIDE DEF part, S
<1>3. parts \in Seq(Seq(S)) /\ Len(parts) = Len(journal[e])
      /\ \A k \in DOMAIN journal[e] : parts[k] = part(k)
  BY <1>1, <1>2
<1>4. AnswersOf(e) = FlattenSeq(parts)
  BY DEF AnswersOf, part
<1> HIDE DEF parts
<1>5. /\ FlattenSeq(parts) \in Seq(S)
      /\ \A x : In(FlattenSeq(parts), x) <=> \E k \in DOMAIN journal[e] : In(parts[k], x)
  BY <1>1, <1>3, FlattenHolds
<1> QED
  BY <1>2, <1>3, <1>4, <1>5 DEF S

LEMMA InvocationsHold ==
  ASSUME Invariant
  PROVE  \A x : In(EvidenceTables(next).invocations, x)
                  <=> \E e \in Ordinals : e <= next /\ \E k \in DOMAIN journal[e] :
                        HasAnswer(e, k) /\ x = Answered(e, k)
<1> DEFINE S == Nat \X Nat \X Reply
           n == IF next = EventCount THEN next ELSE next + 1
           parts == [i \in 1 .. n |-> AnswersOf(i - 1)]
<1>1. TypeOK /\ next \in 0 .. EventCount /\ EventCount \in Nat /\ n \in Nat
  BY ScheduleAssumption DEF Invariant, TypeOK
<1>2. \A i \in 1 .. n : i - 1 \in Ordinals /\ i - 1 <= next
  BY <1>1 DEF Ordinals
<1>3. \A e \in Ordinals : e <= next => e + 1 \in 1 .. n /\ (e + 1) - 1 = e
  BY <1>1 DEF Ordinals
<1>4. EvidenceTables(next).invocations = FlattenSeq(parts)
  <2>1. DOMAIN Covered(next) = 1 .. n
    BY DEF Covered
  <2>2. EvidenceTables(next).invocations
          = FlattenSeq([i \in DOMAIN Covered(next) |-> AnswersOf(i - 1)])
    BY DEF EvidenceTables, Table, AnswersOf, HasAnswer
  <2> QED
    BY <2>1, <2>2
<1> HIDE DEF n
<1>5. \A i \in 1 .. n : AnswersOf(i - 1) \in Seq(S)
  BY <1>1, <1>2, AnswersOfEvent
<1> HIDE DEF S
<1>6. parts \in Seq(Seq(S)) /\ Len(parts) = n /\ \A i \in 1 .. n : parts[i] = AnswersOf(i - 1)
  BY <1>1, <1>5
<1> HIDE DEF parts
<1>7. \A x : In(FlattenSeq(parts), x) <=> \E i \in 1 .. n : In(parts[i], x)
  BY <1>6, FlattenHolds
<1>8. \A x : In(FlattenSeq(parts), x) <=> \E e \in Ordinals : e <= next /\ In(AnswersOf(e), x)
  <2>1. ASSUME NEW x, NEW i \in 1 .. n, In(parts[i], x)
        PROVE  \E e \in Ordinals : e <= next /\ In(AnswersOf(e), x)
    BY <2>1, <1>2, <1>6
  <2>2. ASSUME NEW x, NEW e \in Ordinals, e <= next, In(AnswersOf(e), x)
        PROVE  \E i \in 1 .. n : In(parts[i], x)
    BY <2>2, <1>3, <1>6
  <2> QED
    BY <1>7, <2>1, <2>2
<1> QED
  BY <1>1, <1>4, <1>8, AnswersOfEvent

(* Links of later events do not exist, so that the chain up to the current  *)
(* one is the whole chain.                                                  *)
LEMMA ChainToAll ==
  ASSUME Invariant
  PROVE  ChainTo(next) = chain
<1>0. chain \in Seq(Link) /\ Len(chain) \in Nat /\ ChainIsLinked /\ FailuresAreBound
  BY DEF Invariant, LifecycleReplays, TypeOK
<1>1. \A i \in 1 .. Len(chain) : chain[i].ordinal <= next
  <2>1. ASSUME NEW i \in 1 .. Len(chain), chain[i].kind = "failure"
        PROVE  chain[i].ordinal <= next
    BY <1>0, <2>1 DEF FailuresAreBound
  <2>2. ASSUME NEW i \in 1 .. Len(chain), chain[i].kind = "authorization"
        PROVE  chain[i].ordinal <= next
    <3>1. i > 1 /\ chain[i - 1].kind = "failure"
          /\ chain[i] = Authorization(chain[i - 1].ordinal, chain[i - 1].index)
      BY <1>0, <2>2, AuthorizedIsBound
    <3>2. i - 1 \in 1 .. Len(chain) /\ chain[i].ordinal = chain[i - 1].ordinal
      BY <3>1 DEF Authorization
    <3> QED
      BY <3>1, <3>2, <2>1
  <2>3. \A i \in 1 .. Len(chain) : chain[i].kind \in {"failure", "authorization"}
    <3>1. \A i \in 1 .. Len(chain) : chain[i] \in Link
      BY <1>0
    <3>2. \A link \in Link : link.kind \in {"failure", "authorization"}
      BY DEF Link
    <3> QED
      BY <3>1, <3>2
  <2> QED
    BY <2>1, <2>2, <2>3
<1>2. PICK f : UpTo(f, next, Len(chain)) /\ ChainTo(next) = f[Len(chain)]
  BY <1>0, ChainToIs
<1> DEFINE e(m) == IF m = 0 THEN <<>>
      ELSE IF chain[m].ordinal <= next THEN Append(f[m - 1], chain[m]) ELSE f[m - 1]
<1>3. f = [m \in 0 .. Len(chain) |-> e(m)]
  BY <1>2 DEF UpTo
<1> HIDE DEF e
<1>4. \A m \in 0 .. Len(chain) : f[m] = e(m)
  BY <1>3
<1> DEFINE T == {n \in Nat : n <= Len(chain) =>
                   f[n] \in Seq(Link) /\ Len(f[n]) = n /\ \A i \in 1 .. n : f[n][i] = chain[i]}
<1>5. 0 \in T
  <2>1. f[0] = <<>>
    <3>1. 0 \in 0 .. Len(chain)
      BY <1>0
    <3> QED
      BY <3>1, <1>4 DEF e
  <2>2. <<>> \in Seq(Link) /\ Len(<<>>) = 0 /\ 1 .. 0 = {}
    OBVIOUS
  <2>3. f[0] \in Seq(Link) /\ Len(f[0]) = 0 /\ \A i \in 1 .. 0 : f[0][i] = chain[i]
    BY <2>1, <2>2
  <2> QED
    BY <2>3
<1>6. ASSUME NEW n \in Nat, n \in T PROVE n + 1 \in T
  <2> SUFFICES ASSUME n + 1 <= Len(chain)
               PROVE  /\ f[n + 1] \in Seq(Link) /\ Len(f[n + 1]) = n + 1
                      /\ \A i \in 1 .. n + 1 : f[n + 1][i] = chain[i]
    OBVIOUS
  <2>1. n + 1 \in 1 .. Len(chain) /\ n + 1 \in 0 .. Len(chain) /\ n + 1 # 0 /\ (n + 1) - 1 = n
    BY <1>0
  <2>2. f[n] \in Seq(Link) /\ Len(f[n]) = n /\ \A i \in 1 .. n : f[n][i] = chain[i]
    BY <1>6, <1>0
  <2>3. f[n + 1] = Append(f[n], chain[n + 1]) /\ chain[n + 1] \in Link
    <3> HIDE DEF T
    <3>1. f[n + 1] = e(n + 1) /\ chain[n + 1].ordinal <= next
      BY <2>1, <1>1, <1>4
    <3>2. chain[n + 1] \in Link
      BY <2>1, <1>0
    <3> QED
      BY <3>1, <3>2, <2>1 DEF e
  <2> HIDE DEF T
  <2> QED
    BY <2>2, <2>3
<1> HIDE DEF T
<1>7. Len(chain) \in T
  BY <1>0, <1>5, <1>6, SetInduction
<1> QED
  BY <1>0, <1>2, <1>7 DEF T

(* What a checkpoint c says of every table of its store.                    *)
Tries(c, e) ==
  IF e > c.ordinal THEN 0 ELSE IF e = c.ordinal THEN Len(c.prefix) ELSE c.log[e + 1].attempts

StatusIn(c, e, k) ==
  IF e = c.ordinal THEN c.prefix[k].status
  ELSE IF k = Tries(c, e) THEN "succeeded" ELSE "failed"

ReplyIn(c, e, k) ==
  IF \E r \in Reply : In(c.tables.invocations, <<e, k, r>>)
  THEN CHOOSE r \in Reply : In(c.tables.invocations, <<e, k, r>>)
  ELSE NoReply

RowIn(c, e, k) ==
  [status |-> StatusIn(c, e, k), request |-> TRUE, reply |-> ReplyIn(c, e, k),
   parsed |-> StatusIn(c, e, k) \in Terminal]

EventsOf(c, a) == {e \in Ordinals : e < c.ordinal /\ Agent[e] = a}

LastEvent(S) == CHOOSE e : IsLastOf(e, S)

Decoded(c) ==
  <<TRUE,
    [a \in Agents |-> LastEvent(EventsOf(c, a))],
    [a \in Agents |-> LastEvent(EventsOf(c, a))],
    [a \in Agents |-> LastEvent({e \in EventsOf(c, a) : Publish[e]})],
    c.ordinal,
    0 .. c.ordinal - 1,
    {e \in Ordinals : e < c.ordinal /\ Publish[e]},
    [root |-> TRUE, log |-> c.log],
    [e \in Ordinals |-> [k \in 1 .. Tries(c, e) |-> RowIn(c, e, k)]],
    c.chain,
    c.execution>>

LEMMA LastEventIs ==
  ASSUME NEW S \in SUBSET Ordinals, NEW e, IsLastOf(e, S)
  PROVE  LastEvent(S) = e
<1> DEFINE d == LastEvent(S)
<1>1. IsLastOf(d, S)
  BY DEF LastEvent
<1> HIDE DEF d
<1>2. S \subseteq Int
  BY ScheduleAssumption DEF Ordinals
<1>3. d = e
  <2>1. CASE S = {}
    BY <2>1, <1>1 DEF IsLastOf
  <2>2. CASE S # {}
    <3>1. d \in S /\ e \in S /\ d <= e /\ e <= d
      BY <2>2, <1>1 DEF IsLastOf
    <3> QED
      BY <3>1, <1>2
  <2> QED
    BY <2>1, <2>2
<1> QED
  BY <1>3 DEF d

(* The reply of an attempt is in the invocations, or it has none.           *)
LEMMA ReplyIsStored ==
  ASSUME Invariant, AllFit, NEW e \in Ordinals, e <= next, NEW k \in DOMAIN journal[e]
  PROVE  ReplyIn(Snapshot, e, k) = journal[e][k].reply
<1> DEFINE t == EvidenceTables(next).invocations
           r == journal[e][k].reply
<1>1. Snapshot.tables.invocations = t
  BY DEF Snapshot, Projection
<1>2. \A x : In(t, x) <=> \E f \in Ordinals : f <= next /\ \E i \in DOMAIN journal[f] :
                            HasAnswer(f, i) /\ x = Answered(f, i)
  BY InvocationsHold
<1>3. journal[e][k] \in Attempt
  BY DEF Invariant, TypeOK
<1>4. r \in Reply \union {NoReply} /\ NoReply \notin Reply
  BY <1>3 DEF Attempt, Reply, NoReply
<1>5. journal[e][k].request
  BY DEF AllFit, EvidenceFits
<1> HIDE DEF t
<1>6. \A s \in Reply : In(t, <<e, k, s>>) <=> s = r
  <2>1. ASSUME NEW s \in Reply, In(t, <<e, k, s>>) PROVE s = r
    <3>1. PICK f \in Ordinals : \E i \in DOMAIN journal[f] : <<e, k, s>> = Answered(f, i)
      BY <2>1, <1>2
    <3> QED
      BY <3>1 DEF Answered
  <2>2. ASSUME r \in Reply PROVE In(t, <<e, k, r>>)
    <3>1. HasAnswer(e, k) /\ <<e, k, r>> = Answered(e, k)
      BY <2>2, <1>4, <1>5 DEF HasAnswer, Answered
    <3> QED
      BY <3>1, <1>2
  <2> QED
    BY <2>1, <2>2
<1> HIDE DEF r
<1>7. ReplyIn(Snapshot, e, k) = IF \E s \in Reply : s = r THEN CHOOSE s \in Reply : s = r ELSE NoReply
  <2>1. (CHOOSE s \in Reply : In(t, <<e, k, s>>)) = (CHOOSE s \in Reply : s = r)
    BY <1>6
  <2> QED
    BY <1>1, <1>6, <2>1 DEF ReplyIn
<1> QED
  BY <1>4, <1>7 DEF r

LEMMA JournalIsStored ==
  ASSUME Invariant, AllFit
  PROVE  journal = [e \in Ordinals |-> [k \in 1 .. Tries(Snapshot, e) |-> RowIn(Snapshot, e, k)]]
<1> DEFINE c == Snapshot
<1>0. /\ c.ordinal = next /\ c.prefix = AttemptPrefix(next) /\ c.log = SubSeq(head.log, 1, next)
      /\ next \in Nat /\ next <= EventCount /\ EventCount \in Nat
      /\ journal \in [Ordinals -> Seq(Attempt)] /\ head.log \in Seq(Entry) /\ Len(head.log) = next
      /\ \A i \in 1 .. next : head.log[i].attempts = Len(journal[i - 1])
  <2>1. c.ordinal = next /\ c.prefix = AttemptPrefix(next) /\ c.log = SubSeq(head.log, 1, next)
    BY DEF Snapshot, Projection
  <2>2. TypeOK /\ HeadReplays
    BY DEF Invariant, LifecycleReplays
  <2>3. next \in Nat /\ next <= EventCount /\ EventCount \in Nat
    BY <2>2, ScheduleAssumption DEF TypeOK
  <2>4. journal \in [Ordinals -> Seq(Attempt)] /\ head.log \in Seq(Entry)
    BY <2>2 DEF TypeOK
  <2>5. Len(head.log) = next
    BY <2>2 DEF HeadReplays
  <2>6. \A i \in 1 .. next : head.log[i].attempts = Len(journal[i - 1])
    <3> SUFFICES ASSUME NEW i \in 1 .. next PROVE head.log[i].attempts = Len(journal[i - 1])
      OBVIOUS
    <3>1. head.log[i] = [ordinal |-> i - 1, attempts |-> Len(journal[i - 1]), posted |-> Publish[i - 1]]
      BY <2>2 DEF HeadReplays
    <3> QED
      BY <3>1
  <2> HIDE DEF c
  <2> QED
    BY <2>1, <2>3, <2>4, <2>5, <2>6
<1>1. \A i \in 1 .. next : c.log[i].attempts = Len(journal[i - 1])
  BY <1>0
<1> HIDE DEF c
<1>2. AttemptsAreCovered
  BY DEF Invariant, LifecycleReplays
<1>3. ASSUME NEW e \in Ordinals
      PROVE  journal[e] = [k \in 1 .. Tries(c, e) |-> RowIn(c, e, k)]
  <2>0. e \in Int /\ journal[e] \in Seq(Attempt) /\ Len(journal[e]) \in Nat
        /\ DOMAIN journal[e] = 1 .. Len(journal[e])
    BY <1>0 DEF Ordinals
  <2>1. Tries(c, e) = Len(journal[e])
    <3>1. CASE e > next
      <4>1. journal[e] = <<>>
        BY <3>1, <1>2 DEF AttemptsAreCovered
      <4> QED
        BY <3>1, <4>1, <1>0 DEF Tries
    <3>2. CASE e = next
      BY <3>2, <1>0, PrefixIs DEF Tries
    <3>3. CASE e < next
      <4>1. e + 1 \in 1 .. next /\ (e + 1) - 1 = e
        BY <3>3, <1>0 DEF Ordinals
      <4>2. c.log[e + 1].attempts = Len(journal[e])
        BY <4>1, <1>1
      <4> QED
        BY <3>3, <4>2, <2>0, <1>0 DEF Tries
    <3> QED
      BY <3>1, <3>2, <3>3, <2>0, <1>0
  <2>2. ASSUME NEW k \in 1 .. Len(journal[e]) PROVE journal[e][k] = RowIn(c, e, k)
    <3>1. e <= next
      <4>1. e > next => Len(journal[e]) = 0
        BY <1>2 DEF AttemptsAreCovered
      <4> QED
        BY <4>1, <2>0, <1>0
    <3>2. journal[e][k] \in Attempt /\ k \in DOMAIN journal[e]
      BY <2>0
    <3>3. StatusIn(c, e, k) = journal[e][k].status
      <4>1. CASE e = next
        <5>1. c.prefix[k] = Shown(journal[e][k])
          BY <4>1, <3>2, <1>0, PrefixIs
        <5> QED
          BY <4>1, <5>1, <1>0 DEF StatusIn, Shown
      <4>2. CASE e < next
        <5>1. e # next
          BY <4>2, <1>0, <2>0
        <5>2. k = Len(journal[e]) => journal[e][k].status = "succeeded"
          BY <4>2, <1>2 DEF AttemptsAreCovered, LatestIs, Latest
        <5>3. k # Len(journal[e]) => journal[e][k].status = "failed"
          BY <2>0, <3>2, <1>2 DEF AttemptsAreCovered
        <5> QED
          BY <5>1, <5>2, <5>3, <2>1, <1>0 DEF StatusIn
      <4> QED
        BY <4>1, <4>2, <3>1, <2>0, <1>0
    <3>4. ReplyIn(c, e, k) = journal[e][k].reply
      BY <3>1, <3>2, ReplyIsStored DEF c
    <3>5. journal[e][k].request = TRUE /\ (journal[e][k].parsed <=> journal[e][k].status \in Terminal)
      BY <3>2 DEF AllFit, EvidenceFits, Attempt
    <3>6. journal[e][k].parsed = (journal[e][k].status \in Terminal)
      <4>1. journal[e][k].parsed \in BOOLEAN
        BY <3>2 DEF Attempt
      <4> QED
        BY <3>5, <4>1
    <3>7. journal[e][k] = [status |-> journal[e][k].status, request |-> journal[e][k].request,
                           reply |-> journal[e][k].reply, parsed |-> journal[e][k].parsed]
      BY <3>2 DEF Attempt
    <3> QED
      BY <3>3, <3>4, <3>5, <3>6, <3>7 DEF RowIn
  <2>3. journal[e] = [k \in 1 .. Len(journal[e]) |-> journal[e][k]]
    BY <2>0
  <2> QED
    BY <2>1, <2>2, <2>3
<1>4. journal = [e \in Ordinals |-> journal[e]]
  BY <1>0
<1> QED
  BY <1>3, <1>4 DEF c

LEMMA StoreIsDecoded ==
  ASSUME Invariant, AllFit, sealed
  PROVE  store = Decoded(Snapshot)
<1> DEFINE c == Snapshot
<1>0. /\ c.ordinal = next /\ c.log = SubSeq(head.log, 1, next) /\ c.chain = ChainTo(next)
      /\ c.execution = exec
  BY DEF Snapshot, Projection
<1>1. /\ next \in Nat /\ head \in [root : BOOLEAN, log : Seq(Entry)] /\ Len(head.log) = next
      /\ head.root = sealed /\ sealed \in BOOLEAN /\ events = 0 .. next - 1
      /\ posts = {e \in Ordinals : e < next /\ Publish[e]}
      /\ Rows(private) = Agents
      /\ private = [a \in Agents |-> private[a]] /\ cursor = [a \in Agents |-> cursor[a]]
      /\ pointer = [a \in Agents |-> pointer[a]]
      /\ \A a \in Rows(private) : /\ IsLastOf(private[a], CommittedBy(a)) /\ cursor[a] = private[a]
                                  /\ IsLastOf(pointer[a], {e \in CommittedBy(a) : Publish[e]})
  BY ScheduleAssumption
     DEF Invariant, TypeOK, LifecycleReplays, HeadReplays, RosterIsCovered, ProgressIsContiguous, StateReplays
<1> HIDE DEF c
<1>2. head = [root |-> TRUE, log |-> c.log]
  <2>1. SubSeq(head.log, 1, next) = head.log
    BY <1>1
  <2>2. head = [root |-> head.root, log |-> head.log] /\ head.root = TRUE
    BY <1>1
  <2> QED
    BY <1>0, <2>1, <2>2
<1>3. \A a : EventsOf(c, a) = CommittedBy(a)
  BY <1>0 DEF EventsOf, CommittedBy
<1>4. \A a \in Agents : /\ private[a] = LastEvent(EventsOf(c, a))
                        /\ cursor[a] = LastEvent(EventsOf(c, a))
                        /\ pointer[a] = LastEvent({e \in EventsOf(c, a) : Publish[e]})
  <2> SUFFICES ASSUME NEW a \in Agents
               PROVE  /\ private[a] = LastEvent(EventsOf(c, a))
                      /\ cursor[a] = private[a]
                      /\ pointer[a] = LastEvent({e \in EventsOf(c, a) : Publish[e]})
    OBVIOUS
  <2>1. CommittedBy(a) \in SUBSET Ordinals /\ {e \in CommittedBy(a) : Publish[e]} \in SUBSET Ordinals
    BY DEF CommittedBy
  <2>2. /\ IsLastOf(private[a], CommittedBy(a)) /\ cursor[a] = private[a]
        /\ IsLastOf(pointer[a], {e \in CommittedBy(a) : Publish[e]})
    BY <1>1
  <2> QED
    BY <2>1, <2>2, <1>3, LastEventIs
<1>5. private = [a \in Agents |-> LastEvent(EventsOf(c, a))]
  BY <1>1, <1>4
<1>6. cursor = [a \in Agents |-> LastEvent(EventsOf(c, a))]
  BY <1>1, <1>4
<1>7. pointer = [a \in Agents |-> LastEvent({e \in EventsOf(c, a) : Publish[e]})]
  BY <1>1, <1>4
<1>8. journal = [e \in Ordinals |-> [k \in 1 .. Tries(c, e) |-> RowIn(c, e, k)]]
  BY JournalIsStored DEF c
<1>9. chain = c.chain /\ sealed = TRUE
  BY <1>0, <1>1, ChainToAll
<1>10. events = 0 .. c.ordinal - 1 /\ posts = {e \in Ordinals : e < c.ordinal /\ Publish[e]}
  BY <1>0, <1>1
<1> QED
  BY <1>0, <1>2, <1>5, <1>6, <1>7, <1>8, <1>9, <1>10 DEF store, Decoded, c

-----------------------------------------------------------------------------
(* The store, also when a copy is put back *)

(* What a copy of the database holds is a store of its own.                 *)
Copied == INSTANCE RunStoreIntegrity WITH
  sealed <- copy[1][1], private <- copy[1][2], cursor <- copy[1][3], pointer <- copy[1][4],
  next <- copy[1][5], events <- copy[1][6], posts <- copy[1][7], head <- copy[1][8],
  journal <- copy[1][9], chain <- copy[1][10], exec <- copy[1][11]

CopySealedFirst == ~copy[1][1] => copy[1][5] = 0 /\ \A e \in Ordinals : copy[1][9][e] = <<>>
CopyFits == \A e \in Ordinals : \A k \in DOMAIN copy[1][9][e] : Copied!EvidenceFits(e, k)
CopyInv == copy # None =>
  Copied!TypeOK /\ CopySealedFirst /\ Copied!LifecycleReplays /\ CopyFits

CheckpointInv == Invariant /\ AllFit /\ CopyInv

(* A copy that was just made, and a store that was just put back.           *)
CopyIsStore ==
  /\ sealed = copy'[1][1] /\ private = copy'[1][2] /\ cursor = copy'[1][3] /\ pointer = copy'[1][4]
  /\ next = copy'[1][5] /\ events = copy'[1][6] /\ posts = copy'[1][7] /\ head = copy'[1][8]
  /\ journal = copy'[1][9] /\ chain = copy'[1][10] /\ exec = copy'[1][11]

StoreIsCopy ==
  /\ sealed' = copy[1][1] /\ private' = copy[1][2] /\ cursor' = copy[1][3] /\ pointer' = copy[1][4]
  /\ next' = copy[1][5] /\ events' = copy[1][6] /\ posts' = copy[1][7] /\ head' = copy[1][8]
  /\ journal' = copy[1][9] /\ chain' = copy[1][10] /\ exec' = copy[1][11]

LEMMA CopyTypes == CopyIsStore => (TypeOK <=> Copied!TypeOK')
BY DEF CopyIsStore, TypeOK, Copied!TypeOK, Copied!Ordinals, Ordinals, Round0, Copied!Round0, Absent,
   Copied!Absent,
   Entry, Copied!Entry, Attempt, Copied!Attempt, Status, Copied!Status, Reply, Copied!Reply, NoReply, Copied!NoReply,
   Link, Copied!Link, ExecutionState, Copied!ExecutionState, ExecStatus, Copied!ExecStatus

LEMMA CopyReplays == CopyIsStore => (LifecycleReplays <=> Copied!LifecycleReplays')
<1> SUFFICES ASSUME CopyIsStore PROVE LifecycleReplays <=> Copied!LifecycleReplays'
  OBVIOUS
<1>1. RosterIsCovered <=> Copied!RosterIsCovered'
  BY DEF CopyIsStore, RosterIsCovered, Copied!RosterIsCovered, Rows, Copied!Rows, Absent, Copied!Absent
<1>2. ProgressIsContiguous <=> Copied!ProgressIsContiguous'
  BY DEF CopyIsStore, ProgressIsContiguous, Copied!ProgressIsContiguous
<1>3. ChainIsLinked <=> Copied!ChainIsLinked'
  BY DEF CopyIsStore, ChainIsLinked, Copied!ChainIsLinked, Authorization, Copied!Authorization
<1>4. FailuresAreBound <=> Copied!FailuresAreBound'
  BY DEF CopyIsStore, FailuresAreBound, Copied!FailuresAreBound
<1>5. HaltIsCurrent <=> Copied!HaltIsCurrent'
  BY DEF CopyIsStore, HaltIsCurrent, Copied!HaltIsCurrent, Halted, Copied!Halted, LastLink,
     Copied!LastLink, Running, Copied!Running, LatestIs, Copied!LatestIs, Latest, Copied!Latest
<1>6. ExecutionReplays <=> Copied!ExecutionReplays'
  BY DEF CopyIsStore, ExecutionReplays, Copied!ExecutionReplays, DerivedExecution,
     Copied!DerivedExecution, CurrentStarted, Copied!CurrentStarted, Running, Copied!Running, Halted,
     Copied!Halted, LastLink, Copied!LastLink, Latest, Copied!Latest, Status, Copied!Status
<1>7. AttemptsAreCovered <=> Copied!AttemptsAreCovered'
  BY DEF CopyIsStore, AttemptsAreCovered, Copied!AttemptsAreCovered, Ordinals, Copied!Ordinals,
     LatestIs, Copied!LatestIs, Latest, Copied!Latest
<1>8. RetriesAreAuthorized <=> Copied!RetriesAreAuthorized'
  BY DEF CopyIsStore, RetriesAreAuthorized, Copied!RetriesAreAuthorized, Ordinals, Copied!Ordinals,
     Failure, Copied!Failure, Authorization, Copied!Authorization
<1>9. StateReplays <=> Copied!StateReplays'
  BY DEF CopyIsStore, StateReplays, Copied!StateReplays, Rows, Copied!Rows, Absent, Copied!Absent,
     Round0, Copied!Round0, IsLastOf, Copied!IsLastOf, CommittedBy, Copied!CommittedBy, Ordinals,
     Copied!Ordinals
<1>10. HeadReplays <=> Copied!HeadReplays'
  BY DEF CopyIsStore, HeadReplays, Copied!HeadReplays, Ordinals, Copied!Ordinals
<1> QED
  BY <1>1, <1>2, <1>3, <1>4, <1>5, <1>6, <1>7, <1>8, <1>9, <1>10 DEF LifecycleReplays,
     Copied!LifecycleReplays

LEMMA CopyFitsStore == CopyIsStore => (AllFit <=> CopyFits') /\ (SealedFirst <=> CopySealedFirst')
BY DEF CopyIsStore, AllFit, CopyFits, SealedFirst, CopySealedFirst, EvidenceFits, Copied!EvidenceFits,
   Bound, Copied!Bound, Failure, Copied!Failure, Outcome, Copied!Outcome, Terminal, Copied!Terminal, NoReply, Copied!NoReply

LEMMA StoreTypes == StoreIsCopy => (TypeOK' <=> Copied!TypeOK)
BY DEF StoreIsCopy, TypeOK, Copied!TypeOK, Copied!Ordinals, Ordinals, Round0, Copied!Round0, Absent,
   Copied!Absent,
   Entry, Copied!Entry, Attempt, Copied!Attempt, Status, Copied!Status, Reply, Copied!Reply, NoReply, Copied!NoReply,
   Link, Copied!Link, ExecutionState, Copied!ExecutionState, ExecStatus, Copied!ExecStatus

LEMMA StoreReplays == StoreIsCopy => (LifecycleReplays' <=> Copied!LifecycleReplays)
<1> SUFFICES ASSUME StoreIsCopy PROVE LifecycleReplays' <=> Copied!LifecycleReplays
  OBVIOUS
<1>1. RosterIsCovered' <=> Copied!RosterIsCovered
  BY DEF StoreIsCopy, RosterIsCovered, Copied!RosterIsCovered, Rows, Copied!Rows, Absent, Copied!Absent
<1>2. ProgressIsContiguous' <=> Copied!ProgressIsContiguous
  BY DEF StoreIsCopy, ProgressIsContiguous, Copied!ProgressIsContiguous
<1>3. ChainIsLinked' <=> Copied!ChainIsLinked
  BY DEF StoreIsCopy, ChainIsLinked, Copied!ChainIsLinked, Authorization, Copied!Authorization
<1>4. FailuresAreBound' <=> Copied!FailuresAreBound
  BY DEF StoreIsCopy, FailuresAreBound, Copied!FailuresAreBound
<1>5. HaltIsCurrent' <=> Copied!HaltIsCurrent
  BY DEF StoreIsCopy, HaltIsCurrent, Copied!HaltIsCurrent, Halted, Copied!Halted, LastLink,
     Copied!LastLink, Running, Copied!Running, LatestIs, Copied!LatestIs, Latest, Copied!Latest
<1>6. ExecutionReplays' <=> Copied!ExecutionReplays
  BY DEF StoreIsCopy, ExecutionReplays, Copied!ExecutionReplays, DerivedExecution,
     Copied!DerivedExecution, CurrentStarted, Copied!CurrentStarted, Running, Copied!Running, Halted,
     Copied!Halted, LastLink, Copied!LastLink, Latest, Copied!Latest, Status, Copied!Status
<1>7. AttemptsAreCovered' <=> Copied!AttemptsAreCovered
  BY DEF StoreIsCopy, AttemptsAreCovered, Copied!AttemptsAreCovered, Ordinals, Copied!Ordinals,
     LatestIs, Copied!LatestIs, Latest, Copied!Latest
<1>8. RetriesAreAuthorized' <=> Copied!RetriesAreAuthorized
  BY DEF StoreIsCopy, RetriesAreAuthorized, Copied!RetriesAreAuthorized, Ordinals, Copied!Ordinals,
     Failure, Copied!Failure, Authorization, Copied!Authorization
<1>9. StateReplays' <=> Copied!StateReplays
  BY DEF StoreIsCopy, StateReplays, Copied!StateReplays, Rows, Copied!Rows, Absent, Copied!Absent,
     Round0, Copied!Round0, IsLastOf, Copied!IsLastOf, CommittedBy, Copied!CommittedBy, Ordinals,
     Copied!Ordinals
<1>10. HeadReplays' <=> Copied!HeadReplays
  BY DEF StoreIsCopy, HeadReplays, Copied!HeadReplays, Ordinals, Copied!Ordinals
<1> QED
  BY <1>1, <1>2, <1>3, <1>4, <1>5, <1>6, <1>7, <1>8, <1>9, <1>10 DEF LifecycleReplays,
     Copied!LifecycleReplays

LEMMA StoreFitsCopy == StoreIsCopy => (AllFit' <=> CopyFits) /\ (SealedFirst' <=> CopySealedFirst)
BY DEF StoreIsCopy, AllFit, CopyFits, SealedFirst, CopySealedFirst, EvidenceFits, Copied!EvidenceFits,
   Bound, Copied!Bound, Failure, Copied!Failure, Outcome, Copied!Outcome, Terminal, Copied!Terminal, NoReply, Copied!NoReply

(* A step that leaves the copy alone.                                        *)
LEMMA CopyStays == CopyInv /\ copy' = copy => CopyInv'
<1> SUFFICES ASSUME CopyInv, copy' = copy PROVE CopyInv'
  OBVIOUS
<1>1. Copied!TypeOK' <=> Copied!TypeOK
  BY DEF Copied!TypeOK, Copied!Ordinals, Copied!Round0, Copied!Absent, Copied!Entry, Copied!Attempt,
     Copied!Status, Copied!Reply, Copied!NoReply, Copied!Link, Copied!ExecutionState, Copied!ExecStatus
<1>2. Copied!RosterIsCovered' <=> Copied!RosterIsCovered
  BY DEF Copied!RosterIsCovered, Copied!Rows
<1>3. Copied!ProgressIsContiguous' <=> Copied!ProgressIsContiguous
  BY DEF Copied!ProgressIsContiguous
<1>4. Copied!ChainIsLinked' <=> Copied!ChainIsLinked
  BY DEF Copied!ChainIsLinked, Copied!Authorization
<1>5. Copied!FailuresAreBound' <=> Copied!FailuresAreBound
  BY DEF Copied!FailuresAreBound
<1>6. Copied!HaltIsCurrent' <=> Copied!HaltIsCurrent
  BY DEF Copied!HaltIsCurrent, Copied!Halted, Copied!LastLink, Copied!Running, Copied!LatestIs,
     Copied!Latest
<1>7. Copied!ExecutionReplays' <=> Copied!ExecutionReplays
  BY DEF Copied!ExecutionReplays, Copied!DerivedExecution, Copied!CurrentStarted, Copied!Running,
     Copied!Halted, Copied!LastLink, Copied!Latest, Copied!Status
<1>8. Copied!AttemptsAreCovered' <=> Copied!AttemptsAreCovered
  BY DEF Copied!AttemptsAreCovered, Copied!Ordinals, Copied!LatestIs, Copied!Latest
<1>9. Copied!RetriesAreAuthorized' <=> Copied!RetriesAreAuthorized
  BY DEF Copied!RetriesAreAuthorized, Copied!Ordinals, Copied!Failure, Copied!Authorization
<1>10. Copied!StateReplays' <=> Copied!StateReplays
  BY DEF Copied!StateReplays, Copied!Rows, Copied!Absent, Copied!Round0, Copied!IsLastOf,
     Copied!CommittedBy, Copied!Ordinals
<1>11. Copied!HeadReplays' <=> Copied!HeadReplays
  BY DEF Copied!HeadReplays, Copied!Ordinals
<1>12. CopyFits' <=> CopyFits
  BY DEF CopyFits, Copied!EvidenceFits, Copied!Bound
<1>13. CopySealedFirst' <=> CopySealedFirst
  BY DEF CopySealedFirst
<1>14. Copied!LifecycleReplays' <=> Copied!LifecycleReplays
  BY <1>2, <1>3, <1>4, <1>5, <1>6, <1>7, <1>8, <1>9, <1>10, <1>11 DEF Copied!LifecycleReplays
<1> QED
  BY <1>1, <1>12, <1>13, <1>14 DEF CopyInv

-----------------------------------------------------------------------------
(* The theorems *)

LEMMA StoreStep ==
  ASSUME LegacyCallers = FALSE, Invariant, AllFit, [Next]_vars
  PROVE  Invariant' /\ AllFit'
<1>1. TypeOK'
  BY TypeKept DEF Invariant
<1>2. Invariant'
  BY <1>1, StepInvariant
<1>3. AllFit'
  BY <1>1, StaysExactCover DEF Invariant, LifecycleReplays
<1> QED
  BY <1>2, <1>3

LEMMA CheckpointStep ==
  ASSUME LegacyCallers = FALSE, CheckpointInv, [CheckpointNext]_checkpointVars
  PROVE  CheckpointInv'
<1>0. Invariant /\ AllFit /\ CopyInv
  BY DEF CheckpointInv
<1>1. CASE Write
  <2>1. Invariant' /\ AllFit' /\ copy' = copy
    BY <1>1, <1>0, StoreStep DEF Write
  <2>2. CopyInv'
    BY <2>1, <1>0, CopyStays
  <2> QED
    BY <2>1, <2>2 DEF CheckpointInv
<1>2. CASE SaveCheckpoint \/ UNCHANGED checkpointVars
  <2>1. UNCHANGED <<store, copy>>
    BY <1>2 DEF SaveCheckpoint, checkpointVars
  <2>2. UNCHANGED vars /\ copy' = copy
    BY <2>1 DEF store, vars, agentVars, progressVars
  <2>3. Invariant' /\ AllFit'
    BY <2>2, <1>0, StoreStep
  <2>4. CopyInv'
    BY <2>2, <1>0, CopyStays
  <2> QED
    BY <2>3, <2>4 DEF CheckpointInv
<1>3. CASE CopyDatabase
  <2>1. UNCHANGED <<store>> /\ copy' = <<store, past>>
    BY <1>3 DEF CopyDatabase
  <2>2. UNCHANGED vars
    BY <2>1 DEF store, vars, agentVars, progressVars
  <2>3. Invariant' /\ AllFit'
    BY <2>2, <1>0, StoreStep
  <2>4. CopyIsStore
    BY <2>1 DEF store, CopyIsStore
  <2>5. CopyInv'
    BY <2>4, <1>0, CopyTypes, CopyReplays, CopyFitsStore DEF CopyInv, Invariant
  <2> QED
    BY <2>3, <2>5 DEF CheckpointInv
<1>4. CASE RestoreDatabase
  <2>1. copy # None /\ copy' = None /\ StoreIsCopy
    BY <1>4 DEF RestoreDatabase, StoreIsCopy
  <2>2. Copied!TypeOK /\ CopySealedFirst /\ Copied!LifecycleReplays /\ CopyFits
    BY <2>1, <1>0 DEF CopyInv
  <2>3. Invariant' /\ AllFit'
    BY <2>1, <2>2, StoreTypes, StoreReplays, StoreFitsCopy DEF Invariant
  <2>4. CopyInv'
    BY <2>1 DEF CopyInv
  <2> QED
    BY <2>3, <2>4 DEF CheckpointInv
<1> QED
  BY <1>1, <1>2, <1>3, <1>4 DEF CheckpointNext

LEMMA CheckpointInvCorrect ==
  ASSUME LegacyCallers = FALSE
  PROVE  CheckpointSpec => []CheckpointInv
<1>1. CheckpointInit => CheckpointInv
  <2>1. Init => Invariant
    BY InitType, InitInvariant DEF Invariant
  <2>2. Init => AllFit
    BY DEF Init, AllFit
  <2> QED
    BY <2>1, <2>2 DEF CheckpointInit, CheckpointInv, CopyInv
<1>2. CheckpointInv /\ [CheckpointNext]_checkpointVars => CheckpointInv'
  BY CheckpointStep
<1> QED
  BY <1>1, <1>2, PTL DEF CheckpointSpec

(* build_checkpoint succeeds on every sealed store, after any crash, retry  *)
(* or restored copy: the projection of the store and those of its past pass *)
(* Checkpoint.from_payload.                                                 *)
THEOREM CheckpointableCorrect ==
  ASSUME LegacyCallers = FALSE
  PROVE  CheckpointSpec => []AlwaysCheckpointable
<1>1. CheckpointInv => AlwaysCheckpointable
  BY SnapshotIsWellFormed, HistoryIsWellFormed DEF CheckpointInv, AlwaysCheckpointable
<1> QED
  BY <1>1, CheckpointInvCorrect, PTL

(* The action a checkpoint recommends to who resumes the run is the one     *)
(* that current_event_journal() would.                                      *)
THEOREM ResumeActionCorrect ==
  ASSUME LegacyCallers = FALSE
  PROVE  CheckpointSpec => []ResumeActionAgrees
<1>1. CheckpointInv => ResumeActionAgrees
  BY ResumeAgrees DEF CheckpointInv, ResumeActionAgrees
<1> QED
  BY <1>1, CheckpointInvCorrect, PTL

-----------------------------------------------------------------------------
(* What a current checkpoint says of the store *)

(* The checkpoint file determines the store it was taken of.                *)
FileInv ==
  /\ file # None => sealed /\ taken = Decoded(file)
  /\ copy # None => copy[1][1] = TRUE

LEMMA FileStep ==
  ASSUME CheckpointInv, FileInv, [CheckpointNext]_checkpointVars
  PROVE  FileInv'
<1>1. CASE Write
  <2>1. sealed => sealed'
    BY <1>1 DEF Write, Next, InitializeAgent, SealInitialState, RecordPreparedAttempt,
       AppendPendingAttempt, StartAttempt, AppendTerminalAttempt, RecordInvocationEvidence,
       RecordFinalizedAttempt, RecordTerminalFailure, AuthorizeResume, CommitSuccess
  <2>2. UNCHANGED <<file, taken, copy>>
    BY <1>1 DEF Write
  <2> QED
    BY <2>1, <2>2 DEF FileInv, Decoded
<1>2. CASE SaveCheckpoint
  <2>1. sealed /\ file' = Snapshot /\ taken' = store /\ UNCHANGED <<sealed, copy>>
    BY <1>2 DEF SaveCheckpoint, store
  <2>2. store = Decoded(Snapshot)
    BY <2>1, StoreIsDecoded DEF CheckpointInv
  <2>3. taken' = Decoded(file')
    BY <2>1, <2>2
  <2> QED
    BY <2>1, <2>3 DEF FileInv
<1>3. CASE CopyDatabase
  <2>1. file' = file /\ taken' = taken /\ sealed' = sealed /\ sealed /\ copy' = <<store, past>>
    BY <1>3 DEF CopyDatabase, store
  <2>2. copy'[1][1] = TRUE
    BY <2>1 DEF store, CheckpointInv, Invariant, TypeOK
  <2> QED
    BY <2>1, <2>2 DEF FileInv
<1>4. CASE RestoreDatabase
  BY <1>4 DEF RestoreDatabase, FileInv
<1>5. CASE UNCHANGED checkpointVars
  BY <1>5 DEF checkpointVars, store, FileInv
<1> QED
  BY <1>1, <1>2, <1>3, <1>4, <1>5 DEF CheckpointNext

(* A checkpoint that validates as current is resumed from the very rows it  *)
(* was written of, although it holds only a projection of them, and even if *)
(* the database file was put back or the run went on in between.            *)
THEOREM CurrentIsUnchanged ==
  ASSUME LegacyCallers = FALSE
  PROVE  CheckpointSpec => []CurrentMeansUnchanged
<1>1. CheckpointInit => FileInv
  BY DEF CheckpointInit, FileInv
<1>2. CheckpointInv /\ FileInv => CurrentMeansUnchanged
  <2> SUFFICES ASSUME CheckpointInv, FileInv, file # None, Verdict(file) = "current"
               PROVE  store = taken
    BY DEF CurrentMeansUnchanged
  <2>1. file = Snapshot
    BY DEF Verdict
  <2> QED
    BY <2>1, StoreIsDecoded DEF CheckpointInv, FileInv
<1>3. CheckpointInv /\ FileInv /\ [CheckpointNext]_checkpointVars => FileInv'
  BY FileStep
<1> QED
  BY <1>1, <1>2, <1>3, CheckpointInvCorrect, PTL DEF CheckpointSpec
=============================================================================
