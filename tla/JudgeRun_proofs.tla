--------------------------- MODULE JudgeRun_proofs ---------------------------
(***************************************************************************)
(* Proofs about judge runs: for any number of processes, items, attempts   *)
(* and deaths, the archive is one log that its replay accepts, the         *)
(* runners never send a request twice nor out of order, the evidence of an *)
(* attempt is of one kind, and the archive can be opened.                  *)
(*                                                                         *)
(* The invariant says what the archive holds while a transaction is under  *)
(* way (Holds), what the log and its projection have to do with each other *)
(* (LegalLog), and what a runner may rely on at each of its steps.         *)
(*                                                                         *)
(* Then of what follows the judges, the review and its gates (Review), for *)
(* every specification and policy: a topic is proposed on full evidence    *)
(* only.                                                                   *)
(***************************************************************************)
EXTENDS JudgeRun, Review, FiniteSetTheorems, SequenceTheorems, WellFoundedInduction, TLAPS

-----------------------------------------------------------------------------
(* Replay                                                                    *)

LEMMA SetInduction ==
  ASSUME NEW T, 0 \in T, \A n \in Nat : n \in T => n + 1 \in T
  PROVE  Nat \subseteq T
<1> SUFFICES ASSUME Nat \ T # {} PROVE FALSE
  OBVIOUS
<1> DEFINE R == {ss \in Nat \X Nat : ss[1] < ss[2]}
<1>0. IsWellFoundedOn(R, Nat)
  BY NatLessThanWellFounded DEF OpToRel
<1>1. \E x \in Nat \ T : \A y \in Nat \ T : <<y, x>> \notin R
  BY <1>0, WFMin
<1>2. PICK x \in Nat \ T : \A y \in Nat \ T : ~(y < x)
  BY <1>1
<1>3. x # 0 /\ x - 1 \in Nat /\ x - 1 < x /\ (x - 1) + 1 = x
  BY <1>2
<1> QED
  BY <1>2, <1>3

(* f is the function upTo of Replay, for the first n records.                *)
Unfolds(f, log, n) ==
  f = [k \in 0 .. n |-> IF k = 0 THEN Empty ELSE After(f[k - 1], log[k])]

IsDefined(log, n) == \E f : \A g : Unfolds(g, log, n) <=> g = f

LEMMA Shorter ==
  ASSUME NEW g, NEW log, NEW longer, NEW n \in Nat, Unfolds(g, longer, n + 1),
         \A k \in 1 .. n : longer[k] = log[k]
  PROVE  /\ Unfolds([k \in 0 .. n |-> g[k]], log, n)
         /\ g[n + 1] = After(g[n], longer[n + 1])
<1> DEFINE s == [k \in 0 .. n |-> g[k]]
<1>0. g = [k \in 0 .. n + 1 |-> IF k = 0 THEN Empty ELSE After(g[k - 1], longer[k])]
  BY DEF Unfolds
<1>1. ASSUME NEW k \in 0 .. n
      PROVE  s[k] = IF k = 0 THEN Empty ELSE After(s[k - 1], log[k])
  <2>1. g[k] = IF k = 0 THEN Empty ELSE After(g[k - 1], longer[k])
    BY <1>0
  <2>2. k # 0 => s[k - 1] = g[k - 1] /\ longer[k] = log[k]
    OBVIOUS
  <2> QED
    BY <2>1, <2>2
<1>2. s = [k \in 0 .. n |-> s[k]]
  OBVIOUS
<1>3. g[n + 1] = After(g[n], longer[n + 1])
  BY <1>0
<1> HIDE DEF s
<1>4. Unfolds(s, log, n)
  BY <1>1, <1>2 DEF Unfolds
<1> QED
  BY <1>3, <1>4 DEF s

LEMMA Longer ==
  ASSUME NEW log, NEW n \in Nat, IsDefined(log, n)
  PROVE  IsDefined(log, n + 1)
<1> PICK f : \A g : Unfolds(g, log, n) <=> g = f
  BY DEF IsDefined
<1> DEFINE h == [k \in 0 .. n + 1 |-> IF k = n + 1 THEN After(f[n], log[n + 1]) ELSE f[k]]
<1>0. f = [k \in 0 .. n |-> IF k = 0 THEN Empty ELSE After(f[k - 1], log[k])]
  BY DEF Unfolds
<1>1. Unfolds(h, log, n + 1)
  <2>1. ASSUME NEW k \in 0 .. n + 1
        PROVE  h[k] = IF k = 0 THEN Empty ELSE After(h[k - 1], log[k])
    <3>1. CASE k = n + 1
      BY <3>1
    <3>2. CASE k # n + 1
      <4>1. k \in 0 .. n /\ h[k] = f[k]
        BY <3>2
      <4>2. k # 0 => k - 1 \in 0 .. n /\ h[k - 1] = f[k - 1]
        BY <4>1
      <4> QED
        BY <1>0, <4>1, <4>2
    <3> QED
      BY <3>1, <3>2
  <2>2. h = [k \in 0 .. n + 1 |-> h[k]]
    OBVIOUS
  <2> HIDE DEF h
  <2> QED
    BY <2>1, <2>2 DEF Unfolds
<1>2. ASSUME NEW g, Unfolds(g, log, n + 1) PROVE g = h
  <2> DEFINE s == [k \in 0 .. n |-> g[k]]
  <2>1. Unfolds(s, log, n) /\ g[n + 1] = After(g[n], log[n + 1])
    BY <1>2, Shorter, SMTT(30)
  <2>2. s = f
    BY <2>1
  <2>3. \A k \in 0 .. n : g[k] = f[k]
    BY <2>2
  <2>4. \A k \in 0 .. n + 1 : g[k] = h[k]
    BY <2>1, <2>3
  <2>5. g = [k \in 0 .. n + 1 |-> g[k]] /\ h = [k \in 0 .. n + 1 |-> h[k]]
    BY <1>2 DEF Unfolds
  <2> HIDE DEF h
  <2> QED
    BY <2>4, <2>5
<1> HIDE DEF h
<1> QED
  BY <1>1, <1>2 DEF IsDefined

LEMMA Unique == \A log : \A n \in Nat : IsDefined(log, n)
<1> SUFFICES ASSUME NEW log PROVE \A n \in Nat : IsDefined(log, n)
  OBVIOUS
<1> DEFINE T == {n \in Nat : IsDefined(log, n)}
<1>1. 0 \in T
  <2> DEFINE f == [k \in 0 .. 0 |-> Empty]
  <2>1. ASSUME NEW g PROVE Unfolds(g, log, 0) <=> g = f
    <3>1. [k \in 0 .. 0 |-> IF k = 0 THEN Empty ELSE After(g[k - 1], log[k])] = f
      OBVIOUS
    <3> HIDE DEF f
    <3> QED
      BY <3>1 DEF Unfolds
  <2> HIDE DEF f
  <2> QED
    BY <2>1 DEF IsDefined
<1>2. \A n \in Nat : n \in T => n + 1 \in T
  BY Longer
<1> HIDE DEF T
<1>3. Nat \subseteq T
  BY <1>1, <1>2, SetInduction
<1> QED
  BY <1>3 DEF T

LEMMA ReplayIs ==
  ASSUME NEW log, Len(log) \in Nat
  PROVE  \E f : Unfolds(f, log, Len(log)) /\ Replay(log) = f[Len(log)]
<1> DEFINE f == CHOOSE g : Unfolds(g, log, Len(log))
<1>1. Unfolds(f, log, Len(log))
  BY Unique DEF IsDefined
<1>2. Replay(log) = f[Len(log)]
  BY DEF Replay, Unfolds
<1> QED
  BY <1>1, <1>2

(* The replay of a log, record by record.                                    *)
LEMMA ReplayEmpty == Replay(<<>>) = Empty
<1>1. PICK f : Unfolds(f, <<>>, 0) /\ Replay(<<>>) = f[0]
  BY ReplayIs
<1> QED
  BY <1>1 DEF Unfolds

LEMMA ReplayAppend ==
  ASSUME NEW S, NEW log \in Seq(S), NEW r \in S
  PROVE  Replay(Append(log, r)) = After(Replay(log), r)
<1> DEFINE n == Len(log)
           longer == Append(log, r)
<1>0. n \in Nat /\ Len(longer) = n + 1 /\ longer[n + 1] = r
      /\ \A k \in 1 .. n : longer[k] = log[k]
  OBVIOUS
<1> HIDE DEF n, longer
<1>1. PICK f : Unfolds(f, log, n) /\ Replay(log) = f[n]
  BY <1>0, ReplayIs DEF n
<1>2. PICK g : Unfolds(g, longer, n + 1) /\ Replay(longer) = g[n + 1]
  BY <1>0, ReplayIs
<1>3. Unfolds([k \in 0 .. n |-> g[k]], log, n) /\ g[n + 1] = After(g[n], r)
  BY <1>0, <1>2, Shorter
<1>4. [k \in 0 .. n |-> g[k]] = f
  <2>1. IsDefined(log, n)
    BY <1>0, Unique
  <2>2. PICK h : \A e : Unfolds(e, log, n) <=> e = h
    BY <2>1 DEF IsDefined
  <2> QED
    BY <2>2, <1>1, <1>3
<1>5. g[n] = f[n]
  BY <1>0, <1>4
<1> QED
  BY <1>1, <1>2, <1>3, <1>5 DEF longer

-----------------------------------------------------------------------------
(* Projections                                                               *)

Value == Result \union Outcome \union {"none"}

ItemState ==
  [status : {"dispatch_unresolved", "recovered_response", "pending_retry"} \union Final,
   count : 1 .. MaxAttempts, unresolved : BOOLEAN,
   lane : {"none", "audit", "recovered", "response", "negative", "marker", "ambiguous"},
   bytes : Value, completed : BOOLEAN, error : Value]

GoodItem(state) ==
  /\ state \in ItemState
  /\ state.unresolved <=> state.status \in {"dispatch_unresolved", "recovered_response"}

(* The projection of a log the replay accepts.                               *)
GoodProjection(projection) ==
  /\ projection = [lifecycle |-> projection.lifecycle, items |-> projection.items]
  /\ projection.lifecycle \in Nat
  /\ projection.items \in Seq(ItemState) /\ Len(projection.items) <= ItemCount
  /\ \A i \in DOMAIN projection.items : GoodItem(projection.items[i])

(* The item before i is there, and coded.                                    *)
CodedBefore(projection, i) ==
  i > 1 => i - 1 \in DOMAIN projection.items /\ projection.items[i - 1].status = "coded"

(* The state of an item when an attempt at it begins.                        *)
Begun(attempt) ==
  [status |-> "dispatch_unresolved", count |-> attempt, unresolved |-> TRUE,
   lane |-> "none", bytes |-> "none", completed |-> FALSE, error |-> "none"]

LifecycleStep(old, new, r) ==
  /\ r.kind \in {"preflight", "start"}
  /\ new = [lifecycle |-> old.lifecycle + 1, items |-> old.items]

BeginStep(old, new, r) ==
  /\ r.kind = "intent" /\ r.attempt = 1
  /\ r.item = Len(old.items) + 1 /\ r.item \in Item
  /\ new = [lifecycle |-> old.lifecycle, items |-> Append(old.items, Begun(1))]

RetryStep(old, new, r) ==
  /\ r.kind = "intent"
  /\ r.item \in DOMAIN old.items /\ old.items[r.item].status = "pending_retry"
  /\ r.attempt = old.items[r.item].count + 1 /\ r.attempt <= MaxAttempts
  /\ new = [lifecycle |-> old.lifecycle, items |-> [old.items EXCEPT ![r.item] = Begun(r.attempt)]]

EvidenceStep(old, new, r) ==
  /\ r.kind \notin {"preflight", "start", "intent"}
  /\ r.item \in DOMAIN old.items
  /\ old.items[r.item].unresolved /\ r.attempt = old.items[r.item].count
  /\ AcceptsEvidence(old.items[r.item], r)
  /\ new = [lifecycle |-> old.lifecycle,
            items |-> [old.items EXCEPT ![r.item] = ItemAfter(old.items[r.item], r)]]

LEMMA IntentBegins ==
  ASSUME NEW state, NEW r, r.kind = "intent"
  PROVE  ItemAfter(state, r) = Begun(r.attempt)
BY DEF ItemAfter, NewItem, Begun

(* The four ways in which an accepted record changes a projection.           *)
LEMMA StepShapes ==
  ASSUME NEW projection, GoodProjection(projection), NEW r \in Record, Accepts(projection, r)
  PROVE  LET new == After(projection, r) IN
           \/ LifecycleStep(projection, new, r)
           \/ BeginStep(projection, new, r)
           \/ RetryStep(projection, new, r)
           \/ EvidenceStep(projection, new, r)
<1> DEFINE new == After(projection, r)
           items == projection.items
<1>0. /\ projection = [lifecycle |-> projection.lifecycle, items |-> items]
      /\ items \in Seq(ItemState) /\ DOMAIN items = 1 .. Len(items) /\ Len(items) \in Nat
  BY DEF GoodProjection
<1>1. CASE r.kind \in {"preflight", "start"}
  <2>1. new = [projection EXCEPT !.lifecycle = @ + 1]
    BY <1>1 DEF After
  <2>2. new = [lifecycle |-> projection.lifecycle + 1, items |-> items]
    BY <2>1, <1>0
  <2> QED
    BY <2>2, <1>1 DEF LifecycleStep
<1>2. CASE r.kind = "intent"
  <2>0. AcceptsIntent(projection, r)
    BY <1>2 DEF Accepts, AcceptsEvidence
  <2>1. CASE r.item = Len(items) + 1
    <3>1. new = [projection EXCEPT !.items = Append(@, ItemAfter(NewItem, r))]
      BY <1>2, <2>1 DEF After
    <3>a. ItemAfter(NewItem, r) = Begun(r.attempt)
      BY <1>2, IntentBegins
    <3>b. new = [projection EXCEPT !.items = Append(items, Begun(r.attempt))]
      BY <3>1, <3>a
    <3>2. new = [lifecycle |-> projection.lifecycle, items |-> Append(items, Begun(r.attempt))]
      BY <3>b, <1>0
    <3>3. r.item \in Item /\ r.attempt = 1
      BY <2>0, <2>1, <1>0 DEF AcceptsIntent
    <3> QED
      BY <3>2, <3>3, <1>2, <2>1 DEF BeginStep
  <2>2. CASE r.item # Len(items) + 1
    <3>1. /\ r.item \in DOMAIN items /\ items[r.item].status = "pending_retry"
          /\ r.attempt = items[r.item].count + 1 /\ r.attempt <= MaxAttempts
      BY <2>0, <2>2 DEF AcceptsIntent
    <3>2. new = [projection EXCEPT !.items[r.item] = ItemAfter(@, r)]
      BY <1>2, <2>2 DEF After
    <3>3. new = [lifecycle |-> projection.lifecycle,
                 items |-> [items EXCEPT ![r.item] = Begun(r.attempt)]]
      BY <3>2, <1>0, <1>2, IntentBegins
    <3> QED
      BY <3>1, <3>3, <1>2 DEF RetryStep
  <2> QED
    BY <2>1, <2>2
<1>3. CASE r.kind \notin {"preflight", "start", "intent"}
  <2>1. Covers(projection, r) /\ AcceptsEvidence(items[r.item], r)
    BY <1>3 DEF Accepts
  <2>2. r.item \in DOMAIN items /\ items[r.item].unresolved /\ r.attempt = items[r.item].count
    BY <2>1 DEF Covers
  <2>3. r.item # Len(items) + 1
    BY <2>2, <1>0
  <2>4. new = [projection EXCEPT !.items[r.item] = ItemAfter(@, r)]
    BY <1>3, <2>3 DEF After
  <2>5. new = [lifecycle |-> projection.lifecycle,
               items |-> [items EXCEPT ![r.item] = ItemAfter(items[r.item], r)]]
    BY <2>4, <1>0
  <2> QED
    BY <2>1, <2>2, <2>5, <1>3 DEF EvidenceStep
<1> QED
  BY <1>1, <1>2, <1>3

LEMMA BegunIsGood ==
  ASSUME NEW attempt \in 1 .. MaxAttempts
  PROVE  GoodItem(Begun(attempt))
BY DEF GoodItem, Begun, ItemState, Value

(* What evidence does to the item it is of.                                  *)
LEMMA EvidenceKeepsItem ==
  ASSUME NEW state, GoodItem(state), state.unresolved, NEW r \in Record, AcceptsEvidence(state, r)
  PROVE  /\ GoodItem(ItemAfter(state, r))
         /\ ItemAfter(state, r).count = state.count
<1> DEFINE after == ItemAfter(state, r)
<1>0. /\ state \in ItemState /\ r.value \in Value
      /\ state.status \in {"dispatch_unresolved", "recovered_response"}
  BY DEF GoodItem, Record, Value
<1>1. CASE r.kind \in {"audit", "response"}
  <2>1. after = [state EXCEPT !.lane = r.kind, !.bytes = r.value]
    BY <1>1 DEF ItemAfter
  <2> QED
    BY <2>1, <1>0, <1>1 DEF GoodItem, ItemState
<1>2. CASE r.kind \in {"negative", "marker"}
  <2>1. after = [state EXCEPT !.lane = r.kind]
    BY <1>2 DEF ItemAfter
  <2> QED
    BY <2>1, <1>0, <1>2 DEF GoodItem, ItemState
<1>3. CASE r.kind = "recovered"
  <2>1. after = [state EXCEPT !.lane = "recovered", !.status = "recovered_response"]
    BY <1>3 DEF ItemAfter
  <2> QED
    BY <2>1, <1>0, <1>3 DEF GoodItem, ItemState
<1>4. CASE r.kind = "ambiguous"
  <2>1. after = [state EXCEPT !.lane = "ambiguous", !.status = "ambiguous_incomplete", !.unresolved = FALSE]
    BY <1>4 DEF ItemAfter
  <2> QED
    BY <2>1, <1>0, <1>4 DEF GoodItem, ItemState, Final
<1>5. CASE r.kind = "attempt"
  <2>1. after = [state EXCEPT !.completed = TRUE]
    BY <1>5 DEF ItemAfter
  <2> QED
    BY <2>1, <1>0, <1>5 DEF GoodItem, ItemState
<1>6. CASE r.kind = "resolution"
  <2>1. r.value \in Outcome
    BY <1>6 DEF AcceptsEvidence, OutcomeOf, Outcome
  <2>2. after = [state EXCEPT !.unresolved = FALSE,
                   !.status = IF r.value = "retryable_failed" THEN "pending_retry" ELSE r.value,
                   !.error = IF r.value = "coded" THEN "none" ELSE state.bytes]
    BY <1>6 DEF ItemAfter, Resolved
  <2>3. (IF r.value = "coded" THEN "none" ELSE state.bytes) \in Value
    BY <1>0 DEF ItemState, Value
  <2> QED
    BY <2>1, <2>2, <2>3, <1>0 DEF GoodItem, ItemState, Final, Outcome
<1> QED
  BY <1>1, <1>2, <1>3, <1>4, <1>5, <1>6 DEF AcceptsEvidence

LEMMA KeepsGood ==
  ASSUME NEW projection, GoodProjection(projection), NEW r \in Record, Accepts(projection, r)
  PROVE  GoodProjection(After(projection, r))
<1> DEFINE new == After(projection, r)
           items == projection.items
<1>0. /\ items \in Seq(ItemState) /\ DOMAIN items = 1 .. Len(items) /\ Len(items) \in Nat
      /\ \A i \in DOMAIN items : items[i] \in ItemState /\ GoodItem(items[i])
      /\ projection.lifecycle \in Nat /\ Len(items) <= ItemCount
      /\ ItemCount \in Nat \ {0} /\ MaxAttempts \in Nat \ {0}
  BY ManifestAssumption DEF GoodProjection
<1> SUFFICES ASSUME \/ LifecycleStep(projection, new, r)
                    \/ BeginStep(projection, new, r)
                    \/ RetryStep(projection, new, r)
                    \/ EvidenceStep(projection, new, r)
             PROVE  GoodProjection(new)
  BY StepShapes
<1> HIDE DEF new
<1>1. CASE LifecycleStep(projection, new, r)
  <2>1. new = [lifecycle |-> projection.lifecycle + 1, items |-> items]
    BY <1>1 DEF LifecycleStep
  <2> QED
    BY <2>1, <1>0, SMTT(30) DEF GoodProjection
<1>2. CASE BeginStep(projection, new, r)
  <2>1. GoodItem(Begun(1)) /\ Begun(1) \in ItemState
    BY <1>0, BegunIsGood DEF GoodItem
  <2>2. new = [lifecycle |-> projection.lifecycle, items |-> Append(items, Begun(1))]
        /\ Len(items) + 1 <= ItemCount
    BY <1>2, <1>0 DEF BeginStep, Item
  <2>3. /\ new.items \in Seq(ItemState) /\ Len(new.items) = Len(items) + 1
        /\ \A i \in DOMAIN new.items : GoodItem(new.items[i])
    BY <2>1, <2>2, <1>0
  <2> QED
    BY <2>2, <2>3, <1>0 DEF GoodProjection
<1>3. CASE RetryStep(projection, new, r)
  <2>1. r.attempt \in 1 .. MaxAttempts
    BY <1>3, <1>0 DEF RetryStep, ItemState
  <2>2. GoodItem(Begun(r.attempt)) /\ Begun(r.attempt) \in ItemState
    BY <2>1, BegunIsGood DEF GoodItem
  <2>3. new = [lifecycle |-> projection.lifecycle, items |-> [items EXCEPT ![r.item] = Begun(r.attempt)]]
        /\ r.item \in DOMAIN items
    BY <1>3 DEF RetryStep
  <2>4. /\ new.items \in Seq(ItemState) /\ Len(new.items) = Len(items)
        /\ \A i \in DOMAIN new.items : GoodItem(new.items[i])
    BY <2>2, <2>3, <1>0, SMTT(30)
  <2> QED
    BY <2>3, <2>4, <1>0 DEF GoodProjection
<1>4. CASE EvidenceStep(projection, new, r)
  <2>1. GoodItem(ItemAfter(items[r.item], r)) /\ ItemAfter(items[r.item], r) \in ItemState
    BY <1>4, <1>0, EvidenceKeepsItem DEF EvidenceStep, GoodItem
  <2>2. new = [lifecycle |-> projection.lifecycle,
               items |-> [items EXCEPT ![r.item] = ItemAfter(items[r.item], r)]]
        /\ r.item \in DOMAIN items
    BY <1>4 DEF EvidenceStep
  <2>3. /\ new.items \in Seq(ItemState) /\ Len(new.items) = Len(items)
        /\ \A i \in DOMAIN new.items : GoodItem(new.items[i])
    BY <2>1, <2>2, <1>0, SMTT(30)
  <2> QED
    BY <2>2, <2>3, <1>0 DEF GoodProjection
<1> QED
  BY <1>1, <1>2, <1>3, <1>4

(* A coded item stays coded.                                                 *)
LEMMA CodedStays ==
  ASSUME NEW projection, GoodProjection(projection), NEW r \in Record, Accepts(projection, r),
         NEW i \in Int, CodedBefore(projection, i)
  PROVE  CodedBefore(After(projection, r), i)
<1> DEFINE new == After(projection, r)
           items == projection.items
<1>0. /\ items \in Seq(ItemState) /\ DOMAIN items = 1 .. Len(items) /\ Len(items) \in Nat
      /\ \A j \in DOMAIN items : GoodItem(items[j])
  BY DEF GoodProjection
<1> SUFFICES ASSUME \/ LifecycleStep(projection, new, r)
                    \/ BeginStep(projection, new, r)
                    \/ RetryStep(projection, new, r)
                    \/ EvidenceStep(projection, new, r),
                    i > 1
             PROVE  i - 1 \in DOMAIN new.items /\ new.items[i - 1].status = "coded"
  BY StepShapes DEF CodedBefore
<1>a. i - 1 \in DOMAIN items /\ items[i - 1].status = "coded" /\ ~items[i - 1].unresolved
  BY <1>0 DEF CodedBefore, GoodItem
<1> HIDE DEF new
<1>1. CASE LifecycleStep(projection, new, r)
  BY <1>1, <1>a DEF LifecycleStep
<1>2. CASE BeginStep(projection, new, r)
  <2>1. new.items = Append(items, Begun(1))
    BY <1>2 DEF BeginStep
  <2> QED
    BY <2>1, <1>0, <1>a
<1>3. CASE RetryStep(projection, new, r)
  <2>1. new.items = [items EXCEPT ![r.item] = Begun(r.attempt)] /\ r.item # i - 1
    BY <1>3, <1>a DEF RetryStep
  <2> QED
    BY <2>1, <1>0, <1>a
<1>4. CASE EvidenceStep(projection, new, r)
  <2>1. new.items = [items EXCEPT ![r.item] = ItemAfter(items[r.item], r)] /\ r.item # i - 1
    BY <1>4, <1>a DEF EvidenceStep
  <2> QED
    BY <2>1, <1>0, <1>a
<1> QED
  BY <1>1, <1>2, <1>3, <1>4

-----------------------------------------------------------------------------
(* Evidence                                                                  *)

Recs(log) == {log[n] : n \in DOMAIN log}

(* Evidence of what became of an attempt.                                    *)
LaneKinds == {"audit", "recovered", "response", "negative", "marker", "ambiguous"}

Beside(records, kind, item, attempt) ==
  {s \in records : s.kind = kind /\ s.item = item /\ s.attempt = attempt}

(* The lane of the attempt an item is at says what evidence there is of it.  *)
LaneAgrees(records, i, state) ==
  LET OfKind(kind) == Beside(records, kind, i, state.count) IN
  /\ state.lane = "none" => \A kind \in LaneKinds : OfKind(kind) = {}
  /\ state.lane = "audit" => \A kind \in LaneKinds \ {"audit"} : OfKind(kind) = {}
  /\ state.lane = "recovered" =>
       /\ \A kind \in LaneKinds \ {"audit", "recovered"} : OfKind(kind) = {}
       /\ OfKind("recovered") # {}
  /\ state.lane = "response" =>
       /\ OfKind("negative") \union OfKind("marker") \union OfKind("ambiguous") = {}
       /\ OfKind("audit") # {} => OfKind("recovered") # {}
       /\ \A s \in OfKind("response") : s.value = state.bytes
  /\ state.lane \in {"negative", "marker", "ambiguous"} => OfKind("response") = {}
  /\ state.lane \in {"audit", "recovered", "response"} =>
       \A s \in OfKind("audit") : s.value = state.bytes

LanesAgree(records, items) == \A i \in DOMAIN items : LaneAgrees(records, i, items[i])

(* No evidence of an attempt that has not begun.                             *)
EvidenceIsPast(records, items) ==
  \A s \in records : s.kind \in LaneKinds =>
    s.item \in DOMAIN items /\ s.attempt <= items[s.item].count

ResponsesAgree(records) ==
  \A r \in records : r.kind = "response" =>
    /\ \A kind \in {"negative", "marker", "ambiguous"} : Beside(records, kind, r.item, r.attempt) = {}
    /\ \A s \in Beside(records, "audit", r.item, r.attempt) :
         s.value = r.value /\ Beside(records, "recovered", r.item, r.attempt) # {}

EvidenceFits(records, items) ==
  /\ EvidenceIsPast(records, items)
  /\ LanesAgree(records, items)
  /\ ResponsesAgree(records)

(* A record that is no evidence of the attempt leaves its lane alone.        *)
LEMMA LaneStays ==
  ASSUME NEW records, NEW r, NEW i, NEW state, LaneAgrees(records, i, state),
         r.kind \notin LaneKinds \/ r.item # i
  PROVE  LaneAgrees(records \union {r}, i, state)
<1>1. \A kind \in LaneKinds :
        Beside(records \union {r}, kind, i, state.count) = Beside(records, kind, i, state.count)
  BY DEF Beside
<1> QED
  BY <1>1 DEF LaneAgrees, LaneKinds

LEMMA ResponsesStay ==
  ASSUME NEW records, NEW r, ResponsesAgree(records), r.kind \notin LaneKinds
  PROVE  ResponsesAgree(records \union {r})
<1>1. \A kind \in LaneKinds : \A i, k :
        Beside(records \union {r}, kind, i, k) = Beside(records, kind, i, k)
  BY DEF Beside
<1> SUFFICES ASSUME NEW t \in records, t.kind = "response"
    PROVE  /\ \A kind \in {"negative", "marker", "ambiguous"} :
                Beside(records \union {r}, kind, t.item, t.attempt) = {}
           /\ \A s \in Beside(records \union {r}, "audit", t.item, t.attempt) :
                s.value = t.value /\ Beside(records \union {r}, "recovered", t.item, t.attempt) # {}
  BY DEF ResponsesAgree, LaneKinds
<1>2. \A kind \in {"negative", "marker", "ambiguous", "audit", "recovered"} :
        Beside(records \union {r}, kind, t.item, t.attempt) = Beside(records, kind, t.item, t.attempt)
  BY <1>1 DEF LaneKinds
<1> QED
  BY <1>2 DEF ResponsesAgree

(* There is no evidence of an attempt that begins.                           *)
LEMMA BegunAgrees ==
  ASSUME NEW records, NEW i, NEW attempt,
         \A s \in records : s.kind \in LaneKinds => s.item # i \/ s.attempt # attempt
  PROVE  LaneAgrees(records, i, Begun(attempt))
<1>1. \A kind \in LaneKinds : Beside(records, kind, i, attempt) = {}
  BY DEF Beside
<1> QED
  BY <1>1 DEF LaneAgrees, Begun

(* Evidence the replay accepts agrees with what is there of the attempt.     *)
LEMMA EvidenceAgreesWithLane ==
  ASSUME NEW records, NEW i, NEW state \in ItemState, LaneAgrees(records, i, state),
         NEW r, r.item = i, r.attempt = state.count, AcceptsEvidence(state, r)
  PROVE  LaneAgrees(records \union {r}, i, ItemAfter(state, r))
<1> DEFINE after == ItemAfter(state, r)
           Old(kind) == Beside(records, kind, i, state.count)
           New(kind) == Beside(records \union {r}, kind, i, state.count)
<1>a. \A kind : kind # r.kind => New(kind) = Old(kind)
  BY DEF Beside
<1>b. New(r.kind) = Old(r.kind) \union {r}
  BY DEF Beside
<1>c. /\ state.lane = "none" => \A kind \in LaneKinds : Old(kind) = {}
      /\ state.lane = "audit" => \A kind \in LaneKinds \ {"audit"} : Old(kind) = {}
      /\ state.lane = "recovered" =>
           /\ \A kind \in LaneKinds \ {"audit", "recovered"} : Old(kind) = {}
           /\ Old("recovered") # {}
      /\ state.lane = "response" =>
           /\ Old("negative") = {} /\ Old("marker") = {} /\ Old("ambiguous") = {}
           /\ Old("audit") # {} => Old("recovered") # {}
           /\ \A s \in Old("response") : s.value = state.bytes
      /\ state.lane \in {"negative", "marker", "ambiguous"} => Old("response") = {}
      /\ state.lane \in {"audit", "recovered", "response"} =>
           \A s \in Old("audit") : s.value = state.bytes
  BY DEF LaneAgrees
<1>d. SUFFICES
      /\ after.count = state.count
      /\ after.lane = "none" => \A kind \in LaneKinds : New(kind) = {}
      /\ after.lane = "audit" => \A kind \in LaneKinds \ {"audit"} : New(kind) = {}
      /\ after.lane = "recovered" =>
           /\ \A kind \in LaneKinds \ {"audit", "recovered"} : New(kind) = {}
           /\ New("recovered") # {}
      /\ after.lane = "response" =>
           /\ New("negative") = {} /\ New("marker") = {} /\ New("ambiguous") = {}
           /\ New("audit") # {} => New("recovered") # {}
           /\ \A s \in New("response") : s.value = after.bytes
      /\ after.lane \in {"negative", "marker", "ambiguous"} => New("response") = {}
      /\ after.lane \in {"audit", "recovered", "response"} =>
           \A s \in New("audit") : s.value = after.bytes
  BY DEF LaneAgrees
<1> HIDE DEF Old, New, after
<1>1. CASE r.kind = "audit"
  <2>1. after = [state EXCEPT !.lane = "audit", !.bytes = r.value] /\ state.lane = "none"
    BY <1>1 DEF ItemAfter, AcceptsEvidence, after
  <2>2. after.lane = "audit" /\ after.bytes = r.value /\ after.count = state.count
    BY <2>1 DEF ItemState
  <2> QED
    BY <2>1, <2>2, <1>a, <1>b, <1>c, <1>1 DEF LaneKinds
<1>2. CASE r.kind = "response"
  <2>1. /\ after = [state EXCEPT !.lane = "response", !.bytes = r.value]
        /\ state.lane = "none" \/ (state.lane = "recovered" /\ state.bytes = r.value)
    BY <1>2 DEF ItemAfter, AcceptsEvidence, after
  <2>2. after.lane = "response" /\ after.bytes = r.value /\ after.count = state.count
    BY <2>1 DEF ItemState
  <2> QED
    BY <2>1, <2>2, <1>a, <1>b, <1>c, <1>2 DEF LaneKinds
<1>3. CASE r.kind \in {"negative", "marker"}
  <2>1. after = [state EXCEPT !.lane = r.kind] /\ state.lane = "none"
    BY <1>3 DEF ItemAfter, AcceptsEvidence, after
  <2>2. after.lane = r.kind /\ after.count = state.count
    BY <2>1 DEF ItemState
  <2> QED
    BY <2>1, <2>2, <1>a, <1>b, <1>c, <1>3 DEF LaneKinds
<1>4. CASE r.kind = "recovered"
  <2>1. after = [state EXCEPT !.lane = "recovered", !.status = "recovered_response"]
        /\ state.lane = "audit"
    BY <1>4 DEF ItemAfter, AcceptsEvidence, after
  <2>2. after.lane = "recovered" /\ after.bytes = state.bytes /\ after.count = state.count
    BY <2>1 DEF ItemState
  <2> QED
    BY <2>1, <2>2, <1>a, <1>b, <1>c, <1>4 DEF LaneKinds
<1>5. CASE r.kind = "ambiguous"
  <2>1. after = [state EXCEPT !.lane = "ambiguous", !.status = "ambiguous_incomplete", !.unresolved = FALSE]
        /\ state.lane \in {"none", "marker"}
    BY <1>5 DEF ItemAfter, AcceptsEvidence, after
  <2>2. after.lane = "ambiguous" /\ after.count = state.count
    BY <2>1 DEF ItemState
  <2> QED
    BY <2>1, <2>2, <1>a, <1>b, <1>c, <1>5 DEF LaneKinds
<1>6. CASE r.kind \in {"attempt", "resolution"}
  <2>1. /\ after.lane = state.lane /\ after.bytes = state.bytes /\ after.count = state.count
    BY <1>6 DEF ItemAfter, Resolved, ItemState, after
  <2>2. \A kind \in LaneKinds : New(kind) = Old(kind)
    BY <1>a, <1>6 DEF LaneKinds
  <2> QED
    BY <2>1, <2>2, <1>c DEF LaneKinds
<1> QED
  BY <1>1, <1>2, <1>3, <1>4, <1>5, <1>6 DEF AcceptsEvidence

LEMMA EvidenceAgreesWithResponses ==
  ASSUME NEW records, NEW state, NEW r, ResponsesAgree(records),
         LaneAgrees(records, r.item, state), r.attempt = state.count, AcceptsEvidence(state, r)
  PROVE  ResponsesAgree(records \union {r})
<1> DEFINE OfKind(kind) == Beside(records, kind, r.item, r.attempt)
<1>c. /\ state.lane = "none" => \A kind \in LaneKinds : OfKind(kind) = {}
      /\ state.lane = "audit" => \A kind \in LaneKinds \ {"audit"} : OfKind(kind) = {}
      /\ state.lane = "recovered" =>
           /\ \A kind \in LaneKinds \ {"audit", "recovered"} : OfKind(kind) = {}
           /\ OfKind("recovered") # {}
           /\ \A s \in OfKind("audit") : s.value = state.bytes
      /\ state.lane = "marker" => OfKind("response") = {}
  BY DEF LaneAgrees
<1> SUFFICES ASSUME NEW t \in records \union {r}, t.kind = "response"
    PROVE  /\ \A kind \in {"negative", "marker", "ambiguous"} :
                Beside(records \union {r}, kind, t.item, t.attempt) = {}
           /\ \A s \in Beside(records \union {r}, "audit", t.item, t.attempt) :
                s.value = t.value /\ Beside(records \union {r}, "recovered", t.item, t.attempt) # {}
  BY DEF ResponsesAgree
<1>1. CASE t.item = r.item /\ t.attempt = r.attempt /\ t \in records /\ t # r
  <2>1. t \in OfKind("response")
    BY <1>1 DEF Beside
  <2>2. r.kind \notin {"audit", "negative", "marker", "ambiguous"}
    BY <2>1, <1>c DEF AcceptsEvidence, LaneKinds
  <2>3. \A kind \in {"negative", "marker", "ambiguous", "audit"} :
          Beside(records \union {r}, kind, t.item, t.attempt) = Beside(records, kind, t.item, t.attempt)
    BY <2>2 DEF Beside
  <2>4. Beside(records, "recovered", t.item, t.attempt) \subseteq Beside(records \union {r}, "recovered", t.item, t.attempt)
    BY DEF Beside
  <2> QED
    BY <1>1, <2>3, <2>4 DEF ResponsesAgree
<1>2. CASE t = r
  <2>1. state.lane = "none" \/ (state.lane = "recovered" /\ state.bytes = r.value)
    BY <1>2 DEF AcceptsEvidence
  <2>2. \A kind \in {"negative", "marker", "ambiguous", "audit", "recovered"} :
          Beside(records \union {r}, kind, t.item, t.attempt) = OfKind(kind)
    BY <1>2 DEF Beside
  <2> HIDE DEF OfKind
  <2> QED
    BY <1>2, <2>1, <2>2, <1>c DEF LaneKinds
<1>3. CASE t \in records /\ ~(t.item = r.item /\ t.attempt = r.attempt)
  <2>1. \A kind : Beside(records \union {r}, kind, t.item, t.attempt) = Beside(records, kind, t.item, t.attempt)
    BY <1>3 DEF Beside
  <2> QED
    BY <2>1, <1>3 DEF ResponsesAgree
<1> QED
  BY <1>1, <1>2, <1>3

LEMMA KeepsEvidence ==
  ASSUME NEW projection, GoodProjection(projection), NEW r \in Record, Accepts(projection, r),
         NEW records \in SUBSET Record, EvidenceFits(records, projection.items)
  PROVE  EvidenceFits(records \union {r}, After(projection, r).items)
<1> DEFINE new == After(projection, r)
           items == projection.items
<1>0. /\ items \in Seq(ItemState) /\ DOMAIN items = 1 .. Len(items) /\ Len(items) \in Nat
      /\ \A i \in DOMAIN items : items[i] \in ItemState /\ items[i].count \in 1 .. MaxAttempts
      /\ MaxAttempts \in Nat
      /\ \A s \in records : s.attempt \in 0 .. MaxAttempts
      /\ EvidenceIsPast(records, items) /\ LanesAgree(records, items) /\ ResponsesAgree(records)
  BY ManifestAssumption DEF GoodProjection, GoodItem, ItemState, EvidenceFits, Record
<1> SUFFICES ASSUME \/ LifecycleStep(projection, new, r)
                    \/ BeginStep(projection, new, r)
                    \/ RetryStep(projection, new, r)
                    \/ EvidenceStep(projection, new, r)
             PROVE  EvidenceFits(records \union {r}, new.items)
  BY StepShapes
<1> HIDE DEF new
<1>1. CASE LifecycleStep(projection, new, r)
  <2>1. new.items = items /\ r.kind \notin LaneKinds
    BY <1>1 DEF LifecycleStep, LaneKinds
  <2>2. EvidenceIsPast(records \union {r}, items)
    BY <2>1, <1>0 DEF EvidenceIsPast
  <2>3. LanesAgree(records \union {r}, items)
    BY <2>1, <1>0, LaneStays DEF LanesAgree
  <2> QED
    BY <2>1, <2>2, <2>3, <1>0, ResponsesStay DEF EvidenceFits
<1>2. CASE BeginStep(projection, new, r)
  <2>1. /\ new.items = Append(items, Begun(1)) /\ r.item = Len(items) + 1
        /\ r.kind \notin LaneKinds
    BY <1>2 DEF BeginStep, LaneKinds
  <2>2. /\ DOMAIN new.items = DOMAIN items \union {r.item} /\ new.items[r.item] = Begun(1)
        /\ \A i \in DOMAIN items : new.items[i] = items[i] /\ i # r.item
    BY <2>1, <1>0
  <2>3. EvidenceIsPast(records \union {r}, new.items)
    BY <2>1, <2>2, <1>0 DEF EvidenceIsPast
  <2>4. LaneAgrees(records \union {r}, r.item, Begun(1))
    <3>1. \A s \in records : s.kind \in LaneKinds => s.item # r.item
      BY <2>2, <1>0 DEF EvidenceIsPast
    <3> QED
      BY <3>1, <2>1, BegunAgrees
  <2>5. LanesAgree(records \union {r}, new.items)
    BY <2>1, <2>2, <2>4, <1>0, LaneStays DEF LanesAgree
  <2> QED
    BY <2>1, <2>3, <2>5, <1>0, ResponsesStay DEF EvidenceFits
<1>3. CASE RetryStep(projection, new, r)
  <2>1. /\ new.items = [items EXCEPT ![r.item] = Begun(r.attempt)] /\ r.item \in DOMAIN items
        /\ r.kind \notin LaneKinds /\ r.attempt = items[r.item].count + 1
    BY <1>3 DEF RetryStep, LaneKinds
  <2>2. /\ DOMAIN new.items = DOMAIN items /\ new.items[r.item] = Begun(r.attempt)
        /\ \A i \in DOMAIN items \ {r.item} : new.items[i] = items[i]
        /\ Begun(r.attempt).count = r.attempt
    BY <2>1, <1>0 DEF Begun
  <2>3. EvidenceIsPast(records \union {r}, new.items)
    <3> SUFFICES ASSUME NEW s \in records, s.kind \in LaneKinds
                 PROVE  s.item \in DOMAIN items /\ s.attempt <= new.items[s.item].count
      BY <2>1, <2>2 DEF EvidenceIsPast
    <3>1. s.item \in DOMAIN items /\ s.attempt <= items[s.item].count
          /\ s.attempt \in Nat /\ items[s.item].count \in Nat
      BY <1>0 DEF EvidenceIsPast
    <3> QED
      BY <3>1, <2>1, <2>2, <1>0
  <2>4. LaneAgrees(records \union {r}, r.item, Begun(r.attempt))
    <3>1. \A s \in records : s.kind \in LaneKinds => s.item # r.item \/ s.attempt # r.attempt
      BY <2>1, <1>0 DEF EvidenceIsPast
    <3> QED
      BY <3>1, <2>1, BegunAgrees
  <2>5. LanesAgree(records \union {r}, new.items)
    BY <2>1, <2>2, <2>4, <1>0, LaneStays DEF LanesAgree
  <2> QED
    BY <2>1, <2>3, <2>5, <1>0, ResponsesStay DEF EvidenceFits
<1>4. CASE EvidenceStep(projection, new, r)
  <2> DEFINE state == items[r.item]
  <2>1. /\ new.items = [items EXCEPT ![r.item] = ItemAfter(state, r)] /\ r.item \in DOMAIN items
        /\ state.unresolved /\ r.attempt = state.count /\ AcceptsEvidence(state, r)
    BY <1>4 DEF EvidenceStep
  <2>2. /\ DOMAIN new.items = DOMAIN items /\ new.items[r.item] = ItemAfter(state, r)
        /\ \A i \in DOMAIN items \ {r.item} : new.items[i] = items[i]
    BY <2>1, <1>0
  <2>3. GoodItem(state) /\ LaneAgrees(records, r.item, state) /\ state \in ItemState
    BY <2>1, <1>0 DEF GoodProjection, LanesAgree
  <2> HIDE DEF state
  <2>4. ItemAfter(state, r).count = state.count
    BY <2>1, <2>3, EvidenceKeepsItem
  <2>5. EvidenceIsPast(records \union {r}, new.items)
    <3>1. \A i \in DOMAIN items : new.items[i].count = items[i].count
      BY <2>2, <2>4 DEF state
    <3>2. r.attempt <= new.items[r.item].count
      BY <2>1, <2>2, <2>4, <1>0 DEF state
    <3> QED
      BY <3>1, <3>2, <2>1, <2>2, <1>0 DEF EvidenceIsPast
  <2>6. LaneAgrees(records \union {r}, r.item, new.items[r.item])
    BY <2>1, <2>2, <2>3, EvidenceAgreesWithLane
  <2>7. LanesAgree(records \union {r}, new.items)
    BY <2>2, <2>6, <1>0, LaneStays DEF LanesAgree
  <2>8. ResponsesAgree(records \union {r})
    BY <2>1, <2>3, <1>0, EvidenceAgreesWithResponses
  <2> QED
    BY <2>5, <2>7, <2>8 DEF EvidenceFits
<1> QED
  BY <1>1, <1>2, <1>3, <1>4

-----------------------------------------------------------------------------
(* Logs                                                                      *)

GoodLog(log) ==
  /\ GoodProjection(Replay(log))
  /\ EvidenceFits(Recs(log), Replay(log).items)
  /\ \A i \in DOMAIN Replay(log).items : CodedBefore(Replay(log), i)

(* All but the last record: the log while the last one is being written.     *)
Before(log) == SubSeq(log, 1, Len(log) - 1)

LegalLog(log) ==
  /\ log \in Seq(Record) /\ IsInjective(log)
  /\ GoodLog(log)
  /\ log # <<>> => GoodLog(Before(log)) /\ Accepts(Replay(Before(log)), log[Len(log)])

LEMMA LegalIsSequence ==
  ASSUME NEW log, LegalLog(log)
  PROVE  /\ log \in Seq(Record) /\ Len(log) \in Nat /\ DOMAIN log = 1 .. Len(log)
         /\ \A n \in 1 .. Len(log) : log[n] \in Record
         /\ Recs(log) \subseteq Record
         /\ \A m, n \in 1 .. Len(log) : log[m] = log[n] => m = n
BY DEF LegalLog, Recs, IsInjective

LEMMA EmptyIsLegal == LegalLog(<<>>)
<1>1. <<>> \in Seq(Record) /\ DOMAIN <<>> = {} /\ IsInjective(<<>>) /\ Recs(<<>>) = {}
  BY DEF IsInjective, Recs
<1>2. /\ Empty = [lifecycle |-> 0, items |-> <<>>]
      /\ Empty.items = <<>> /\ <<>> \in Seq(ItemState) /\ Len(<<>>) = 0
  BY DEF Empty
<1>3. GoodProjection(Empty)
  BY <1>1, <1>2, ManifestAssumption DEF GoodProjection
<1>4. EvidenceFits({}, <<>>)
  BY <1>1 DEF EvidenceFits, EvidenceIsPast, LanesAgree, ResponsesAgree
<1>5. GoodLog(<<>>)
  BY <1>1, <1>2, <1>3, <1>4, ReplayEmpty DEF GoodLog
<1> QED
  BY <1>1, <1>5 DEF LegalLog

(* An accepted record makes a legal log of a legal log, and what is coded    *)
(* stays coded.                                                              *)
LEMMA LogGrows ==
  ASSUME NEW log, LegalLog(log), NEW r \in Record, r \notin Recs(log), Accepts(Replay(log), r),
         r.kind = "intent" => CodedBefore(Replay(log), r.item)
  PROVE  /\ LegalLog(Append(log, r))
         /\ Before(Append(log, r)) = log
         /\ \A i \in Int : CodedBefore(Replay(log), i) => CodedBefore(Replay(Append(log, r)), i)
<1> DEFINE longer == Append(log, r)
           old == Replay(log)
           new == Replay(longer)
<1>0. /\ log \in Seq(Record) /\ Len(log) \in Nat /\ DOMAIN log = 1 .. Len(log)
      /\ Recs(log) \subseteq Record /\ \A m, n \in 1 .. Len(log) : log[m] = log[n] => m = n
      /\ GoodProjection(old) /\ EvidenceFits(Recs(log), old.items)
      /\ \A i \in DOMAIN old.items : CodedBefore(old, i)
  BY LegalIsSequence DEF LegalLog, GoodLog
<1>1. /\ longer \in Seq(Record) /\ Len(longer) = Len(log) + 1 /\ longer # <<>>
      /\ longer[Len(longer)] = r /\ \A n \in 1 .. Len(log) : longer[n] = log[n]
  BY <1>0
<1>2. Before(longer) = log
  BY <1>0, <1>1 DEF Before
<1>3. Recs(longer) = Recs(log) \union {r}
  BY <1>0, <1>1 DEF Recs
<1>4. IsInjective(longer)
  <2>1. \A n \in 1 .. Len(log) : log[n] # r
    BY <1>0 DEF Recs
  <2>2. DOMAIN longer = 1 .. Len(log) + 1
    BY <1>1
  <2> HIDE DEF longer
  <2> QED
    BY <2>1, <2>2, <1>0, <1>1 DEF IsInjective
<1>5. new = After(old, r)
  BY <1>0, ReplayAppend
<1> HIDE DEF old, new, longer
<1>6. GoodProjection(new)
  BY <1>0, <1>5, KeepsGood DEF old
<1>7. EvidenceFits(Recs(longer), new.items)
  <2>1. GoodProjection(old) /\ Accepts(old, r) /\ Recs(log) \in SUBSET Record
    BY <1>0 DEF old
  <2>2. EvidenceFits(Recs(log) \union {r}, After(old, r).items)
    BY <2>1, <1>0, KeepsEvidence
  <2> QED
    BY <2>2, <1>3, <1>5
<1>8. \A i \in Int : CodedBefore(old, i) => CodedBefore(new, i)
  BY <1>0, <1>5, CodedStays DEF old
<1>9. \A i \in DOMAIN new.items : CodedBefore(new, i)
  <2>0. old.items \in Seq(ItemState) /\ DOMAIN old.items \subseteq Int
    BY <1>0 DEF GoodProjection
  <2>1. \A i \in DOMAIN old.items : CodedBefore(new, i)
    BY <2>0, <1>0, <1>8
  <2>2. \/ DOMAIN new.items = DOMAIN old.items
        \/ r.kind = "intent" /\ DOMAIN new.items = DOMAIN old.items \union {r.item}
    <3>1. \/ LifecycleStep(old, new, r) \/ BeginStep(old, new, r)
          \/ RetryStep(old, new, r) \/ EvidenceStep(old, new, r)
      BY <1>0, <1>5, StepShapes DEF old
    <3>2. LifecycleStep(old, new, r) => DOMAIN new.items = DOMAIN old.items
      BY DEF LifecycleStep
    <3>3. BeginStep(old, new, r) => r.kind = "intent" /\ DOMAIN new.items = DOMAIN old.items \union {r.item}
      <4> SUFFICES ASSUME BeginStep(old, new, r)
                   PROVE  r.kind = "intent" /\ DOMAIN new.items = DOMAIN old.items \union {r.item}
        OBVIOUS
      <4>1. r.kind = "intent" /\ r.item = Len(old.items) + 1 /\ new.items = Append(old.items, Begun(1))
        BY DEF BeginStep
      <4> QED
        BY <4>1, <2>0
    <3>4. RetryStep(old, new, r) \/ EvidenceStep(old, new, r) => DOMAIN new.items = DOMAIN old.items
      BY DEF RetryStep, EvidenceStep
    <3> QED
      BY <3>1, <3>2, <3>3, <3>4
  <2>3. r.kind = "intent" => CodedBefore(new, r.item)
    BY <1>8 DEF Record, Item, old
  <2> QED
    BY <2>1, <2>2, <2>3
<1>10. GoodLog(longer)
  BY <1>6, <1>7, <1>9 DEF GoodLog, new
<1> QED
  BY <1>1, <1>2, <1>4, <1>8, <1>10 DEF LegalLog, old, new, longer

(* The log without its last record, as far as a runner reads it.             *)
LEMMA BeforeIsGood ==
  ASSUME NEW log, LegalLog(log), log # <<>>
  PROVE  /\ GoodLog(Before(log))
         /\ \A i \in Int : CodedBefore(Replay(Before(log)), i) => CodedBefore(Replay(log), i)
<1> DEFINE r == log[Len(log)]
<1>1. /\ log \in Seq(Record) /\ Before(log) \in Seq(Record) /\ r \in Record
      /\ log = Append(Before(log), r)
  BY DEF LegalLog, Before
<1>2. GoodLog(Before(log)) /\ Accepts(Replay(Before(log)), r)
  BY DEF LegalLog
<1> HIDE DEF r
<1>3. Replay(log) = After(Replay(Before(log)), r)
  BY <1>1, ReplayAppend
<1>4. \A i \in Int : CodedBefore(Replay(Before(log)), i) => CodedBefore(Replay(log), i)
  BY <1>1, <1>2, <1>3, CodedStays DEF GoodLog
<1> QED
  BY <1>2, <1>4

-----------------------------------------------------------------------------
(* The archive                                                               *)

Entries(log, n) == {<<k, log[k]>> : k \in 1 .. n}

Archive(a) ==
  a = [prepared |-> a.prepared, evidence |-> a.evidence, journal |-> a.journal,
       projections |-> a.projections, committed |-> a.committed]

(* The archive of a log when nothing is under way.                           *)
Settled(log) ==
  [prepared |-> Entries(log, Len(log)), evidence |-> Recs(log), journal |-> Entries(log, Len(log)),
   projections |-> Entries(log, Len(log)), committed |-> Entries(log, Len(log))]

(* An archive of a log, whose last record may be in the middle of its        *)
(* transaction.                                                              *)
Holds(a, log) ==
  /\ LegalLog(log)
  /\ Archive(a)
  /\ a.prepared = Entries(log, Len(log))
  /\ a.evidence \subseteq Recs(log)
  /\ \/ a.journal = Entries(log, Len(log))
     \/ log # <<>> /\ a.journal = Entries(log, Len(log) - 1)
  /\ a.projections \subseteq a.prepared /\ a.committed \subseteq a.prepared

(* Log, of any archive.                                                      *)
LogIn(a) == IF Readable(Recover(a)) THEN LogOf(Recover(a)) ELSE <<>>

LEMMA LogIsLogIn == Log = LogIn(archive) /\ Log' = LogIn(archive')
BY DEF Log, LogIn

LEMMA EntriesAre ==
  ASSUME NEW log, LegalLog(log), NEW n \in 0 .. Len(log)
  PROVE  /\ IsFiniteSet(Entries(log, n)) /\ Cardinality(Entries(log, n)) = n
         /\ \A e \in Entries(log, n) : e[1] \in 1 .. n /\ e[2] = log[e[1]] /\ e = <<e[1], log[e[1]]>>
         /\ \A k \in 1 .. n : <<k, log[k]>> \in Entries(log, n)
<1>0. n \in Nat /\ Len(log) \in Nat
  BY LegalIsSequence
<1>1. \A e \in Entries(log, n) : e[1] \in 1 .. n /\ e[2] = log[e[1]] /\ e = <<e[1], log[e[1]]>>
  BY DEF Entries
<1>2. \A k \in 1 .. n : <<k, log[k]>> \in Entries(log, n)
  BY DEF Entries
<1>3. ExistsBijection(1 .. n, Entries(log, n))
  <2> DEFINE f == [k \in 1 .. n |-> <<k, log[k]>>]
  <2>1. f \in Bijection(1 .. n, Entries(log, n))
    BY DEF Bijection, Injection, Surjection, IsInjective, Entries
  <2> QED
    BY <2>1 DEF ExistsBijection
<1>4. IsFiniteSet(1 .. n) /\ Cardinality(1 .. n) = n
  BY <1>0, FS_Interval
<1> QED
  BY <1>1, <1>2, <1>3, <1>4, FS_Bijection

(* A journal without gaps is read as the beginning of the log.               *)
LEMMA JournalReads ==
  ASSUME NEW log, LegalLog(log), NEW n \in 0 .. Len(log), NEW a, a.journal = Entries(log, n)
  PROVE  /\ LogOf(a) = SubSeq(log, 1, n)
         /\ {e[1] : e \in a.journal} = 1 .. Cardinality(a.journal)
         /\ Cardinality(a.journal) = n
<1>0. /\ log \in Seq(Record) /\ Len(log) \in Nat /\ n \in Nat
  BY LegalIsSequence
<1>1. /\ Cardinality(a.journal) = n
      /\ \A e \in a.journal : e[1] \in 1 .. n /\ e[2] = log[e[1]] /\ e = <<e[1], log[e[1]]>>
      /\ \A k \in 1 .. n : <<k, log[k]>> \in a.journal
  BY EntriesAre
<1>2. \A k \in 1 .. n : (CHOOSE e \in a.journal : e[1] = k)[2] = log[k]
  BY <1>1
<1>3. LogOf(a) = [k \in 1 .. n |-> log[k]]
  BY <1>1, <1>2 DEF LogOf
<1>4. SubSeq(log, 1, n) = [k \in 1 .. n |-> log[k]]
  BY <1>0
<1>5. {e[1] : e \in a.journal} = 1 .. n
  BY <1>1
<1> QED
  BY <1>1, <1>3, <1>4, <1>5

(* Whatever step its last transaction is at, the archive is recovered to the *)
(* same log.                                                                 *)
LEMMA RecoverSettles ==
  ASSUME NEW a, NEW log, Holds(a, log)
  PROVE  /\ Recover(a) = Settled(log)
         /\ Recovers(a) /\ Readable(Recover(a))
         /\ LogOf(Recover(a)) = log /\ LogIn(a) = log
<1>0. /\ LegalLog(log) /\ log \in Seq(Record) /\ Len(log) \in Nat /\ DOMAIN log = 1 .. Len(log)
      /\ log # <<>> => Len(log) # 0
      /\ a.prepared = Entries(log, Len(log)) /\ a.evidence \subseteq Recs(log)
      /\ a.journal \subseteq a.prepared
      /\ a.projections \subseteq a.prepared /\ a.committed \subseteq a.prepared
  BY LegalIsSequence DEF Holds, Entries
<1>1. {e[2] : e \in Entries(log, Len(log))} = Recs(log)
  <2>1. /\ \A e \in Entries(log, Len(log)) : e[1] \in 1 .. Len(log) /\ e[2] = log[e[1]]
        /\ \A k \in 1 .. Len(log) : <<k, log[k]>> \in Entries(log, Len(log))
    BY <1>0, EntriesAre
  <2>2. \A k \in 1 .. Len(log) : <<k, log[k]>>[2] = log[k]
    OBVIOUS
  <2>3. {e[2] : e \in Entries(log, Len(log))} \subseteq Recs(log)
    BY <2>1, <1>0 DEF Recs
  <2>4. Recs(log) \subseteq {e[2] : e \in Entries(log, Len(log))}
    <3>1. ASSUME NEW r \in Recs(log) PROVE r \in {e[2] : e \in Entries(log, Len(log))}
      <4>1. PICK k \in 1 .. Len(log) : log[k] = r
        BY <1>0 DEF Recs
      <4>2. <<k, log[k]>> \in Entries(log, Len(log)) /\ <<k, log[k]>>[2] = r
        BY <4>1, <2>1
      <4> HIDE DEF Entries
      <4> QED
        BY <4>2
    <3> QED
      BY <3>1
  <2> QED
    BY <2>3, <2>4
<1>2. Recover(a) = Settled(log)
  BY <1>0, <1>1 DEF Recover, Settled
<1>3. Settled(log).journal = Entries(log, Len(log)) /\ Settled(log).evidence = Recs(log)
  BY DEF Settled
<1>4. /\ LogOf(Settled(log)) = SubSeq(log, 1, Len(log))
      /\ {e[1] : e \in Settled(log).journal} = 1 .. Cardinality(Settled(log).journal)
  <2>1. Len(log) \in 0 .. Len(log)
    BY <1>0
  <2> QED
    BY <2>1, <1>0, <1>3, JournalReads
<1>5. SubSeq(log, 1, Len(log)) = log
  BY <1>0
<1>6. Readable(Settled(log))
  BY <1>1, <1>3, <1>4 DEF Readable
<1>7. ~Conflict(a)
  <2> SUFFICES ASSUME NEW e \in a.prepared \ a.journal, NEW f \in a.journal, e[1] = f[1]
               PROVE  FALSE
    BY DEF Conflict
  <2>1. e = <<e[1], log[e[1]]>> /\ f = <<f[1], log[f[1]]>>
    BY <1>0, EntriesAre
  <2> QED
    BY <2>1
<1> QED
  BY <1>0, <1>2, <1>4, <1>5, <1>6, <1>7 DEF Recovers, LogIn

LEMMA SettledHolds ==
  ASSUME NEW log, LegalLog(log)
  PROVE  Holds(Settled(log), log)
BY DEF Holds, Archive, Settled

(* A reader that takes no lock sees the log, or the log before the record    *)
(* that is being written.                                                    *)
LEMMA UnlockedReads ==
  ASSUME NEW a, NEW log, Holds(a, log)
  PROVE  LogOf(a) = log \/ (log # <<>> /\ LogOf(a) = Before(log))
<1>0. LegalLog(log) /\ log \in Seq(Record) /\ Len(log) \in Nat /\ (log # <<>> => Len(log) # 0)
  BY LegalIsSequence DEF Holds
<1>1. CASE a.journal = Entries(log, Len(log))
  <2>1. LogOf(a) = SubSeq(log, 1, Len(log))
    BY <1>0, <1>1, JournalReads
  <2> QED
    BY <2>1, <1>0
<1>2. CASE log # <<>> /\ a.journal = Entries(log, Len(log) - 1)
  <2>1. Len(log) - 1 \in 0 .. Len(log)
    BY <1>0, <1>2
  <2>2. LogOf(a) = SubSeq(log, 1, Len(log) - 1)
    BY <2>1, <1>0, <1>2, JournalReads
  <2> QED
    BY <2>2, <1>2 DEF Before
<1> QED
  BY <1>1, <1>2 DEF Holds

(* The transaction of the next record, prepared.                             *)
LEMMA PreparedHolds ==
  ASSUME NEW log, LegalLog(log), NEW r \in Record, LegalLog(Append(log, r)),
         NEW a, a = [Settled(log) EXCEPT !.prepared = @ \union {<<Len(log) + 1, r>>}]
  PROVE  Holds(a, Append(log, r))
<1> DEFINE longer == Append(log, r)
<1>0. log \in Seq(Record) /\ Len(log) \in Nat /\ DOMAIN log = 1 .. Len(log)
  BY LegalIsSequence
<1>1. /\ Len(longer) = Len(log) + 1 /\ longer # <<>> /\ longer[Len(log) + 1] = r
      /\ \A n \in 1 .. Len(log) : longer[n] = log[n] /\ DOMAIN longer = 1 .. Len(log) + 1
      /\ DOMAIN longer = 1 .. Len(log) + 1
  BY <1>0
<1> HIDE DEF longer
<1>2. Entries(longer, Len(log)) = Entries(log, Len(log))
  BY <1>1 DEF Entries
<1>3. Entries(longer, Len(longer)) = Entries(log, Len(log)) \union {<<Len(log) + 1, r>>}
  BY <1>0, <1>1 DEF Entries
<1>4. Recs(log) \subseteq Recs(longer)
  BY <1>0, <1>1 DEF Recs
<1>5. Archive(a) /\ a.prepared = Entries(longer, Len(longer)) /\ a.evidence = Recs(log)
      /\ a.journal = Entries(log, Len(log)) /\ a.projections = a.journal /\ a.committed = a.journal
  BY <1>3 DEF Settled, Archive
<1>6. Len(longer) - 1 = Len(log) /\ Entries(log, Len(log)) \subseteq Entries(longer, Len(longer))
  BY <1>0, <1>1, <1>3
<1>7. LegalLog(longer)
  BY DEF longer
<1>8. Holds(a, longer)
  BY <1>1, <1>2, <1>4, <1>5, <1>6, <1>7 DEF Holds
<1> QED
  BY <1>8 DEF longer

(* The files of the last transaction, one by one.                            *)
LEMMA PublishHolds ==
  ASSUME NEW a, NEW log, Holds(a, log), log # <<>>,
         NEW entry, entry = <<Len(log), log[Len(log)]>>, NEW b,
         \/ b = [a EXCEPT !.evidence = @ \union {entry[2]}]
         \/ b = [a EXCEPT !.journal = @ \union {entry}]
         \/ b = [a EXCEPT !.projections = @ \union {entry}]
         \/ b = [a EXCEPT !.committed = @ \union {entry}]
  PROVE  Holds(b, log)
<1>0. /\ LegalLog(log) /\ Len(log) \in Nat /\ Len(log) # 0 /\ DOMAIN log = 1 .. Len(log)
  BY LegalIsSequence DEF Holds
<1>1. entry[2] \in Recs(log) /\ entry \in Entries(log, Len(log))
  BY <1>0 DEF Recs, Entries
<1>2. Entries(log, Len(log) - 1) \union {entry} = Entries(log, Len(log))
  BY <1>0 DEF Entries
<1>3. a.journal \union {entry} = Entries(log, Len(log))
  BY <1>1, <1>2 DEF Holds
<1>4. Archive(a) /\ Archive(b)
  BY DEF Holds, Archive
<1>5. CASE b = [a EXCEPT !.evidence = @ \union {entry[2]}]
  BY <1>5, <1>1, <1>4 DEF Holds, Archive
<1>6. CASE b = [a EXCEPT !.journal = @ \union {entry}]
  BY <1>6, <1>3, <1>4 DEF Holds, Archive
<1>7. CASE b = [a EXCEPT !.projections = @ \union {entry}]
  BY <1>7, <1>1, <1>4 DEF Holds, Archive
<1>8. CASE b = [a EXCEPT !.committed = @ \union {entry}]
  BY <1>8, <1>1, <1>4 DEF Holds, Archive
<1> QED
  BY <1>5, <1>6, <1>7, <1>8

-----------------------------------------------------------------------------
(* The invariant of the archive                                              *)

WriteSteps == {"record", "journal", "projection", "commit"}

WritingInv ==
  writing # None =>
    /\ writing = [process |-> writing.process, entry |-> writing.entry, step |-> writing.step]
    /\ writing.process \in Process /\ writing.step \in WriteSteps \union {"terminal"}
    /\ terminal = None
    /\ writing.step \in WriteSteps => Log # <<>> /\ writing.entry = <<Len(Log), Log[Len(Log)]>>
    /\ writing.step = "terminal" => archive = Settled(Log) /\ TerminalCover(Replay(Log))

TerminalInv == terminal # None => terminal = Log /\ TerminalCover(Replay(Log))

StoreInv == Holds(archive, Log) /\ WritingInv /\ TerminalInv

(* What one log is to a later one.                                           *)
Follows(old, new) ==
  /\ Recs(old) \subseteq Recs(new)
  /\ \A i \in Int : CodedBefore(Replay(old), i) => CodedBefore(Replay(new), i)

(* A step of the archive, as its abstract specification sees it.             *)
LedgerStep ==
  \/ Log' = Log /\ (terminal' # None <=> terminal # None)
  \/ /\ terminal = None /\ terminal' = None
     /\ \E r \in Record : Accepts(Replay(Log), r) /\ Log' = Append(Log, r)
  \/ terminal = None /\ terminal' # None /\ TerminalCover(Replay(Log)) /\ Log' = Log

StoreKeeps == StoreInv' /\ Follows(Log, Log') /\ LedgerStep

LEMMA SameLog ==
  ASSUME StoreInv, NEW log, log = Log, Holds(archive', log)
  PROVE  Log' = Log /\ Holds(archive', Log') /\ Follows(Log, Log')
<1>1. LogIn(archive') = log
  BY RecoverSettles
<1>2. Log' = log
  BY <1>1, LogIsLogIn
<1> QED
  BY <1>2 DEF Follows

LEMMA StoreRests ==
  ASSUME StoreInv, archive' = archive, terminal' = terminal, writing' = writing \/ writing' = None
  PROVE  StoreKeeps /\ Log' = Log
<1>1. Log' = Log /\ Holds(archive', Log') /\ Follows(Log, Log')
  BY SameLog DEF StoreInv
<1>2. WritingInv' /\ TerminalInv'
  BY <1>1 DEF StoreInv, WritingInv, TerminalInv
<1> QED
  BY <1>1, <1>2 DEF StoreKeeps, StoreInv, LedgerStep

LEMMA StoreRecovered ==
  ASSUME StoreInv, writing = None, writing' = None, terminal' = terminal, archive' = Recover(archive)
  PROVE  StoreKeeps /\ Log' = Log
<1>0. Holds(archive, Log)
  BY DEF StoreInv
<1>1. archive' = Settled(Log)
  BY <1>0, RecoverSettles
<1>2. Holds(archive', Log)
  BY <1>0, <1>1, SettledHolds DEF Holds
<1>3. Log' = Log /\ Holds(archive', Log') /\ Follows(Log, Log')
  BY <1>2, SameLog
<1>4. WritingInv' /\ TerminalInv'
  BY <1>3 DEF StoreInv, WritingInv, TerminalInv
<1> QED
  BY <1>3, <1>4 DEF StoreKeeps, StoreInv, LedgerStep

LEMMA RecordPrepared ==
  ASSUME StoreInv, NEW p \in Process, NEW r \in Record, Prepare(p, r),
         r.kind = "intent" => CodedBefore(Replay(Log), r.item)
  PROVE  /\ StoreKeeps
         /\ r \notin Recs(Log) /\ Log' = Append(Log, r)
         /\ writing' = [process |-> p, entry |-> <<Len(Log) + 1, r>>, step |-> "record"]
<1>0. Holds(archive, Log) /\ LegalLog(Log) /\ Log \in Seq(Record) /\ Len(Log) \in Nat
  BY LegalIsSequence DEF StoreInv, Holds
<1>1. Recover(archive) = Settled(Log) /\ LogOf(Recover(archive)) = Log
  BY <1>0, RecoverSettles
<1>2. Settled(Log).evidence = Recs(Log) /\ Settled(Log).journal = Entries(Log, Len(Log))
  BY DEF Settled
<1>3. Cardinality(Entries(Log, Len(Log))) = Len(Log)
  <2>1. Len(Log) \in 0 .. Len(Log)
    BY <1>0
  <2> QED
    BY <2>1, <1>0, EntriesAre
<1>4. /\ terminal = None /\ r \notin Recs(Log) /\ Accepts(Replay(Log), r)
  BY <1>1, <1>2 DEF Prepare, MayAppend
<1>5. /\ archive' = [Settled(Log) EXCEPT !.prepared = @ \union {<<Len(Log) + 1, r>>}]
      /\ writing' = [process |-> p, entry |-> <<Len(Log) + 1, r>>, step |-> "record"]
      /\ terminal' = None
  BY <1>1, <1>2, <1>3, <1>4 DEF Prepare
<1>6. /\ LegalLog(Append(Log, r))
      /\ \A i \in Int : CodedBefore(Replay(Log), i) => CodedBefore(Replay(Append(Log, r)), i)
  BY <1>0, <1>4, LogGrows
<1>7. Holds(archive', Append(Log, r))
  BY <1>0, <1>5, <1>6, PreparedHolds
<1>8. Log' = Append(Log, r)
  BY <1>7, RecoverSettles, LogIsLogIn
<1>9. /\ Len(Append(Log, r)) = Len(Log) + 1 /\ Append(Log, r)[Len(Log) + 1] = r
      /\ Append(Log, r) # <<>> /\ DOMAIN Append(Log, r) = 1 .. Len(Log) + 1
      /\ DOMAIN Log = 1 .. Len(Log) /\ \A n \in 1 .. Len(Log) : Append(Log, r)[n] = Log[n]
  BY <1>0
<1>10. Recs(Log) \subseteq Recs(Log')
  BY <1>8, <1>9, <1>0 DEF Recs
<1>11. WritingInv'
  BY <1>5, <1>8, <1>9 DEF WritingInv, WriteSteps
<1>12. TerminalInv' /\ LedgerStep
  BY <1>4, <1>5, <1>8 DEF TerminalInv, LedgerStep
<1> QED
  BY <1>4, <1>5, <1>6, <1>7, <1>8, <1>10, <1>11, <1>12 DEF StoreKeeps, StoreInv, Follows

LEMMA FilePublished ==
  ASSUME StoreInv, PublishRecord \/ PublishJournal \/ PublishProjection
  PROVE  /\ StoreKeeps /\ Log' = Log
         /\ writing # None /\ writing'.process = writing.process /\ writing'.entry = writing.entry
         /\ writing.step \in WriteSteps /\ writing'.step \in WriteSteps
<1>1. /\ writing # None /\ writing.step \in WriteSteps /\ terminal' = terminal
      /\ \E step \in WriteSteps : writing' = [writing EXCEPT !.step = step]
      /\ \/ archive' = [archive EXCEPT !.evidence = @ \union {writing.entry[2]}]
         \/ archive' = [archive EXCEPT !.journal = @ \union {writing.entry}]
         \/ archive' = [archive EXCEPT !.projections = @ \union {writing.entry}]
  BY DEF PublishRecord, PublishJournal, PublishProjection, At, Goto, WriteSteps
<1>2. /\ Holds(archive, Log) /\ Log # <<>> /\ writing.entry = <<Len(Log), Log[Len(Log)]>>
      /\ writing = [process |-> writing.process, entry |-> writing.entry, step |-> writing.step]
      /\ writing.process \in Process /\ terminal = None
  BY <1>1 DEF StoreInv, WritingInv
<1>3. Holds(archive', Log)
  BY <1>1, <1>2, PublishHolds
<1>4. Log' = Log /\ Holds(archive', Log') /\ Follows(Log, Log')
  BY <1>3, SameLog
<1>5. PICK step \in WriteSteps : writing' = [writing EXCEPT !.step = step]
  BY <1>1
<1>6. writing' = [process |-> writing.process, entry |-> writing.entry, step |-> step]
  BY <1>2, <1>5
<1>7. WritingInv'
  BY <1>1, <1>2, <1>4, <1>5, <1>6 DEF WritingInv, WriteSteps
<1>8. TerminalInv' /\ LedgerStep
  BY <1>1, <1>2, <1>4 DEF TerminalInv, LedgerStep
<1> QED
  BY <1>1, <1>4, <1>5, <1>6, <1>7, <1>8 DEF StoreKeeps, StoreInv

LEMMA AppendCommitted ==
  ASSUME StoreInv, NEW p \in Process, CommitAppend(p)
  PROVE  /\ StoreKeeps /\ Log' = Log
         /\ writing # None /\ writing.process = p /\ writing' = None /\ writing.step \in WriteSteps
         /\ writing.entry[2] \in Recs(Log)
<1>1. /\ writing # None /\ writing.process = p /\ writing.step \in WriteSteps
      /\ terminal' = terminal /\ writing' = None
      /\ archive' = [archive EXCEPT !.committed = @ \union {writing.entry}]
  BY DEF CommitAppend, At, WriteSteps
<1>2. Holds(archive, Log) /\ Log # <<>> /\ writing.entry = <<Len(Log), Log[Len(Log)]>> /\ terminal = None
  BY <1>1 DEF StoreInv, WritingInv
<1>3. Holds(archive', Log)
  BY <1>1, <1>2, PublishHolds
<1>4. Log' = Log /\ Holds(archive', Log') /\ Follows(Log, Log')
  BY <1>3, SameLog
<1>5. WritingInv' /\ TerminalInv' /\ LedgerStep
  BY <1>1, <1>2, <1>4 DEF WritingInv, TerminalInv, LedgerStep
<1>6. writing.entry[2] \in Recs(Log)
  <2>1. Len(Log) \in DOMAIN Log
    BY <1>2, LegalIsSequence DEF Holds
  <2> QED
    BY <2>1, <1>2 DEF Recs
<1> QED
  BY <1>1, <1>4, <1>5, <1>6 DEF StoreKeeps, StoreInv

LEMMA TerminalBegun ==
  ASSUME StoreInv, NEW p \in Process, BeginTerminal(p)
  PROVE  /\ StoreKeeps /\ Log' = Log
         /\ writing = None /\ writing'.process = p /\ writing'.step = "terminal"
<1>0. Holds(archive, Log)
  BY DEF StoreInv
<1>1. Recover(archive) = Settled(Log) /\ LogOf(Recover(archive)) = Log
  BY <1>0, RecoverSettles
<1>2. /\ writing = None /\ terminal = None /\ terminal' = None
      /\ TerminalCover(Replay(Log))
      /\ writing' = [process |-> p, entry |-> Entry(Log), step |-> "terminal"]
      /\ archive' = Settled(Log)
  BY <1>1 DEF BeginTerminal
<1>3. Holds(archive', Log)
  BY <1>0, <1>2, SettledHolds DEF Holds
<1>4. Log' = Log /\ Holds(archive', Log') /\ Follows(Log, Log')
  BY <1>3, SameLog
<1>5. WritingInv' /\ TerminalInv' /\ LedgerStep
  BY <1>2, <1>4 DEF WritingInv, TerminalInv, LedgerStep, WriteSteps
<1> QED
  BY <1>2, <1>4, <1>5 DEF StoreKeeps, StoreInv

LEMMA TerminalPublished ==
  ASSUME StoreInv, NEW p \in Process, PublishTerminal(p)
  PROVE  /\ StoreKeeps /\ Log' = Log
         /\ writing # None /\ writing.process = p /\ writing' = None
<1>1. /\ writing # None /\ writing.process = p /\ writing.step = "terminal" /\ writing' = None
      /\ archive' = archive /\ terminal' = LogOf(archive)
  BY DEF PublishTerminal, At
<1>2. /\ Holds(archive, Log) /\ archive = Settled(Log) /\ TerminalCover(Replay(Log)) /\ terminal = None
  BY <1>1 DEF StoreInv, WritingInv
<1>3. LogOf(archive) = Log
  <2>1. Recover(archive) = Settled(Log) /\ LogOf(Recover(archive)) = Log
    BY <1>2, RecoverSettles
  <2> QED
    BY <2>1, <1>2
<1>4. Log' = Log /\ Holds(archive', Log') /\ Follows(Log, Log')
  BY <1>1, <1>2, SameLog
<1>5. WritingInv' /\ TerminalInv' /\ LedgerStep
  BY <1>1, <1>2, <1>3, <1>4 DEF WritingInv, TerminalInv, LedgerStep
<1> QED
  BY <1>1, <1>4, <1>5 DEF StoreKeeps, StoreInv

-----------------------------------------------------------------------------
(* The invariant of the runners                                              *)

Step ==
  {"idle", "preflight", "start", "loop", "intent", "send", "wait",
   "response", "attempt", "resolution", "tool"}

Job == [item : Item \union {0}, attempt : 0 .. MaxAttempts, value : Result \union {"none"}]

Request == (Item \union {0}) \X (0 .. MaxAttempts)

TypeOK ==
  /\ pc \in [Process -> Step]
  /\ job \in [Process -> Job]
  /\ sent \in Seq(Request)
  /\ \A p \in Process : pc[p] \in {"intent", "send", "wait"} => job[p].value = "none"

IntentOf(request) == RecordOf("intent", request[1], request[2], "none")

Asked(p) == <<job[p].item, job[p].attempt>>

(* A writer is at the step whose record it writes; the request whose intent  *)
(* is being written has not been sent, and nobody else is about to send it.  *)
WriterInv ==
  writing # None =>
    LET p == writing.process IN
    /\ pc[p] \in (DOMAIN NextStep) \union {"tool"}
    /\ writing.step = "terminal" => pc[p] = "tool"
    /\ pc[p] = "intent" =>
         /\ writing.entry[2] = IntentOf(Asked(p))
         /\ Asked(p) \notin Range(sent)
         /\ \A q \in Process : pc[q] = "send" => Asked(q) # Asked(p)

SentInv ==
  /\ IsInjective(sent)
  /\ \A request \in Range(sent) : IntentOf(request) \in Recs(Log)
  /\ \A p \in Process : pc[p] = "send" =>
       /\ IntentOf(Asked(p)) \in Recs(Log)
       /\ Asked(p) \notin Range(sent)
       /\ \A q \in Process \ {p} : pc[q] = "send" => Asked(q) # Asked(p)

(* The item before one that is asked about is coded.                         *)
OrderInv ==
  /\ \A p \in Process : pc[p] \in {"intent", "send"} => CodedBefore(Replay(Log), job[p].item)
  /\ \A request \in Range(sent) : CodedBefore(Replay(Log), request[1])

RunnerInv == TypeOK /\ WriterInv /\ SentInv /\ OrderInv

RunInv == StoreInv /\ RunnerInv

LEMMA RequestsAre ==
  ASSUME TypeOK
  PROVE  /\ \A request \in Range(sent) : request \in Request /\ request[1] \in Int
         /\ \A p \in Process : job[p] \in Job /\ Asked(p) \in Request /\ job[p].item \in Int
                               /\ Asked(p)[1] = job[p].item /\ Asked(p)[2] = job[p].attempt
<1>1. \A request \in Request : request[1] \in Int
  BY DEF Request, Item
<1>2. \A request \in Range(sent) : request \in Request
  BY DEF TypeOK, Range
<1>3. \A p \in Process : job[p] \in Job
  BY DEF TypeOK
<1> QED
  BY <1>1, <1>2, <1>3 DEF Asked, Job, Request, Item

(* A step of the archive under runners that do nothing.                      *)
LEMMA RunnersStay ==
  ASSUME RunnerInv, Follows(Log, Log'), UNCHANGED <<pc, job, sent>>,
         \/ writing' = None
         \/ /\ writing # None /\ writing'.process = writing.process /\ writing'.entry = writing.entry
            /\ writing'.step = "terminal" => writing.step = "terminal"
  PROVE  RunnerInv'
<1>1. TypeOK'
  BY DEF RunnerInv, TypeOK
<1>2. WriterInv'
  BY DEF RunnerInv, WriterInv, Asked
<1>3. SentInv'
  BY DEF RunnerInv, SentInv, Follows, Asked
<1>4. OrderInv'
  <2>1. /\ \A request \in Range(sent) : request[1] \in Int
        /\ \A p \in Process : job[p].item \in Int
    BY RequestsAre DEF RunnerInv
  <2> QED
    BY <2>1 DEF RunnerInv, OrderInv, Follows
<1> QED
  BY <1>1, <1>2, <1>3, <1>4 DEF RunnerInv

(* A runner moves to a step at which it is not about to ask anything.        *)
LEMMA RunnerMoves ==
  ASSUME RunnerInv, Follows(Log, Log'), sent' = sent, NEW p \in Process,
         NEW step \in Step \ {"intent", "send", "wait"}, NEW j \in Job,
         pc' = [pc EXCEPT ![p] = step], job' = [job EXCEPT ![p] = j],
         \/ writing' = None
         \/ writing # None /\ writing.process # p /\ writing.process \in Process /\ writing' = writing
  PROVE  RunnerInv'
<1>0. TypeOK /\ pc \in [Process -> Step] /\ job \in [Process -> Job]
  BY DEF RunnerInv, TypeOK
<1>a. /\ \A q \in Process \ {p} : pc'[q] = pc[q] /\ job'[q] = job[q] /\ Asked(q)' = Asked(q)
      /\ pc'[p] = step
  BY <1>0 DEF Asked
<1>1. TypeOK'
  BY <1>0, <1>a DEF RunnerInv, TypeOK
<1>2. WriterInv'
  <2> SUFFICES ASSUME writing # None, writing' = writing, writing.process # p, writing.process \in Process
               PROVE  WriterInv'
    BY DEF WriterInv
  <2> DEFINE w == writing.process
  <2>1. /\ pc[w] \in (DOMAIN NextStep) \union {"tool"} /\ (writing.step = "terminal" => pc[w] = "tool")
        /\ pc[w] = "intent" =>
             /\ writing.entry[2] = IntentOf(Asked(w)) /\ Asked(w) \notin Range(sent)
             /\ \A q \in Process : pc[q] = "send" => Asked(q) # Asked(w)
    BY DEF RunnerInv, WriterInv
  <2>2. pc'[w] = pc[w] /\ Asked(w)' = Asked(w)
    BY <1>a
  <2>3. \A q \in Process : pc'[q] = "send" => pc[q] = "send" /\ Asked(q)' = Asked(q)
    BY <1>a
  <2>4. pc'[w] = "intent" =>
          /\ writing.entry[2] = IntentOf(Asked(w)') /\ Asked(w)' \notin Range(sent)
          /\ \A q \in Process : pc'[q] = "send" => Asked(q)' # Asked(w)'
    BY <2>1, <2>2, <2>3
  <2> QED
    BY <2>1, <2>2, <2>4 DEF WriterInv
<1>3. SentInv'
  <2>1. \A q \in Process : pc'[q] = "send" => q # p /\ pc[q] = "send" /\ Asked(q)' = Asked(q)
    BY <1>a
  <2>2. /\ IsInjective(sent)
        /\ \A request \in Range(sent) : IntentOf(request) \in Recs(Log')
        /\ \A q \in Process : pc[q] = "send" =>
             /\ IntentOf(Asked(q)) \in Recs(Log')
             /\ Asked(q) \notin Range(sent)
             /\ \A o \in Process \ {q} : pc[o] = "send" => Asked(o) # Asked(q)
    BY DEF RunnerInv, SentInv, Follows
  <2>3. \A q \in Process : pc'[q] = "send" =>
          /\ IntentOf(Asked(q)') \in Recs(Log')
          /\ Asked(q)' \notin Range(sent)
          /\ \A o \in Process \ {q} : pc'[o] = "send" => Asked(o)' # Asked(q)'
    BY <2>1, <2>2
  <2> QED
    BY <2>2, <2>3 DEF SentInv
<1>4. OrderInv'
  <2>1. /\ \A request \in Range(sent) : request[1] \in Int
        /\ \A q \in Process : job[q].item \in Int
    BY <1>0, RequestsAre
  <2> QED
    BY <2>1, <1>a DEF RunnerInv, OrderInv, Follows
<1> QED
  BY <1>1, <1>2, <1>3, <1>4 DEF RunnerInv

-----------------------------------------------------------------------------
(* The records that are appended                                             *)

LEMMA RunnerRecordIs ==
  ASSUME TypeOK, NEW p \in Process, pc[p] \in DOMAIN NextStep
  PROVE  /\ RunnerRecord(p) \in Record
         /\ RunnerRecord(p).kind = pc[p]
         /\ pc[p] = "intent" => RunnerRecord(p) = IntentOf(Asked(p)) /\ RunnerRecord(p).item = job[p].item
<1>0. /\ job[p] \in Job
      /\ pc[p] \in {"preflight", "start", "intent", "response", "attempt", "resolution"}
      /\ job[p].item \in Item \union {0} /\ job[p].attempt \in 0 .. MaxAttempts
      /\ job[p].value \in Result \union {"none"}
  BY DEF TypeOK, Job, NextStep
<1>1. OutcomeOf(job[p].value, job[p].attempt) \in Outcome
  BY DEF OutcomeOf, Outcome
<1>2. CASE pc[p] = "resolution"
  BY <1>0, <1>1, <1>2 DEF RunnerRecord, RecordOf, Record
<1>3. CASE pc[p] # "resolution"
  <2>1. RunnerRecord(p) = [kind |-> pc[p], item |-> job[p].item, attempt |-> job[p].attempt, value |-> job[p].value]
    BY <1>3 DEF RunnerRecord, RecordOf
  <2>2. pc[p] = "intent" => job[p].value = "none"
    BY DEF TypeOK
  <2>3. pc[p] = "intent" => RunnerRecord(p) = IntentOf(Asked(p))
    BY <2>1, <2>2 DEF IntentOf, Asked, RecordOf
  <2> QED
    BY <2>1, <2>3, <1>0, <1>3 DEF Record
<1> QED
  BY <1>2, <1>3

LEMMA ToolRecordsAre ==
  ASSUME NEW projection, GoodProjection(projection), NEW r \in ToolRecords(projection)
  PROVE  r \in Record /\ r.kind # "intent"
<1>0. MaxAttempts \in Nat /\ ItemCount \in Nat
  BY ManifestAssumption
<1>1. \A i \in Unresolved(projection) : i \in Item /\ projection.items[i].count \in 0 .. MaxAttempts
  BY <1>0 DEF Unresolved, GoodProjection, GoodItem, ItemState, Item
<1>2. CASE r \in {RecordOf("preflight", 0, 0, "none"), RecordOf("start", 0, 0, "none")}
  BY <1>2, <1>0 DEF RecordOf, Record
<1>3. CASE r \notin {RecordOf("preflight", 0, 0, "none"), RecordOf("start", 0, 0, "none")}
  <2>1. PICK i \in Unresolved(projection) :
          \E kind \in {"negative", "marker", "ambiguous", "audit", "recovered", "response", "attempt", "resolution"} :
            \E value \in Result \union Outcome \union {"none"} :
              r = RecordOf(kind, i, projection.items[i].count, value)
    BY <1>3 DEF ToolRecords
  <2> QED
    BY <2>1, <1>1 DEF RecordOf, Record
<1> QED
  BY <1>2, <1>3

(* What a runner plans is an attempt at an item whose predecessor is coded.  *)
LEMMA NextJobIs ==
  ASSUME NEW projection, GoodProjection(projection), NextJob(projection) # NoJob,
         \A i \in DOMAIN projection.items : CodedBefore(projection, i)
  PROVE  LET next == NextJob(projection) IN
         /\ next \in Job /\ next.value = "none"
         /\ CodedBefore(projection, next.item)
<1> DEFINE items == projection.items
           n == Len(items)
           next == NextJob(projection)
<1>0. /\ n \in Nat /\ DOMAIN items = 1 .. n /\ n <= ItemCount /\ ItemCount \in Nat
      /\ MaxAttempts \in Nat \ {0}
      /\ \A i \in 1 .. n : items[i].count \in 1 .. MaxAttempts
  BY ManifestAssumption DEF GoodProjection, GoodItem, ItemState
<1>1. CASE n > 0 /\ items[n].status = "pending_retry"
  <2>1. items[n].count < MaxAttempts /\ next = [item |-> n, attempt |-> items[n].count + 1, value |-> "none"]
    BY <1>1 DEF NextJob
  <2> QED
    BY <2>1, <1>0, <1>1 DEF Job, Item
<1>2. CASE ~(n > 0 /\ items[n].status = "pending_retry")
  <2>1. /\ n < ItemCount /\ (n = 0 \/ items[n].status = "coded")
        /\ next = [item |-> n + 1, attempt |-> 1, value |-> "none"]
    BY <1>2 DEF NextJob
  <2>2. CodedBefore(projection, n + 1)
    BY <2>1, <1>0 DEF CodedBefore
  <2> QED
    BY <2>1, <2>2, <1>0 DEF Job, Item
<1> QED
  BY <1>1, <1>2

-----------------------------------------------------------------------------
(* The invariant holds                                                       *)

LEMMA RunStarts == Init => RunInv
<1> SUFFICES ASSUME Init PROVE RunInv
  OBVIOUS
<1>1. Settled(<<>>) = archive
  <2>1. Entries(<<>>, Len(<<>>)) = {} /\ Recs(<<>>) = {}
    BY DEF Entries, Recs
  <2> QED
    BY <2>1 DEF Init, StoreInit, Settled
<1>2. Holds(archive, <<>>)
  BY <1>1, EmptyIsLegal, SettledHolds
<1>3. Log = <<>>
  BY <1>2, RecoverSettles, LogIsLogIn
<1>4. StoreInv
  BY <1>2, <1>3 DEF StoreInv, WritingInv, TerminalInv, Init, StoreInit
<1>5. NoJob \in Job
  BY ManifestAssumption DEF NoJob, Job
<1>6. \A p \in Process : pc[p] \in {"idle", "preflight"} /\ job[p] = NoJob
  BY DEF Init
<1>7. sent = <<>> /\ Range(sent) = {} /\ IsInjective(sent) /\ writing = None
  BY DEF Init, StoreInit, Range, IsInjective
<1>8. TypeOK
  BY <1>5, <1>7 DEF Init, TypeOK, Step
<1>9. WriterInv /\ SentInv /\ OrderInv
  BY <1>6, <1>7 DEF WriterInv, SentInv, OrderInv
<1> QED
  BY <1>4, <1>8, <1>9 DEF RunInv, RunnerInv

NoWriterBut(p) == writing # None => writing.process # p /\ writing.process \in Process

LEMMA LeaveKeeps ==
  ASSUME RunInv, NEW p \in Process, Leave(p), sent' = sent, StoreKeeps,
         \/ writing' = None
         \/ writing # None /\ writing.process # p /\ writing.process \in Process /\ writing' = writing
  PROVE  RunInv'
<1>1. NoJob \in Job
  BY ManifestAssumption DEF NoJob, Job
<1>2. "idle" \in Step \ {"intent", "send", "wait"}
  BY DEF Step
<1>3. pc' = [pc EXCEPT ![p] = "idle"] /\ job' = [job EXCEPT ![p] = NoJob]
  BY DEF Leave
<1>4. RunnerInv'
  BY <1>1, <1>2, <1>3, RunnerMoves DEF RunInv, StoreKeeps
<1> QED
  BY <1>4 DEF RunInv, StoreKeeps

LEMMA OpenKeeps ==
  ASSUME RunInv, NEW p \in Process, OpenStore(p), NEW step \in {"loop", "tool"},
         pc' = [pc EXCEPT ![p] = step], UNCHANGED <<job, sent>>
  PROVE  RunInv' /\ StoreKeeps
<1>1. /\ writing = None /\ writing' = None /\ terminal' = terminal /\ archive' = Recover(archive)
  BY DEF OpenStore
<1>2. StoreKeeps
  BY <1>1, StoreRecovered DEF RunInv
<1>3. step \in Step \ {"intent", "send", "wait"}
  BY DEF Step
<1>4. job[p] \in Job /\ job' = [job EXCEPT ![p] = job[p]]
  BY DEF RunInv, RunnerInv, TypeOK
<1>5. RunnerInv'
  BY <1>1, <1>2, <1>3, <1>4, RunnerMoves DEF RunInv, StoreKeeps
<1> QED
  BY <1>2, <1>5 DEF RunInv, StoreKeeps

(* A process that is not at the step of a record does not write.             *)
LEMMA OthersWrite ==
  ASSUME RunInv, NEW p \in Process, pc[p] \in {"idle", "loop", "send", "wait"}
  PROVE  NoWriterBut(p)
<1>1. writing # None => writing.process \in Process
  BY DEF RunInv, StoreInv, WritingInv
<1>2. writing # None => pc[writing.process] \in (DOMAIN NextStep) \union {"tool"}
  BY DEF RunInv, RunnerInv, WriterInv
<1>3. (DOMAIN NextStep) \union {"tool"} = {"preflight", "start", "intent", "response", "attempt", "resolution", "tool"}
  BY DEF NextStep
<1> QED
  BY <1>1, <1>2, <1>3 DEF NoWriterBut

LEMMA PlanKeeps ==
  ASSUME RunInv, NEW p \in Process, Plan(p)
  PROVE  RunInv' /\ StoreKeeps
<1> DEFINE read == LogOf(archive)
           next == NextJob(Replay(read))
<1>0. StoreInv /\ TypeOK /\ WriterInv /\ SentInv /\ OrderInv /\ Holds(archive, Log) /\ LegalLog(Log)
  BY DEF RunInv, RunnerInv, StoreInv, Holds
<1>1. /\ next # NoJob /\ pc[p] = "loop"
      /\ job' = [job EXCEPT ![p] = next] /\ pc' = [pc EXCEPT ![p] = "intent"]
      /\ archive' = archive /\ terminal' = terminal /\ writing' = writing /\ sent' = sent
  BY DEF Plan, storeVars
<1>2. StoreKeeps /\ Log' = Log
  BY <1>0, <1>1, StoreRests
<1>3. GoodLog(read) /\ \A i \in Int : CodedBefore(Replay(read), i) => CodedBefore(Replay(Log), i)
  <2>1. read = Log \/ (Log # <<>> /\ read = Before(Log))
    BY <1>0, UnlockedReads
  <2>2. CASE read = Log
    BY <2>2, <1>0 DEF LegalLog
  <2>3. CASE Log # <<>> /\ read = Before(Log)
    BY <2>3, <1>0, BeforeIsGood
  <2> QED
    BY <2>1, <2>2, <2>3
<1>4. next \in Job /\ next.value = "none" /\ CodedBefore(Replay(read), next.item)
  BY <1>1, <1>3, NextJobIs DEF GoodLog
<1> HIDE DEF next
<1>5. CodedBefore(Replay(Log), next.item)
  BY <1>3, <1>4 DEF Job, Item
<1>6. NoWriterBut(p)
  BY <1>1, OthersWrite
<1>7. /\ pc \in [Process -> Step] /\ job \in [Process -> Job]
      /\ \A q \in Process \ {p} : pc'[q] = pc[q] /\ job'[q] = job[q] /\ Asked(q)' = Asked(q)
      /\ pc'[p] = "intent" /\ job'[p] = next /\ \A q \in Process : pc'[q] = "send" => pc[q] = "send" /\ q # p
  BY <1>0, <1>1 DEF TypeOK, Asked
<1>8. TypeOK'
  BY <1>0, <1>1, <1>4, <1>7 DEF TypeOK, Step
<1>9. WriterInv'
  <2>1. CASE writing = None
    BY <2>1, <1>1 DEF WriterInv
  <2>2. CASE writing # None
    <3> DEFINE w == writing.process
    <3>1. /\ w \in Process /\ w # p
          /\ pc[w] \in (DOMAIN NextStep) \union {"tool"} /\ (writing.step = "terminal" => pc[w] = "tool")
          /\ pc[w] = "intent" =>
               /\ writing.entry[2] = IntentOf(Asked(w)) /\ Asked(w) \notin Range(sent)
               /\ \A q \in Process : pc[q] = "send" => Asked(q) # Asked(w)
      BY <1>0, <1>6, <2>2 DEF WriterInv, NoWriterBut
    <3>2. pc'[w] = pc[w] /\ Asked(w)' = Asked(w)
      BY <3>1, <1>1, <1>7 DEF Asked
    <3>3. pc'[w] = "intent" =>
               /\ writing.entry[2] = IntentOf(Asked(w)') /\ Asked(w)' \notin Range(sent)
               /\ \A q \in Process : pc'[q] = "send" => Asked(q)' # Asked(w)'
      BY <3>1, <3>2, <1>7
    <3> QED
      BY <3>1, <3>2, <3>3, <1>1 DEF WriterInv
  <2> QED
    BY <2>1, <2>2
<1>10. SentInv'
  BY <1>0, <1>1, <1>2, <1>7 DEF SentInv
<1>11. OrderInv'
  BY <1>0, <1>1, <1>2, <1>5, <1>7 DEF OrderInv
<1> QED
  BY <1>2, <1>8, <1>9, <1>10, <1>11 DEF RunInv, RunnerInv, StoreKeeps

(* A record is prepared by a process that was at its step.                   *)
LEMMA PrepareKeeps ==
  ASSUME RunInv, NEW p \in Process, NEW r \in Record, Prepare(p, r), UNCHANGED <<pc, job, sent>>,
         pc[p] \in (DOMAIN NextStep) \union {"tool"},
         r.kind = "intent" => pc[p] = "intent",
         pc[p] = "intent" => r = IntentOf(Asked(p)) /\ r.item = job[p].item
  PROVE  RunInv' /\ StoreKeeps
<1>0. TypeOK /\ WriterInv /\ SentInv /\ OrderInv /\ StoreInv
  BY DEF RunInv, RunnerInv
<1>1. r.kind = "intent" => CodedBefore(Replay(Log), r.item)
  BY <1>0 DEF OrderInv
<1>2. /\ StoreKeeps /\ r \notin Recs(Log)
      /\ writing' = [process |-> p, entry |-> <<Len(Log) + 1, r>>, step |-> "record"]
  BY <1>0, <1>1, RecordPrepared
<1>3. TypeOK'
  BY <1>0 DEF TypeOK
<1>4. WriterInv'
  <2>1. /\ writing'.process = p /\ writing'.entry[2] = r /\ writing'.step = "record"
    BY <1>2
  <2>2. pc[p] = "intent" => /\ Asked(p) \notin Range(sent)
                            /\ \A q \in Process : pc[q] = "send" => Asked(q) # Asked(p)
    BY <1>0, <1>2 DEF SentInv
  <2> QED
    BY <2>1, <2>2 DEF WriterInv, Asked
<1>5. SentInv'
  BY <1>0, <1>2 DEF SentInv, StoreKeeps, Follows, Asked
<1>6. OrderInv'
  <2>1. /\ \A request \in Range(sent) : request[1] \in Int
        /\ \A q \in Process : job[q].item \in Int
    BY <1>0, RequestsAre
  <2> QED
    BY <2>1, <1>0, <1>2 DEF OrderInv, StoreKeeps, Follows
<1> QED
  BY <1>2, <1>3, <1>4, <1>5, <1>6 DEF RunInv, RunnerInv, StoreKeeps

LEMMA CommitKeeps ==
  ASSUME RunInv, NEW p \in Process, Commit(p)
  PROVE  RunInv' /\ StoreKeeps
<1>0. TypeOK /\ WriterInv /\ SentInv /\ OrderInv /\ StoreInv /\ pc \in [Process -> Step]
      /\ job \in [Process -> Job]
  BY DEF RunInv, RunnerInv, TypeOK
<1>1. /\ StoreKeeps /\ Log' = Log
      /\ writing # None /\ writing.process = p /\ writing' = None /\ writing.step \in WriteSteps
      /\ writing.entry[2] \in Recs(Log)
      /\ UNCHANGED <<job, sent>>
  BY <1>0, AppendCommitted DEF Commit
<1>2. /\ pc[p] \in (DOMAIN NextStep) \union {"tool"}
      /\ pc[p] = "intent" =>
           /\ writing.entry[2] = IntentOf(Asked(p)) /\ Asked(p) \notin Range(sent)
           /\ \A q \in Process : pc[q] = "send" => Asked(q) # Asked(p)
  BY <1>0, <1>1 DEF WriterInv
<1>3. DOMAIN NextStep = {"preflight", "start", "intent", "response", "attempt", "resolution"}
      /\ \A s \in DOMAIN NextStep \ {"intent"} : NextStep[s] \in {"start", "loop", "attempt", "resolution"}
      /\ NextStep["intent"] = "send"
  BY DEF NextStep
<1>4. CASE pc[p] # "intent"
  <2>1. PICK step \in Step \ {"intent", "send", "wait"} : pc' = [pc EXCEPT ![p] = step]
    <3>1. CASE pc[p] = "tool"
      <4>1. pc' = [pc EXCEPT ![p] = "tool"]
        BY <3>1, <1>0 DEF Commit
      <4> QED
        BY <4>1 DEF Step
    <3>2. CASE pc[p] # "tool"
      <4>1. pc' = [pc EXCEPT ![p] = NextStep[pc[p]]]
        BY <3>2, <1>0 DEF Commit
      <4>2. NextStep[pc[p]] \in {"start", "loop", "attempt", "resolution"}
        BY <3>2, <1>2, <1>3, <1>4
      <4> QED
        BY <4>1, <4>2 DEF Step
    <3> QED
      BY <3>1, <3>2
  <2>2. job[p] \in Job /\ job' = [job EXCEPT ![p] = job[p]]
    BY <1>0, <1>1
  <2>3. RunnerInv'
    BY <2>1, <2>2, <1>1, RunnerMoves DEF RunInv, StoreKeeps
  <2> QED
    BY <2>3, <1>1 DEF RunInv, StoreKeeps
<1>5. CASE pc[p] = "intent"
  <2>0. pc' = [pc EXCEPT ![p] = NextStep[pc[p]]]
    BY <1>5, <1>0 DEF Commit
  <2>1. pc' = [pc EXCEPT ![p] = "send"]
    BY <2>0, <1>5, <1>3
  <2>2. /\ \A q \in Process \ {p} : pc'[q] = pc[q]
        /\ pc'[p] = "send" /\ \A q \in Process : Asked(q)' = Asked(q)
    BY <2>1, <1>0, <1>1 DEF Asked
  <2>3. TypeOK'
    BY <2>1, <2>2, <1>0, <1>1, <1>5 DEF TypeOK, Step
  <2>4. WriterInv'
    BY <1>1 DEF WriterInv
  <2>5. SentInv'
    <3>1. /\ IntentOf(Asked(p)) \in Recs(Log) /\ Asked(p) \notin Range(sent)
          /\ \A q \in Process : pc[q] = "send" => Asked(q) # Asked(p)
      BY <1>1, <1>2, <1>5
    <3>2. \A q \in Process : pc'[q] = "send" =>
            /\ IntentOf(Asked(q)) \in Recs(Log) /\ Asked(q) \notin Range(sent)
            /\ \A o \in Process \ {q} : pc'[o] = "send" => Asked(o) # Asked(q)
      BY <3>1, <2>2, <1>0 DEF SentInv
    <3> QED
      BY <3>2, <2>2, <1>0, <1>1 DEF SentInv
  <2>6. OrderInv'
    BY <2>2, <1>0, <1>1, <1>5 DEF OrderInv
  <2> QED
    BY <2>3, <2>4, <2>5, <2>6, <1>1 DEF RunInv, RunnerInv, StoreKeeps
<1> QED
  BY <1>4, <1>5

LEMMA SendKeeps ==
  ASSUME RunInv, NEW p \in Process, Send(p)
  PROVE  RunInv' /\ StoreKeeps
<1>0. TypeOK /\ WriterInv /\ SentInv /\ OrderInv /\ StoreInv /\ pc \in [Process -> Step]
      /\ job \in [Process -> Job] /\ sent \in Seq(Request)
  BY DEF RunInv, RunnerInv, TypeOK
<1>1. /\ pc[p] = "send" /\ pc' = [pc EXCEPT ![p] = "wait"] /\ job' = job
      /\ sent' = Append(sent, Asked(p))
      /\ archive' = archive /\ terminal' = terminal /\ writing' = writing
  BY DEF Send, storeVars, Asked
<1>2. StoreKeeps /\ Log' = Log
  BY <1>0, <1>1, StoreRests
<1>3. Asked(p) \in Request
  BY <1>0, RequestsAre
<1>4. /\ sent' \in Seq(Request) /\ Range(sent') = Range(sent) \union {Asked(p)}
      /\ (Asked(p) \notin Range(sent) => IsInjective(sent'))
  <2>1. /\ Len(sent) \in Nat /\ DOMAIN sent = 1 .. Len(sent) /\ DOMAIN sent' = 1 .. Len(sent) + 1
        /\ sent'[Len(sent) + 1] = Asked(p) /\ \A n \in 1 .. Len(sent) : sent'[n] = sent[n]
        /\ sent' \in Seq(Request)
    BY <1>0, <1>1, <1>3
  <2>2. IsInjective(sent)
    BY <1>0 DEF SentInv
  <2>3. Range(sent') = Range(sent) \union {Asked(p)}
    BY <2>1 DEF Range
  <2>4. Asked(p) \notin Range(sent) => IsInjective(sent')
    BY <2>1, <2>2 DEF IsInjective, Range
  <2> QED
    BY <2>1, <2>3, <2>4
<1>5. /\ \A q \in Process \ {p} : pc'[q] = pc[q]
      /\ pc'[p] = "wait" /\ \A q \in Process : Asked(q)' = Asked(q)
  BY <1>0, <1>1 DEF Asked
<1>6. TypeOK'
  BY <1>0, <1>1, <1>4, <1>5 DEF TypeOK, Step
<1>7. NoWriterBut(p)
  BY <1>1, OthersWrite
<1>8. WriterInv'
  <2>1. CASE writing = None
    BY <2>1, <1>1 DEF WriterInv
  <2>2. CASE writing # None
    <3> DEFINE w == writing.process
    <3>1. /\ w \in Process /\ w # p
          /\ pc[w] \in (DOMAIN NextStep) \union {"tool"} /\ (writing.step = "terminal" => pc[w] = "tool")
          /\ pc[w] = "intent" =>
               /\ writing.entry[2] = IntentOf(Asked(w)) /\ Asked(w) \notin Range(sent)
               /\ \A q \in Process : pc[q] = "send" => Asked(q) # Asked(w)
      BY <1>0, <1>7, <2>2 DEF WriterInv, NoWriterBut
    <3>2. pc[w] = "intent" => Asked(w) # Asked(p)
      BY <3>1, <1>1
    <3>3. pc'[w] = pc[w] /\ Asked(w)' = Asked(w)
      BY <3>1, <1>1, <1>5 DEF Asked
    <3>4. pc'[w] = "intent" =>
            /\ writing.entry[2] = IntentOf(Asked(w)) /\ Asked(w) \notin Range(sent')
            /\ \A q \in Process : pc'[q] = "send" => Asked(q) # Asked(w)
      BY <3>1, <3>2, <3>3, <1>4, <1>5
    <3> QED
      BY <3>1, <3>3, <3>4, <1>1, <1>5 DEF WriterInv
  <2> QED
    BY <2>1, <2>2
<1>9. SentInv'
  <2>1. /\ IntentOf(Asked(p)) \in Recs(Log) /\ Asked(p) \notin Range(sent)
        /\ \A q \in Process \ {p} : pc[q] = "send" => Asked(q) # Asked(p)
    BY <1>0, <1>1 DEF SentInv
  <2>2. IsInjective(sent') /\ \A request \in Range(sent') : IntentOf(request) \in Recs(Log)
    BY <2>1, <1>0, <1>4 DEF SentInv
  <2>3. \A q \in Process : pc'[q] = "send" =>
            /\ IntentOf(Asked(q)) \in Recs(Log) /\ Asked(q) \notin Range(sent')
            /\ \A o \in Process \ {q} : pc'[o] = "send" => Asked(o) # Asked(q)
    BY <2>1, <1>0, <1>4, <1>5 DEF SentInv
  <2> QED
    BY <2>2, <2>3, <1>2, <1>5 DEF SentInv
<1>10. OrderInv'
  <2>1. CodedBefore(Replay(Log), Asked(p)[1])
    BY <1>0, <1>1 DEF OrderInv, Asked
  <2> QED
    BY <2>1, <1>0, <1>1, <1>2, <1>4, <1>5 DEF OrderInv
<1> QED
  BY <1>2, <1>6, <1>8, <1>9, <1>10 DEF RunInv, RunnerInv, StoreKeeps

LEMMA ReceiveKeeps ==
  ASSUME RunInv, NEW p \in Process, Receive(p)
  PROVE  RunInv' /\ StoreKeeps
<1>0. StoreInv /\ RunnerInv /\ job \in [Process -> Job]
  BY DEF RunInv, RunnerInv, TypeOK
<1>1. PICK result \in Result : job' = [job EXCEPT ![p].value = result]
  BY DEF Receive
<1>2. /\ pc[p] = "wait" /\ pc' = [pc EXCEPT ![p] = "response"] /\ sent' = sent
      /\ archive' = archive /\ terminal' = terminal /\ writing' = writing
  BY DEF Receive, storeVars
<1>3. [job[p] EXCEPT !.value = result] \in Job /\ job' = [job EXCEPT ![p] = [job[p] EXCEPT !.value = result]]
  BY <1>0, <1>1 DEF Job
<1>4. StoreKeeps
  BY <1>0, <1>2, StoreRests
<1>5. writing' = None \/ (writing # None /\ writing.process # p /\ writing.process \in Process /\ writing' = writing)
  BY <1>2, OthersWrite DEF NoWriterBut
<1>6. "response" \in Step \ {"intent", "send", "wait"}
  BY DEF Step
<1>7. RunnerInv'
  BY <1>0, <1>2, <1>3, <1>4, <1>5, <1>6, RunnerMoves DEF StoreKeeps
<1> QED
  BY <1>4, <1>7 DEF RunInv, StoreKeeps

LEMMA StartTerminalKeeps ==
  ASSUME RunInv, NEW p \in Process, StartTerminal(p)
  PROVE  RunInv' /\ StoreKeeps
<1>0. StoreInv /\ TypeOK /\ SentInv /\ OrderInv
  BY DEF RunInv, RunnerInv
<1>1. pc[p] = "tool" /\ UNCHANGED <<pc, job, sent>>
  BY DEF StartTerminal
<1>2. StoreKeeps /\ Log' = Log /\ writing'.process = p /\ writing'.step = "terminal"
  BY <1>0, TerminalBegun DEF StartTerminal
<1>3. TypeOK'
  BY <1>0, <1>1 DEF TypeOK
<1>4. WriterInv'
  BY <1>1, <1>2 DEF WriterInv
<1>5. SentInv' /\ OrderInv'
  BY <1>0, <1>1, <1>2 DEF SentInv, OrderInv, Asked
<1> QED
  BY <1>2, <1>3, <1>4, <1>5 DEF RunInv, RunnerInv, StoreKeeps

LEMMA StepKeeps ==
  ASSUME RunInv, [Next]_runVars
  PROVE  RunInv' /\ LedgerStep
<1>0. StoreInv /\ RunnerInv /\ TypeOK
  BY DEF RunInv, RunnerInv
<1> SUFFICES RunInv' /\ StoreKeeps
  BY DEF StoreKeeps
<1>1. CASE UNCHANGED runVars
  <2>1. StoreKeeps
    BY <1>0, <1>1, StoreRests DEF runVars, storeVars
  <2>2. RunnerInv'
    BY <2>1, <1>0, <1>1, RunnersStay DEF StoreKeeps, runVars, storeVars
  <2> QED
    BY <2>1, <2>2 DEF RunInv, StoreKeeps
<1>2. CASE Publish
  <2>1. /\ StoreKeeps
        /\ writing # None /\ writing'.process = writing.process /\ writing'.entry = writing.entry
        /\ writing'.step # "terminal"
        /\ UNCHANGED <<pc, job, sent>>
    BY <1>0, <1>2, FilePublished DEF Publish, WriteSteps
  <2>2. RunnerInv'
    BY <2>1, <1>0, RunnersStay DEF StoreKeeps
  <2> QED
    BY <2>1, <2>2 DEF RunInv, StoreKeeps
<1> SUFFICES ASSUME NEW p \in Process,
      \/ Resume(p) \/ Plan(p) \/ Stop(p) \/ AppendNext(p) \/ AppendRefused(p) \/ Commit(p)
      \/ Send(p) \/ Receive(p)
      \/ OpenTool(p) \/ AppendEvidence(p) \/ StartTerminal(p) \/ FinishTerminal(p) \/ CloseTool(p)
      \/ Die(p) \/ FailWrite(p)
    PROVE RunInv' /\ StoreKeeps
  BY <1>1, <1>2 DEF Next
<1>a. writing # None => writing.process \in Process
  BY <1>0 DEF StoreInv, WritingInv
<1>3. CASE Resume(p)
  <2>1. OpenStore(p) /\ pc' = [pc EXCEPT ![p] = "loop"] /\ UNCHANGED <<job, sent>> /\ "loop" \in {"loop", "tool"}
    BY <1>3 DEF Resume
  <2> QED
    BY <2>1, OpenKeeps
<1>4. CASE OpenTool(p)
  <2>1. OpenStore(p) /\ pc' = [pc EXCEPT ![p] = "tool"] /\ UNCHANGED <<job, sent>> /\ "tool" \in {"loop", "tool"}
    BY <1>4 DEF OpenTool
  <2> QED
    BY <2>1, OpenKeeps
<1>5. CASE Plan(p)
  BY <1>5, PlanKeeps
<1>6. CASE Stop(p)
  <2>1. pc[p] = "loop" /\ Leave(p) /\ archive' = archive /\ terminal' = terminal /\ writing' = writing /\ sent' = sent
    BY <1>6 DEF Stop
  <2>2. NoWriterBut(p)
    BY <2>1, OthersWrite
  <2>3. StoreKeeps
    BY <2>1, <1>0, StoreRests
  <2> QED
    BY <2>1, <2>2, <2>3, LeaveKeeps DEF NoWriterBut
<1>7. CASE AppendNext(p)
  <2>1. pc[p] \in DOMAIN NextStep /\ Prepare(p, RunnerRecord(p)) /\ UNCHANGED <<pc, job, sent>>
    BY <1>7 DEF AppendNext
  <2>2. /\ RunnerRecord(p) \in Record /\ RunnerRecord(p).kind = pc[p]
        /\ pc[p] = "intent" => RunnerRecord(p) = IntentOf(Asked(p)) /\ RunnerRecord(p).item = job[p].item
    BY <2>1, <1>0, RunnerRecordIs
  <2> QED
    BY <2>1, <2>2, PrepareKeeps
<1>8. CASE AppendRefused(p)
  <2>1. /\ writing = None /\ writing' = None /\ terminal' = terminal /\ Leave(p) /\ sent' = sent
        /\ archive' = archive \/ archive' = Recover(archive)
    BY <1>8 DEF AppendRefused, RefuseAppend
  <2>2. StoreKeeps
    BY <2>1, <1>0, StoreRests, StoreRecovered
  <2> QED
    BY <2>1, <2>2, LeaveKeeps
<1>9. CASE Commit(p)
  BY <1>9, CommitKeeps
<1>10. CASE Send(p)
  BY <1>10, SendKeeps
<1>11. CASE Receive(p)
  BY <1>11, ReceiveKeeps
<1>12. CASE AppendEvidence(p)
  <2>1. pc[p] = "tool" /\ UNCHANGED <<pc, job, sent>>
    BY <1>12 DEF AppendEvidence
  <2>2. PICK r \in ToolRecords(Replay(LogOf(Recover(archive)))) : Prepare(p, r)
    BY <1>12 DEF AppendEvidence
  <2>3. LogOf(Recover(archive)) = Log /\ GoodProjection(Replay(Log))
    BY <1>0, RecoverSettles DEF StoreInv, Holds, LegalLog, GoodLog
  <2>4. r \in Record /\ r.kind # "intent"
    BY <2>2, <2>3, ToolRecordsAre
  <2> QED
    BY <2>1, <2>2, <2>4, PrepareKeeps
<1>13. CASE StartTerminal(p)
  BY <1>13, StartTerminalKeeps
<1>14. CASE FinishTerminal(p)
  <2>1. StoreKeeps /\ writing' = None /\ UNCHANGED <<pc, job, sent>>
    BY <1>0, <1>14, TerminalPublished DEF FinishTerminal
  <2>2. RunnerInv'
    BY <2>1, <1>0, RunnersStay DEF StoreKeeps
  <2> QED
    BY <2>1, <2>2 DEF RunInv, StoreKeeps
<1>15. CASE CloseTool(p)
  <2>1. /\ ~(writing # None /\ writing.process = p) /\ Leave(p) /\ sent' = sent
        /\ archive' = archive /\ terminal' = terminal /\ writing' = writing
    BY <1>15 DEF CloseTool
  <2>2. StoreKeeps
    BY <2>1, <1>0, StoreRests
  <2> QED
    BY <2>1, <2>2, <1>a, LeaveKeeps
<1>16. CASE Die(p)
  <2>1. /\ Leave(p) /\ sent' = sent /\ archive' = archive /\ terminal' = terminal
        /\ \/ writing' = None
           \/ writing # None /\ writing.process # p /\ writing' = writing
    BY <1>16 DEF Die, AbandonWrite
  <2>2. StoreKeeps
    BY <2>1, <1>0, StoreRests
  <2> QED
    BY <2>1, <2>2, <1>a, LeaveKeeps
<1>17. CASE FailWrite(p)
  <2>1. archive' = archive /\ terminal' = terminal /\ writing' = None /\ UNCHANGED <<pc, job, sent>>
    BY <1>17 DEF FailWrite
  <2>2. StoreKeeps
    BY <2>1, <1>0, StoreRests
  <2>3. RunnerInv'
    BY <2>1, <2>2, <1>0, RunnersStay DEF StoreKeeps
  <2> QED
    BY <2>2, <2>3 DEF RunInv, StoreKeeps
<1> QED
  BY <1>3, <1>4, <1>5, <1>6, <1>7, <1>8, <1>9, <1>10, <1>11, <1>12, <1>13, <1>14, <1>15, <1>16, <1>17

(* The inductive invariant.                                                  *)
THEOREM RunInvCorrect == Spec => []RunInv
<1>1. RunInv /\ [Next]_runVars => RunInv'
  BY StepKeeps
<1> QED
  BY <1>1, RunStarts, PTL DEF Spec

-----------------------------------------------------------------------------
(* What follows from it                                                      *)

(* No request is sent twice, by one runner or by several that were started   *)
(* at the same time, and each has its intent in the archive.                 *)
THEOREM SentOnce == Spec => []NoRequestSentTwice
<1>1. RunInv => NoRequestSentTwice
  <2> SUFFICES ASSUME RunInv PROVE NoRequestSentTwice
    OBVIOUS
  <2>1. /\ IsInjective(sent) /\ \A request \in Range(sent) : IntentOf(request) \in Recs(Log)
        /\ Holds(archive, Log)
    BY DEF RunInv, RunnerInv, StoreInv, SentInv
  <2>2. Recover(archive).evidence = Recs(Log)
    BY <2>1, RecoverSettles DEF Settled
  <2>3. \A n \in DOMAIN sent : IntentOf(sent[n]) \in Recover(archive).evidence
    BY <2>1, <2>2 DEF Range
  <2>4. \A n \in DOMAIN sent :
          /\ IntentOf(sent[n]).kind = "intent" /\ IntentOf(sent[n]).item = sent[n][1]
          /\ IntentOf(sent[n]).attempt = sent[n][2]
    BY DEF IntentOf, RecordOf
  <2> QED
    BY <2>1, <2>3, <2>4 DEF NoRequestSentTwice, InLog
<1> QED
  BY <1>1, RunInvCorrect, PTL

(* The runners keep to the approved order, although they plan from an        *)
(* archive that others are writing.                                          *)
THEOREM InOrder == Spec => []ItemsInOrder
<1>1. RunInv => ItemsInOrder
  BY DEF RunInv, RunnerInv, OrderInv, CodedBefore, ItemsInOrder, Range
<1> QED
  BY <1>1, RunInvCorrect, PTL

(* The lanes of the replay keep the evidence of an attempt of one kind.      *)
THEOREM EvidenceCorrect == Spec => []EvidenceAgrees
<1>1. RunInv => EvidenceAgrees
  <2> SUFFICES ASSUME RunInv PROVE EvidenceAgrees
    OBVIOUS
  <2>1. Holds(archive, Log) /\ ResponsesAgree(Recs(Log))
    BY DEF RunInv, StoreInv, Holds, LegalLog, GoodLog, EvidenceFits
  <2>2. Recover(archive).evidence = Recs(Log)
    BY <2>1, RecoverSettles DEF Settled
  <2>3. ResponsesAgree(Recover(archive).evidence)
    BY <2>1, <2>2
  <2> QED
    BY <2>3 DEF ResponsesAgree, Beside, EvidenceAgrees
<1> QED
  BY <1>1, RunInvCorrect, PTL

(* Wherever a writer died in a transaction, the next open() succeeds.        *)
THEOREM ArchiveOpens == Spec => []OpensUnlessTorn
<1>1. RunInv => OpensUnlessTorn
  <2> SUFFICES ASSUME RunInv, ~rootLitter PROVE Opens
    BY DEF OpensUnlessTorn
  <2>1. Holds(archive, Log) /\ TerminalInv
    BY DEF RunInv, StoreInv
  <2>2. Recovers(archive) /\ Recover(archive) = Settled(Log) /\ LogOf(Recover(archive)) = Log
    BY <2>1, RecoverSettles
  <2>3. Recover(archive).projections = Recover(archive).journal
    BY <2>2 DEF Settled
  <2>4. terminal # None => terminal = Log /\ TerminalCover(Replay(terminal))
    BY <2>1 DEF TerminalInv
  <2> QED
    BY <2>2, <2>3, <2>4 DEF Opens
<1> QED
  BY <1>1, RunInvCorrect, PTL

-----------------------------------------------------------------------------
(* The archive is a ledger                                                   *)

LEMMA LedgerAccepts ==
  ASSUME NEW projection, NEW r
  PROVE  Ledger!Accepts(projection, r) = Accepts(projection, r)
BY DEF Accepts, AcceptsIntent, Covers, AcceptsEvidence, OutcomeOf, CanRetry, Item,
       Ledger!Accepts, Ledger!AcceptsIntent, Ledger!Covers, Ledger!AcceptsEvidence,
       Ledger!OutcomeOf, Ledger!CanRetry, Ledger!Item

LEMMA LedgerReplays ==
  ASSUME NEW log
  PROVE  Ledger!Replay(log) = Replay(log)
BY DEF Replay, After, ItemAfter, Resolved, NewItem, Empty,
       Ledger!Replay, Ledger!After, Ledger!ItemAfter, Ledger!Resolved, Ledger!NewItem, Ledger!Empty

LEMMA LedgerCovers ==
  ASSUME NEW projection
  PROVE  Ledger!TerminalCover(projection) = TerminalCover(projection)
BY DEF TerminalCover, Item, Final, Ledger!TerminalCover, Ledger!Item, Ledger!Final

LEMMA LedgerRecords == Ledger!Record = Record
BY DEF Record, Item, Result, Outcome, Ledger!Record, Ledger!Item, Ledger!Result, Ledger!Outcome

(* Appends through recovery, by any number of processes, are the additions   *)
(* of one record at a time that the abstract log allows; the terminal        *)
(* projection closes it.                                                     *)
THEOREM ArchiveIsLedger == Spec => ImplementsLedger
<1>1. Init => Ledger!LedgerInit
  <2> SUFFICES ASSUME Init PROVE Ledger!LedgerInit
    OBVIOUS
  <2>1. Settled(<<>>) = archive
    <3>1. Entries(<<>>, Len(<<>>)) = {} /\ Recs(<<>>) = {}
      BY DEF Entries, Recs
    <3> QED
      BY <3>1 DEF Init, StoreInit, Settled
  <2>2. Log = <<>>
    BY <2>1, EmptyIsLegal, SettledHolds, RecoverSettles, LogIsLogIn
  <2> QED
    BY <2>2 DEF Ledger!LedgerInit, Init, StoreInit
<1>2. RunInv /\ [Next]_runVars => [Ledger!Add \/ Ledger!Close]_<<Log, terminal # None>>
  <2> SUFFICES ASSUME RunInv, [Next]_runVars
               PROVE  [Ledger!Add \/ Ledger!Close]_<<Log, terminal # None>>
    OBVIOUS
  <2>1. LedgerStep
    BY StepKeeps
  <2>2. CASE Log' = Log /\ (terminal' # None <=> terminal # None)
    <3>1. (terminal # None)' = (terminal # None)
      BY <2>2
    <3> QED
      BY <3>1, <2>2
  <2>3. CASE /\ terminal = None /\ terminal' = None
             /\ \E r \in Record : Accepts(Replay(Log), r) /\ Log' = Append(Log, r)
    <3>1. PICK r \in Record : Accepts(Replay(Log), r) /\ Log' = Append(Log, r)
      BY <2>3
    <3>2. Log \in Seq(Record)
      BY DEF RunInv, StoreInv, Holds, LegalLog
    <3>3. Len(Log') = Len(Log) + 1 /\ SubSeq(Log', 1, Len(Log)) = Log /\ Log'[Len(Log')] = r
      BY <3>1, <3>2
    <3>4. r \in Ledger!Record /\ Ledger!Accepts(Ledger!Replay(Log), r)
      BY <3>1, LedgerRecords, LedgerAccepts, LedgerReplays
    <3>5. Ledger!Extends(Log, Log')
      BY <3>3, <3>4 DEF Ledger!Extends
    <3>6. Ledger!Add
      BY <3>5, <2>3 DEF Ledger!Add
    <3> QED
      BY <3>6
  <2>4. CASE terminal = None /\ terminal' # None /\ TerminalCover(Replay(Log)) /\ Log' = Log
    <3>1. Ledger!TerminalCover(Ledger!Replay(Log))
      BY <2>4, LedgerCovers, LedgerReplays
    <3>2. Ledger!Close
      BY <3>1, <2>4 DEF Ledger!Close
    <3> QED
      BY <3>2
  <2> QED
    BY <2>1, <2>2, <2>3, <2>4 DEF LedgerStep
<1> QED
  BY <1>1, <1>2, RunInvCorrect, PTL DEF Spec, ImplementsLedger, Ledger!LedgerSpec, Ledger!ledgerVars

-----------------------------------------------------------------------------
(* The review                                                               *)

ReviewSpec == ReviewInit /\ [][ReviewNext]_<<trial, bundle, selection>>

(* What a step makes and hands on: codes of the coders an item is assigned  *)
(* to, and judgements of what those dispute.                                *)
Shaped(b) ==
  /\ b = [items |-> b.items, audited |-> b.audited, codes |-> b.codes, adjudications |-> b.adjudications,
          agreement |-> b.agreement, status |-> b.status, final |-> b.final]
  /\ DOMAIN b.codes \subseteq Assigned(b)
  /\ \A pair \in DOMAIN b.codes : b.codes[pair] \in Opinion \union {Nil}
  /\ \A c \in DOMAIN b.adjudications : b.adjudications[c] \in Opinion

(* A topic was scored on a complete review, of every case of a topic.       *)
Stands(topic) ==
  \A c \in Case : Cases[c].topic = topic =>
    Parsed(c) /\ \A d \in Dimensions : bundle.final[c][d] \in Policy.passing[d]
SelectionStands ==
  selection # Nil /\ selection.primary # Nil =>
    /\ bundle # Nil /\ bundle.status = "complete" /\ trial.complete
    /\ \A c \in Case : trial.final[c] # Nil => Parsed(c)
    /\ \A topic \in {selection.primary, selection.robustness} \ {Nil} : Stands(topic)

ReviewInv ==
  /\ bundle # Nil =>
       /\ Shaped(bundle) /\ BundleValid(bundle)
       /\ bundle.items = Eligible /\ bundle.audited = Sampled
  /\ SelectionStands

(* From the bijection theorems to what is counted below.                    *)
LEMMA SameSize ==
  ASSUME NEW S, NEW T, IsFiniteSet(S), NEW f \in [S -> T],
         \A x, y \in S : f[x] = f[y] => x = y, \A t \in T : \E x \in S : f[x] = t
  PROVE  IsFiniteSet(T) /\ Cardinality(T) = Cardinality(S)
<1>1. f \in Bijection(S, T)
  BY DEF Bijection, Injection, Surjection, IsInjective
<1>2. ExistsBijection(S, T)
  BY <1>1 DEF ExistsBijection
<1> QED
  BY <1>2, FS_Bijection

-----------------------------------------------------------------------------
(* What the humans audit                                                    *)

(* As many of a pool are among the first n of a ranking as there are to be. *)
LEMMA FirstOfRanking ==
  ASSUME NEW pool, IsFiniteSet(pool), NEW rank, \A c, e \in pool : rank[c] \in Int /\ (rank[c] = rank[e] => c = e),
         NEW n \in Nat, n <= Cardinality(pool)
  PROVE  Cardinality({c \in pool : Cardinality({e \in pool : rank[e] < rank[c]}) < n}) = n
<1> DEFINE before(c) == {e \in pool : rank[e] < rank[c]}
           size == Cardinality(pool)
           f == [c \in pool |-> Cardinality(before(c))]
           chosen == {c \in pool : f[c] < n}
<1>1. size \in Nat
  BY FS_CardinalityType
<1>2. ASSUME NEW c \in pool PROVE IsFiniteSet(before(c)) /\ Cardinality(before(c)) \in 0 .. size - 1
  <2>1. before(c) \subseteq pool \ {c} /\ before(c) \subseteq pool
    OBVIOUS
  <2>2. IsFiniteSet(pool \ {c}) /\ Cardinality(pool \ {c}) = size - 1
    BY FS_RemoveElement
  <2> HIDE DEF before
  <2>3. IsFiniteSet(before(c)) /\ Cardinality(before(c)) <= size - 1
    BY <2>1, <2>2, FS_Subset
  <2> QED
    BY <2>3, <1>1, FS_CardinalityType
<1>3. ASSUME NEW c \in pool, NEW e \in pool, rank[c] < rank[e] PROVE f[c] < f[e]
  <2>1. before(c) \union {c} \subseteq before(e) /\ c \notin before(c)
    BY <1>3
  <2> HIDE DEF before
  <2>2. IsFiniteSet(before(c) \union {c}) /\ Cardinality(before(c) \union {c}) = Cardinality(before(c)) + 1
    BY <2>1, <1>2, FS_AddElement
  <2>3. Cardinality(before(c) \union {c}) <= Cardinality(before(e))
    BY <2>1, <1>2, FS_Subset
  <2>4. Cardinality(before(c)) \in 0 .. size - 1 /\ Cardinality(before(e)) \in 0 .. size - 1
    BY <1>2
  <2> QED
    BY <2>2, <2>3, <2>4, <1>1
<1>4. f \in [pool -> 0 .. size - 1]
  BY <1>2
<1>5. ASSUME NEW c \in pool, NEW e \in pool, f[c] = f[e] PROVE c = e
  <2>1. f[c] \in Int /\ f[e] \in Int
    BY <1>4, <1>1
  <2>2. rank[c] \in Int /\ rank[e] \in Int
    OBVIOUS
  <2>3. ~(rank[c] < rank[e]) /\ ~(rank[e] < rank[c])
    BY <1>3, <1>5, <2>1
  <2> QED
    BY <2>2, <2>3
<1> HIDE DEF f, before
<1>6. f \in Surjection(pool, 0 .. size - 1)
  <2>1. f \in Injection(pool, 0 .. size - 1)
    BY <1>4, <1>5 DEF Injection, IsInjective
  <2>2. IsFiniteSet(0 .. size - 1) /\ Cardinality(0 .. size - 1) = size
    <3> HIDE DEF size
    <3>1. 0 \in Int /\ size - 1 \in Int
      BY <1>1
    <3>2. IsFiniteSet(0 .. size - 1) /\ Cardinality(0 .. size - 1) = IF 0 > size - 1 THEN 0 ELSE (size - 1) - 0 + 1
      BY <3>1, FS_Interval
    <3> QED
      BY <3>2, <1>1
  <2> QED
    BY <2>1, <2>2, FS_Injection
<1>7. Cardinality(0 .. n - 1) = n /\ IsFiniteSet(0 .. n - 1)
  BY FS_Interval
<1>8. Cardinality(0 .. n - 1) = Cardinality(chosen)
  <2> DEFINE g == [c \in chosen |-> f[c]]
  <2>1. g \in [chosen -> 0 .. n - 1]
    BY <1>4, <1>1
  <2>2. \A x, y \in chosen : g[x] = g[y] => x = y
    BY <1>5
  <2>3. \A t \in 0 .. n - 1 : \E x \in chosen : g[x] = t
    <3> SUFFICES ASSUME NEW t \in 0 .. n - 1 PROVE \E x \in chosen : g[x] = t
      OBVIOUS
    <3>1. t \in 0 .. size - 1
      BY <1>1
    <3>2. PICK x \in pool : f[x] = t
      BY <3>1, <1>6 DEF Surjection
    <3> QED
      BY <3>2
  <2>4. IsFiniteSet(chosen)
    BY FS_Subset
  <2> HIDE DEF g, chosen
  <2> QED
    BY <2>1, <2>2, <2>3, <2>4, SameSize
<1>9. chosen = {c \in pool : Cardinality({e \in pool : rank[e] < rank[c]}) < n}
  BY DEF f, before
<1> QED
  BY <1>7, <1>8, <1>9

(* An export has, of every stratum, as many items for the humans as asked.  *)
LEMMA SampleIsWhole ==
  ASSUME PolicyValid, NEW s \in DOMAIN Policy.count, Cardinality(Pool(s)) >= Policy.count[s]
  PROVE  Cardinality({c \in Sampled : Policy.stratum[c] = s}) = Policy.count[s]
<1> DEFINE n == Policy.count[s]
<1>1. IsFiniteSet(Pool(s)) /\ Pool(s) \subseteq Case
  BY FS_Subset DEF PolicyValid, Pool, Eligible
<1>2. \A c, e \in Pool(s) : Policy.rank[c] \in Int /\ (Policy.rank[c] = Policy.rank[e] => c = e)
  BY <1>1 DEF PolicyValid
<1>3. n \in Nat /\ Cardinality(Pool(s)) \in Nat /\ n <= Cardinality(Pool(s))
  BY <1>1, FS_CardinalityType DEF PolicyValid
<1>4. Cardinality({c \in Pool(s) : Cardinality({e \in Pool(s) : Policy.rank[e] < Policy.rank[c]}) < n}) = n
  BY <1>1, <1>2, <1>3, FirstOfRanking
<1>5. {c \in Sampled : Policy.stratum[c] = s} =
      {c \in Pool(s) : Cardinality({e \in Pool(s) : Policy.rank[e] < Policy.rank[c]}) < n}
  BY DEF Sampled, Ahead, Pool
<1> QED
  BY <1>4, <1>5

-----------------------------------------------------------------------------
(* What the coders say of an item                                           *)

(* Of a complete review every coder of an item gave an opinion.             *)
LEMMA EveryItemIsCoded ==
  ASSUME PolicyValid, NEW b, NEW codes, b.items \subseteq Case, b.audited \subseteq b.items, Coded(b, codes),
         \A pair \in DOMAIN codes : codes[pair] \in Opinion \union {Nil}, NEW c \in b.items
  PROVE  /\ Coders(codes, c) # {} /\ Judges \subseteq Coders(codes, c) /\ IsFiniteSet(Coders(codes, c))
         /\ \A k \in Coders(codes, c) : <<c, k>> \in DOMAIN codes /\ codes[<<c, k>>] \in Opinion
<1>1. \A pair \in DOMAIN codes : codes[pair] \in Opinion
  BY DEF Coded
<1>2. \A k \in Judges : <<c, k>> \in DOMAIN codes
  BY DEF Coded, Assigned
<1>3. IsFiniteSet(Judges \union Humans)
  BY FS_Union DEF PolicyValid
<1>4. Coders(codes, c) \subseteq Judges \union Humans
  BY DEF Coders
<1>5. IsFiniteSet(Coders(codes, c))
  BY <1>3, <1>4, FS_Subset
<1>6. Judges \subseteq Coders(codes, c) /\ Judges # {}
  BY <1>2 DEF Coders, PolicyValid
<1> QED
  BY <1>1, <1>5, <1>6 DEF Coders

(* The labels of a dimension are one or more than one.                      *)
LEMMA LabelsAreCounted ==
  ASSUME PolicyValid, NEW b, NEW codes, b.items \subseteq Case, b.audited \subseteq b.items, Coded(b, codes),
         \A pair \in DOMAIN codes : codes[pair] \in Opinion \union {Nil}, NEW c \in b.items, NEW d \in Dimensions
  PROVE  /\ LabelsOn(codes, c, d) # {}
         /\ d \notin Differ(codes, c) <=> Cardinality(LabelsOn(codes, c, d)) = 1
         /\ d \notin Differ(codes, c) <=> \E label : LabelsOn(codes, c, d) = {label}
<1> DEFINE coders == Coders(codes, c)
           labels == LabelsOn(codes, c, d)
           f == [k \in coders |-> codes[<<c, k>>][d]]
<1>1. coders # {} /\ IsFiniteSet(coders)
  BY EveryItemIsCoded
<1>2. labels = {f[k] : k \in coders}
  BY DEF LabelsOn
<1>3. f \in Surjection(coders, labels)
  BY <1>2 DEF Surjection
<1>4. IsFiniteSet(labels)
  BY <1>1, <1>3, FS_Surjection
<1>5. labels # {}
  BY <1>1, <1>2
<1> HIDE DEF labels
<1>6. Cardinality(labels) \in Nat /\ Cardinality(labels) # 0
  BY <1>4, <1>5, FS_CardinalityType, FS_EmptySet
<1>7. Cardinality(labels) = 1 <=> \E label : labels = {label}
  BY <1>4, FS_Singleton
<1>8. ~(Cardinality(labels) > 1) <=> Cardinality(labels) = 1
  BY <1>6
<1>9. d \notin Differ(codes, c) <=> ~(Cardinality(labels) > 1)
  BY DEF Differ, labels
<1> QED
  BY <1>5, <1>7, <1>8, <1>9 DEF labels

(* What an undisputed item is said to be, by whichever coder.               *)
LEMMA OneOpinion ==
  ASSUME PolicyValid, NEW b, NEW codes, b.items \subseteq Case, b.audited \subseteq b.items, Coded(b, codes),
         \A pair \in DOMAIN codes : codes[pair] \in Opinion \union {Nil}, NEW c \in b.items, Differ(codes, c) = {},
         NEW k \in Coders(codes, c)
  PROVE  /\ \A j \in Coders(codes, c) : codes[<<c, j>>] = codes[<<c, k>>]
         /\ \A d \in Dimensions : LabelsOn(codes, c, d) = {codes[<<c, k>>][d]}
<1>1. \A j \in Coders(codes, c) : codes[<<c, j>>] \in Opinion
  BY EveryItemIsCoded
<1>2. ASSUME NEW d \in Dimensions PROVE LabelsOn(codes, c, d) = {codes[<<c, k>>][d]}
  <2>1. PICK label : LabelsOn(codes, c, d) = {label}
    BY LabelsAreCounted
  <2> QED
    BY <2>1 DEF LabelsOn
<1>3. ASSUME NEW j \in Coders(codes, c) PROVE codes[<<c, j>>] = codes[<<c, k>>]
  <2>1. \A d \in Dimensions : codes[<<c, j>>][d] = codes[<<c, k>>][d]
    BY <1>2 DEF LabelsOn
  <2>2. \A o \in Opinion : o = [d \in Dimensions |-> o[d]]
    BY DEF PolicyValid
  <2>3. codes[<<c, j>>] = [d \in Dimensions |-> codes[<<c, j>>][d]] /\ codes[<<c, k>>] = [d \in Dimensions |-> codes[<<c, k>>][d]]
    BY <1>1, <2>2
  <2> QED
    BY <2>1, <2>3
<1> QED
  BY <1>2, <1>3

-----------------------------------------------------------------------------
(* How much of what the humans audit is agreed on                           *)

(* The constructor adds up, over the items, the dimensions that all agree   *)
(* on; the step that imports the codes had counted the pairs of an item and *)
(* such a dimension.                                                        *)
LEMMA AgreementIsDerivedAgain ==
  ASSUME PolicyValid, NEW b, b.items \subseteq Case, b.audited \subseteq b.items, Coded(b, b.codes),
         \A pair \in DOMAIN b.codes : b.codes[pair] \in Opinion \union {Nil}
  PROVE  Unanimous(b) = Agreement(b, b.codes)
<1> DEFINE S == b.audited
           D(c) == Dimensions \ Differ(b.codes, c)
           pairs(s) == {x \in s \X Dimensions : Cardinality(LabelsOn(b.codes, x[1], x[2])) = 1}
           any(s) == CHOOSE x \in s : TRUE
           Rec(g) == g = [s \in SUBSET S |-> IF s = {} THEN 0 ELSE Cardinality(D(any(s))) + g[s \ {any(s)}]]
           f == [s \in SUBSET S |-> Cardinality(pairs(s))]
           h == CHOOSE g : Rec(g)
<1>1. IsFiniteSet(S) /\ IsFiniteSet(Dimensions)
  BY FS_Subset DEF PolicyValid
<1>2. pairs({}) = {} /\ Cardinality({}) = 0
  BY FS_EmptySet
<1>3. ASSUME NEW s \in SUBSET S PROVE IsFiniteSet(s) /\ IsFiniteSet(pairs(s)) /\ Cardinality(pairs(s)) \in Nat
  <2>1. IsFiniteSet(s)
    BY <1>1, FS_Subset
  <2>2. IsFiniteSet(s \X Dimensions)
    BY <2>1, <1>1, FS_Product
  <2>3. pairs(s) \subseteq s \X Dimensions
    OBVIOUS
  <2> HIDE DEF pairs
  <2> QED
    BY <2>1, <2>2, <2>3, FS_Subset, FS_CardinalityType
<1>4. ASSUME NEW s \in SUBSET S, NEW x \in s
      PROVE  Cardinality(pairs(s)) = Cardinality(D(x)) + Cardinality(pairs(s \ {x}))
  <2>1. \A d \in Dimensions : d \in D(x) <=> Cardinality(LabelsOn(b.codes, x, d)) = 1
    BY LabelsAreCounted
  <2>2. pairs(s) = ({x} \X D(x)) \union pairs(s \ {x})
    BY <2>1
  <2>3. ({x} \X D(x)) \cap pairs(s \ {x}) = {}
    OBVIOUS
  <2>4. IsFiniteSet({x}) /\ Cardinality({x}) = 1
    BY FS_Singleton
  <2>5. IsFiniteSet(D(x)) /\ Cardinality(D(x)) \in Nat
    BY <1>1, FS_Subset, FS_CardinalityType
  <2>6. IsFiniteSet(pairs(s \ {x})) /\ Cardinality(pairs(s \ {x})) \in Nat
    BY <1>3
  <2> HIDE DEF D, pairs
  <2>7. IsFiniteSet({x} \X D(x)) /\ Cardinality({x} \X D(x)) = 1 * Cardinality(D(x))
    BY <2>4, <2>5, FS_Product
  <2>8. Cardinality(({x} \X D(x)) \union pairs(s \ {x})) = Cardinality({x} \X D(x)) + Cardinality(pairs(s \ {x})) - 0
    <3> DEFINE A == {x} \X D(x)
               B == pairs(s \ {x})
    <3>1. IsFiniteSet(A) /\ IsFiniteSet(B) /\ A \cap B = {}
      BY <2>3, <2>6, <2>7
    <3> HIDE DEF A, B
    <3>2. Cardinality(A \union B) = Cardinality(A) + Cardinality(B) - Cardinality(A \cap B)
      BY <3>1, FS_Union
    <3>3. Cardinality(A \union B) = Cardinality(A) + Cardinality(B) - 0
      BY <3>1, <3>2, <1>2
    <3> QED
      BY <3>3 DEF A, B
  <2> QED
    BY <2>2, <2>5, <2>6, <2>7, <2>8
<1>5. ASSUME NEW s, s # {} PROVE any(s) \in s
  BY <1>5
<1> HIDE DEF D, pairs, any
<1>6. Rec(f)
  <2>1. ASSUME NEW s \in SUBSET S PROVE f[s] = IF s = {} THEN 0 ELSE Cardinality(D(any(s))) + f[s \ {any(s)}]
    <3>1. CASE s = {}
      BY <3>1, <1>2
    <3>2. CASE s # {}
      BY <3>2, <1>4, <1>5
    <3> QED
      BY <3>1, <3>2
  <2> QED
    BY <2>1
<1>7. Rec(h)
  <2> HIDE DEF Rec
  <2> QED
    BY <1>6
<1>8. Unanimous(b) = h[S]
  BY DEF Unanimous, MapThenSumSet, MapThenFoldSet, D, any
<1>9. ASSUME NEW s \in SUBSET S PROVE h[s] = IF s = {} THEN 0 ELSE Cardinality(D(any(s))) + h[s \ {any(s)}]
  BY <1>7
<1> HIDE DEF h, f, Rec
<1> DEFINE T == {n \in Nat : \A s \in SUBSET S : Cardinality(s) = n => h[s] = Cardinality(pairs(s))}
<1>10. 0 \in T
  <2>1. ASSUME NEW s \in SUBSET S, Cardinality(s) = 0 PROVE h[s] = Cardinality(pairs(s))
    <3>1. s = {}
      BY <2>1, <1>3, FS_EmptySet
    <3> QED
      BY <3>1, <1>9, <1>2
  <2> QED
    BY <2>1
<1>11. ASSUME NEW n \in Nat, n \in T PROVE n + 1 \in T
  <2>1. ASSUME NEW s \in SUBSET S, Cardinality(s) = n + 1 PROVE h[s] = Cardinality(pairs(s))
    <3>1. s # {}
      BY <2>1, <1>2
    <3>2. any(s) \in s
      BY <3>1, <1>5
    <3> DEFINE rest == s \ {any(s)}
    <3>3. rest \in SUBSET S /\ Cardinality(rest) = n
      <4>1. IsFiniteSet(s) /\ rest \in SUBSET S
        BY <1>3
      <4>2. Cardinality(rest) = Cardinality(s) - 1
        BY <4>1, <3>2, FS_RemoveElement
      <4> QED
        BY <4>1, <4>2, <2>1
    <3>4. h[rest] = Cardinality(pairs(rest))
      BY <3>3, <1>11
    <3> QED
      BY <3>1, <3>2, <3>4, <1>9, <1>4
  <2> QED
    BY <2>1
<1>12. Nat \subseteq T
  <2> HIDE DEF T
  <2> QED
    BY <1>10, <1>11, SetInduction
<1>13. h[S] = Cardinality(pairs(S))
  <2>1. Cardinality(S) \in Nat /\ S \in SUBSET S
    BY <1>1, FS_CardinalityType
  <2> QED
    BY <2>1, <1>12
<1>14. Agreement(b, b.codes) = Cardinality(pairs(S))
  BY DEF Agreement, pairs
<1> QED
  BY <1>8, <1>13, <1>14

-----------------------------------------------------------------------------
(* The constructor accepts what the steps make                              *)

LEMMA ExportedIsValid ==
  ASSUME PolicyValid, Export
  PROVE  /\ Shaped(bundle') /\ BundleValid(bundle')
         /\ bundle'.items = Eligible /\ bundle'.audited = Sampled /\ UNCHANGED <<trial, selection>>
<1>1. PICK b : b = bundle'
  OBVIOUS
<1>2. b = [items |-> Eligible, audited |-> Sampled, codes |-> <<>>, adjudications |-> <<>>,
           agreement |-> Nil, status |-> "awaiting_codes", final |-> <<>>]
  BY <1>1 DEF Export
<1>3. Shaped(b)
  BY <1>2 DEF Shaped
<1>4. \A s \in DOMAIN Policy.count : Cardinality({c \in Sampled : Policy.stratum[c] = s}) = Policy.count[s]
  BY SampleIsWhole DEF Export
<1>5. ~Coded(b, b.codes)
  <2>1. PICK s \in DOMAIN Policy.count : Policy.count[s] \in Nat \ {0}
    BY DEF PolicyValid
  <2>2. {c \in Sampled : Policy.stratum[c] = s} # {}
    BY <2>1, <1>4, FS_EmptySet
  <2>3. PICK c : c \in Eligible
    BY <2>2 DEF Sampled
  <2>4. PICK k : k \in Judges
    BY DEF PolicyValid
  <2>5. <<c, k>> \in Assigned(b)
    BY <2>3, <2>4, <1>2 DEF Assigned
  <2>6. DOMAIN b.codes = {}
    BY <1>2
  <2> QED
    BY <2>5, <2>6 DEF Coded
<1>6. BundleValid(b)
  <2>1. b.audited = Sampled /\ b.status = "awaiting_codes" /\ b.agreement = Nil
    BY <1>2
  <2>2. DOMAIN b.codes = {} /\ DOMAIN b.adjudications = {} /\ DOMAIN b.final = {}
    BY <1>2
  <2> QED
    BY <2>1, <2>2, <1>4, <1>5 DEF BundleValid
<1> QED
  BY <1>1, <1>2, <1>3, <1>6 DEF Export

(* Codes that are handed in are of coders to whom the item was assigned.    *)
LEMMA SubmittedAreOpinions ==
  ASSUME PolicyValid, NEW b, NEW codes \in Submissions(b)
  PROVE  DOMAIN codes \subseteq Assigned(b) /\ \A pair \in DOMAIN codes : codes[pair] \in Opinion \union {Nil}
<1> DEFINE assigned == Assigned(b)
           others == (Opinion \ {Policy.plain}) \union {Nil}
           Handed(missing, odd) ==
             {[pair \in assigned \ missing |-> IF pair \in odd THEN code[pair] ELSE Policy.plain] : code \in [odd -> others]}
<1>1. PICK missing, odd : codes \in Handed(missing, odd)
  <2>1. Submissions(b) = UNION {UNION {Handed(missing, deviant \ missing) : missing \in SUBSET deviant} :
                                 deviant \in UNION {kSubset(k, assigned) : k \in 0 .. MaxDeviations}}
    BY DEF Submissions
  <2> HIDE DEF Handed
  <2>2. PICK deviant : codes \in UNION {Handed(missing, deviant \ missing) : missing \in SUBSET deviant}
    BY <2>1
  <2>3. PICK missing \in SUBSET deviant : codes \in Handed(missing, deviant \ missing)
    BY <2>2
  <2> QED
    BY <2>3
<1>2. PICK code \in [odd -> others] :
        codes = [pair \in assigned \ missing |-> IF pair \in odd THEN code[pair] ELSE Policy.plain]
  BY <1>1
<1>3. Policy.plain \in Opinion
  BY DEF PolicyValid
<1> QED
  BY <1>2, <1>3

(* What the constructor calls disputed is what the step does.               *)
LEMMA SameDisputes ==
  ASSUME NEW b, NEW codes, Coded(b, codes)
  PROVE  Disputed(b, codes) = {c \in b.items : Differ(codes, c) # {}}
BY DEF Disputed, Coded

LEMMA ImportedIsValid ==
  ASSUME PolicyValid, NEW b, Shaped(b), BundleValid(b), b.items \subseteq Case, b.audited \subseteq b.items,
         b.status = "awaiting_codes", NEW codes \in Submissions(b)
  PROVE  /\ Shaped(ImportedFrom(b, codes)) /\ BundleValid(ImportedFrom(b, codes))
         /\ ImportedFrom(b, codes).items = b.items /\ ImportedFrom(b, codes).audited = b.audited
<1> DEFINE m == ImportedFrom(b, codes)
           coded == Coded(b, codes)
           agreed == IF coded THEN Agreement(b, codes) ELSE Nil
           status == IF ~coded \/ ~AtLeast(agreed, Compared(b), Policy.threshold) THEN "review_incomplete"
                     ELSE IF Disputed(b, codes) # {} THEN "adjudication_required" ELSE "complete"
           final == IF status = "complete" THEN FinalLabels(b, codes, <<>>) ELSE <<>>
<1>1. /\ m = [b EXCEPT !.codes = codes, !.agreement = agreed, !.status = status, !.final = final]
  BY DEF ImportedFrom
<1> HIDE DEF final, status, agreed
<1>2. /\ m.items = b.items /\ m.audited = b.audited /\ m.adjudications = b.adjudications
      /\ m.codes = codes /\ m.agreement = agreed /\ m.status = status /\ m.final = final
      /\ m = [items |-> m.items, audited |-> m.audited, codes |-> m.codes, adjudications |-> m.adjudications,
              agreement |-> m.agreement, status |-> m.status, final |-> m.final]
  BY <1>1 DEF Shaped
<1> HIDE DEF m
<1>3. DOMAIN codes \subseteq Assigned(b) /\ \A pair \in DOMAIN codes : codes[pair] \in Opinion \union {Nil}
  BY SubmittedAreOpinions
<1>4. Assigned(m) = Assigned(b) /\ Compared(m) = Compared(b) /\ (Coded(m, m.codes) <=> coded)
  BY <1>2 DEF Assigned, Compared, Coded
<1>5. Shaped(m)
  BY <1>2, <1>3, <1>4 DEF Shaped
<1> SUFFICES BundleValid(m)
  BY <1>2, <1>5 DEF m
<1>6. DOMAIN m.adjudications = {}
  BY <1>2 DEF BundleValid
<1>7. coded => Unanimous(m) = agreed
  <2>1. Agreement(m, m.codes) = Agreement(b, codes)
    BY <1>2 DEF Agreement
  <2> QED
    BY <2>1, <1>2, <1>3, <1>4, AgreementIsDerivedAgain DEF agreed
<1>8. DOMAIN m.codes \subseteq m.items \X (Judges \union Humans)
  BY <1>2, <1>3 DEF Assigned
<1>9. \A s \in DOMAIN Policy.count : Cardinality({c \in m.audited : Policy.stratum[c] = s}) = Policy.count[s]
  BY <1>2 DEF BundleValid
<1>10. m.agreement = IF Coded(m, m.codes) THEN Unanimous(m) ELSE Nil
  BY <1>2, <1>4, <1>7 DEF agreed
<1>11. coded => Disputed(b, codes) = {c \in m.items : Differ(m.codes, c) # {}}
  BY <1>2, SameDisputes
<1>12. CASE status = "review_incomplete"
  <2>1. DOMAIN m.final = {}
    BY <1>2, <1>12 DEF final
  <2> QED
    BY <2>1, <1>2, <1>5, <1>6, <1>8, <1>9, <1>10, <1>12 DEF BundleValid
<1>13. CASE status = "adjudication_required"
  <2>1. coded /\ AtLeast(agreed, Compared(b), Policy.threshold) /\ Disputed(b, codes) # {}
    BY <1>13 DEF status
  <2>2. DOMAIN m.final = {}
    BY <1>2, <1>13 DEF final
  <2> QED
    BY <2>1, <2>2, <1>2, <1>4, <1>5, <1>6, <1>7, <1>8, <1>9, <1>10, <1>11, <1>13 DEF BundleValid
<1>14. CASE status = "complete"
  <2>1. coded /\ AtLeast(agreed, Compared(b), Policy.threshold) /\ Disputed(b, codes) = {}
    BY <1>14 DEF status
  <2>2. m.final = FinalLabels(b, codes, <<>>)
    BY <1>2, <1>14 DEF final
  <2>3. ASSUME NEW c \in m.items, NEW d \in Dimensions PROVE LabelsOn(m.codes, c, d) = {m.final[c][d]}
    <3> DEFINE k == CHOOSE j \in Coders(codes, c) : TRUE
    <3>1. k \in Coders(codes, c)
      BY <2>1, <1>2, <1>3, EveryItemIsCoded
    <3>2. m.final[c] = codes[<<c, k>>]
      BY <2>2, <1>2 DEF FinalLabels
    <3>3. Differ(codes, c) = {}
      BY <2>1, <1>2, <1>11
    <3> HIDE DEF k
    <3> QED
      BY <3>1, <3>2, <3>3, <2>1, <1>2, <1>3, OneOpinion
  <2>4. DOMAIN m.final = m.items
    BY <2>2, <1>2 DEF FinalLabels
  <2> QED
    BY <2>1, <2>3, <2>4, <1>2, <1>4, <1>5, <1>6, <1>7, <1>8, <1>9, <1>10, <1>11, <1>14 DEF BundleValid
<1>15. status \in {"review_incomplete", "adjudication_required", "complete"}
  BY DEF status
<1> QED
  BY <1>12, <1>13, <1>14, <1>15

Adjudicated(b, c, opinion) ==
  LET adjudications == [x \in DOMAIN b.adjudications \union {c} |-> IF x = c THEN opinion ELSE b.adjudications[x]]
      unjudged == Disputed(b, b.codes) \ DOMAIN adjudications
  IN  [b EXCEPT !.adjudications = adjudications, !.status = IF unjudged # {} THEN @ ELSE "complete",
                !.final = IF unjudged # {} THEN <<>> ELSE FinalLabels(b, b.codes, adjudications)]

LEMMA AdjudicatedIsValid ==
  ASSUME PolicyValid, NEW b, Shaped(b), BundleValid(b), b.items \subseteq Case, b.audited \subseteq b.items,
         b.status = "adjudication_required",
         NEW c \in Disputed(b, b.codes) \ DOMAIN b.adjudications, NEW opinion \in Opinion,
         NEW m, m = Adjudicated(b, c, opinion)
  PROVE  Shaped(m) /\ BundleValid(m) /\ m.items = b.items /\ m.audited = b.audited
<1> DEFINE adjudications == [x \in DOMAIN b.adjudications \union {c} |-> IF x = c THEN opinion ELSE b.adjudications[x]]
           unjudged == Disputed(b, b.codes) \ DOMAIN adjudications
           status == IF unjudged # {} THEN "adjudication_required" ELSE "complete"
           final == IF unjudged # {} THEN <<>> ELSE FinalLabels(b, b.codes, adjudications)
           disputed == {x \in b.items : Differ(b.codes, x) # {}}
<1>1. m = [b EXCEPT !.adjudications = adjudications, !.status = status, !.final = final]
  BY DEF Adjudicated
<1> HIDE DEF status, final
<1>2. /\ m.items = b.items /\ m.audited = b.audited /\ m.codes = b.codes /\ m.agreement = b.agreement
      /\ m.adjudications = adjudications /\ m.status = status /\ m.final = final
      /\ m = [items |-> m.items, audited |-> m.audited, codes |-> m.codes, adjudications |-> m.adjudications,
              agreement |-> m.agreement, status |-> m.status, final |-> m.final]
  BY <1>1 DEF Shaped
<1>3. /\ DOMAIN b.codes \subseteq Assigned(b) /\ \A pair \in DOMAIN b.codes : b.codes[pair] \in Opinion \union {Nil}
      /\ \A x \in DOMAIN b.adjudications : b.adjudications[x] \in Opinion
  BY DEF Shaped
<1>4. Coded(b, b.codes) /\ AtLeast(b.agreement, Compared(b), Policy.threshold) /\ b.agreement = Unanimous(b)
  <2>1. /\ b.agreement = IF Coded(b, b.codes) THEN Unanimous(b) ELSE Nil
        /\ Coded(b, b.codes)
    BY DEF BundleValid
  <2> QED
    BY <2>1 DEF BundleValid
<1>5. Disputed(b, b.codes) = disputed
  BY <1>4, SameDisputes
<1>6. DOMAIN b.adjudications \subseteq disputed
  BY <1>4 DEF BundleValid
<1>7. Assigned(m) = Assigned(b) /\ Compared(m) = Compared(b) /\ Coded(m, m.codes)
  BY <1>2, <1>4 DEF Assigned, Compared, Coded
<1>8. DOMAIN adjudications = DOMAIN b.adjudications \union {c} /\ \A x \in DOMAIN adjudications : adjudications[x] \in Opinion
  BY <1>3
<1>9. Shaped(m)
  BY <1>2, <1>3, <1>7, <1>8 DEF Shaped
<1> SUFFICES BundleValid(m)
  BY <1>2, <1>9
<1>10. m.agreement = Unanimous(m)
  <2>1. Agreement(m, m.codes) = Agreement(b, b.codes)
    BY <1>2 DEF Agreement
  <2>2. Unanimous(m) = Agreement(m, m.codes)
    BY <1>2, <1>3, <1>7, AgreementIsDerivedAgain
  <2>3. Unanimous(b) = Agreement(b, b.codes)
    BY <1>3, <1>4, AgreementIsDerivedAgain
  <2> QED
    BY <2>1, <2>2, <2>3, <1>2, <1>4
<1>11. AtLeast(m.agreement, Compared(m), Policy.threshold)
  BY <1>2, <1>4, <1>7
<1>12. \A s \in DOMAIN Policy.count : Cardinality({x \in m.audited : Policy.stratum[x] = s}) = Policy.count[s]
  BY <1>2 DEF BundleValid
<1>13. DOMAIN m.codes \subseteq m.items \X (Judges \union Humans)
  BY <1>2 DEF BundleValid
<1>14. /\ disputed = {x \in m.items : Differ(m.codes, x) # {}} /\ DOMAIN m.adjudications \subseteq disputed
       /\ unjudged = disputed \ DOMAIN m.adjudications
  BY <1>2, <1>5, <1>6, <1>8
<1> HIDE DEF disputed
<1>15. CASE unjudged # {}
  <2>1. DOMAIN m.final = {} /\ m.status = "adjudication_required"
    BY <1>2, <1>15 DEF final, status
  <2> QED
    BY <2>1, <1>7, <1>10, <1>11, <1>12, <1>13, <1>14, <1>15 DEF BundleValid
<1>16. CASE unjudged = {}
  <2>1. m.final = FinalLabels(b, b.codes, adjudications) /\ m.status = "complete"
    BY <1>2, <1>16 DEF final, status
  <2>2. DOMAIN m.final = m.items
    BY <2>1, <1>2 DEF FinalLabels
  <2>3. ASSUME NEW x \in m.items, x \in DOMAIN m.adjudications PROVE m.final[x] = m.adjudications[x]
    BY <2>1, <2>3, <1>2 DEF FinalLabels
  <2>4. ASSUME NEW x \in m.items, x \notin DOMAIN m.adjudications, NEW d \in Dimensions
        PROVE  LabelsOn(m.codes, x, d) = {m.final[x][d]}
    <3> DEFINE k == CHOOSE j \in Coders(b.codes, x) : TRUE
    <3>1. k \in Coders(b.codes, x)
      BY <1>2, <1>3, <1>4, EveryItemIsCoded
    <3>2. m.final[x] = b.codes[<<x, k>>]
      BY <2>1, <2>4, <1>2 DEF FinalLabels
    <3>3. Differ(b.codes, x) = {}
      BY <2>4, <1>2, <1>14, <1>16
    <3> HIDE DEF k
    <3> QED
      BY <3>1, <3>2, <3>3, <1>2, <1>3, <1>4, OneOpinion
  <2>5. disputed = DOMAIN m.adjudications
    BY <1>14, <1>16
  <2>6. \A x \in m.items : IF x \in DOMAIN m.adjudications THEN m.final[x] = m.adjudications[x]
                           ELSE \A d \in Dimensions : LabelsOn(m.codes, x, d) = {m.final[x][d]}
    BY <2>3, <2>4
  <2>7. {x \in m.items : Differ(m.codes, x) # {}} = DOMAIN m.adjudications
    BY <2>5, <1>14
  <2> HIDE DEF disputed, final, status
  <2>8. m.status = "complete" /\ DOMAIN m.final = m.items /\ AtLeast(Unanimous(m), Compared(m), Policy.threshold)
    BY <2>1, <2>2, <1>10, <1>11
  <2>9. DOMAIN m.adjudications \subseteq {x \in m.items : Differ(m.codes, x) # {}}
    BY <2>7
  <2> QED
    BY <2>6, <2>7, <2>8, <2>9, <1>7, <1>10, <1>12, <1>13 DEF BundleValid
<1> QED
  BY <1>15, <1>16

-----------------------------------------------------------------------------
(* The selection                                                            *)

LEMMA LeastOfPlaces ==
  ASSUME NEW places \in SUBSET Nat, places # {}
  PROVE  Min(places) \in places
<1> DEFINE R == {ss \in Nat \X Nat : ss[1] < ss[2]}
<1>1. IsWellFoundedOn(R, Nat)
  BY NatLessThanWellFounded DEF OpToRel
<1>2. \E x \in places : \A y \in places : <<y, x>> \notin R
  BY <1>1, WFMin
<1>3. PICK x \in places : \A y \in places : <<y, x>> \notin R
  BY <1>2
<1>4. \A y \in places : ~(y < x) /\ y \in Nat /\ x \in Nat
  BY <1>3
<1>5. \A y \in places : x =< y
  BY <1>4
<1> QED
  BY <1>5 DEF Min

LEMMA FirstPasses ==
  ASSUME NEW places \in SUBSET Passing, First(places) # Nil
  PROVE  TopicPasses(First(places))
<1>1. places # {} /\ First(places) = Order[Min(places)]
  BY DEF First
<1>2. places \in SUBSET Nat
  BY DEF Passing
<1>3. Min(places) \in Passing
  BY <1>1, <1>2, LeastOfPlaces
<1> QED
  BY <1>1, <1>3 DEF Passing

(* A topic that passes was reviewed whole.                                  *)
LEMMA PassingStands ==
  ASSUME NEW topic, TopicPasses(topic), Shaped(bundle)
  PROVE  Stands(topic)
<1>1. \A c \in Of(topic) : Parsed(c) /\ Evidence(c).complete /\ Evidence(c).failing = {}
  BY DEF TopicPasses, FamilyPasses
<1>2. ASSUME NEW c \in Of(topic) PROVE \A d \in Dimensions : bundle.final[c][d] \in Policy.passing[d]
  <2>1. bundle.status = "complete"
    BY <1>1 DEF Evidence
  <2>2. Evidence(c).failing = {d \in Dimensions : bundle.final[c][d] \notin Policy.passing[d]}
    BY <2>1 DEF Evidence
  <2> QED
    BY <2>2, <1>1
<1> QED
  BY <1>1, <1>2 DEF Stands, Of

(* A topic that passes has cases, so that its evidence is of a review that  *)
(* is complete.                                                             *)
LEMMA PassingIsReviewed ==
  ASSUME PolicyValid, NEW topic, TopicPasses(topic)
  PROVE  bundle.status = "complete"
<1>1. AtLeast(Cardinality({c \in Of(topic) : Parsed(c)}), Cardinality(Of(topic)), Gates.parse)
  BY DEF TopicPasses, FamilyPasses
<1>2. Cardinality(Of(topic)) > 0
  BY <1>1 DEF AtLeast
<1>3. Of(topic) # {}
  BY <1>2, FS_EmptySet
<1>4. \A c \in Of(topic) : Evidence(c).complete
  BY DEF TopicPasses, FamilyPasses
<1> QED
  BY <1>3, <1>4 DEF Evidence

LEMMA DecidedStands ==
  ASSUME PolicyValid, Decide, Shaped(bundle)
  PROVE  /\ selection'.primary # Nil =>
              /\ bundle # Nil /\ bundle.status = "complete" /\ trial.complete
              /\ \A c \in Case : trial.final[c] # Nil => Parsed(c)
              /\ \A topic \in {selection'.primary, selection'.robustness} \ {Nil} : Stands(topic)
<1> SUFFICES ASSUME selection'.primary # Nil
             PROVE  /\ bundle # Nil /\ bundle.status = "complete" /\ trial.complete
                    /\ \A c \in Case : trial.final[c] # Nil => Parsed(c)
                    /\ \A topic \in {selection'.primary, selection'.robustness} \ {Nil} : Stands(topic)
  OBVIOUS
<1> DEFINE later == {i \in Passing : \E j \in Passing : j < i}
<1>1. Status = "complete" /\ selection'.primary = First(Passing) /\ selection'.robustness = First(later)
  BY DEF Decide
<1>2. trial.complete /\ ~\E c \in Case : ReviewLacks(c)
  BY <1>1 DEF Status
<1>3. \A c \in Case : trial.final[c] # Nil => Parsed(c)
  BY <1>2 DEF ReviewLacks
<1>4. TopicPasses(selection'.primary)
  BY <1>1, FirstPasses
<1>5. selection'.robustness # Nil => TopicPasses(selection'.robustness)
  BY <1>1, FirstPasses
<1>6. bundle.status = "complete"
  BY <1>4, PassingIsReviewed
<1>7. bundle # Nil
  BY DEF Decide
<1> QED
  BY <1>2, <1>3, <1>4, <1>5, <1>6, <1>7, PassingStands

-----------------------------------------------------------------------------
(* The invariant                                                            *)

LEMMA ItemsAreCases == Eligible \subseteq Case /\ Sampled \subseteq Eligible
BY DEF Eligible, Sampled

LEMMA ReviewBegins ==
  ASSUME ReviewInit
  PROVE  ReviewInv
BY DEF ReviewInit, ReviewInv, SelectionStands

LEMMA SelectionKeeps ==
  ASSUME SelectionStands, UNCHANGED <<trial, bundle, selection>>
  PROVE  SelectionStands'
BY DEF SelectionStands, Stands, Parsed, Case

LEMMA ReviewGoesOn ==
  ASSUME PolicyValid, ReviewInv, [ReviewNext]_<<trial, bundle, selection>>
  PROVE  ReviewInv'
<1> DEFINE Accepted == bundle # Nil => /\ Shaped(bundle) /\ BundleValid(bundle) /\ bundle.items = Eligible /\ bundle.audited = Sampled
<1>1. Accepted /\ SelectionStands
  BY DEF ReviewInv
<1>2. UNCHANGED trial => UNCHANGED <<Eligible, Sampled>>
  BY DEF Eligible, Sampled, Ahead, Pool, Parsed, Case
<1>3. ASSUME UNCHANGED <<trial, bundle, selection>> PROVE ReviewInv'
  BY <1>1, <1>2, <1>3, SelectionKeeps DEF ReviewInv, Shaped, BundleValid
<1>4. CASE Export
  <2>1. SelectionStands'
    <3>1. ~(selection # Nil /\ selection.primary # Nil)
      BY <1>1, <1>4 DEF SelectionStands, Export
    <3> QED
      BY <3>1, <1>4 DEF SelectionStands, Export
  <2>2. Accepted'
    BY <1>2, <1>4, ExportedIsValid
  <2> QED
    BY <2>1, <2>2 DEF ReviewInv
<1>5. CASE Import
  <2>1. SelectionStands'
    <3>1. ~(selection # Nil /\ selection.primary # Nil)
      BY <1>1, <1>5 DEF SelectionStands, Import
    <3> QED
      BY <3>1, <1>5 DEF SelectionStands, Import
  <2>2. PICK codes \in Submissions(bundle) : bundle' = ImportedFrom(bundle, codes)
    BY <1>5 DEF Import
  <2>3. bundle # Nil /\ bundle.status = "awaiting_codes" /\ UNCHANGED trial
    BY <1>5 DEF Import
  <2>4. bundle.items \subseteq Case /\ bundle.audited \subseteq bundle.items
    BY <2>3, <1>1, ItemsAreCases
  <2>5. /\ Shaped(bundle') /\ BundleValid(bundle')
        /\ bundle'.items = bundle.items /\ bundle'.audited = bundle.audited
    BY <2>2, <2>3, <2>4, <1>1, ImportedIsValid
  <2> QED
    BY <2>1, <2>3, <2>5, <1>1, <1>2 DEF ReviewInv
<1>6. CASE Adjudicate
  <2>1. SelectionStands'
    <3>1. ~(selection # Nil /\ selection.primary # Nil)
      BY <1>1, <1>6 DEF SelectionStands, Adjudicate
    <3> QED
      BY <3>1, <1>6 DEF SelectionStands, Adjudicate
  <2>2. bundle # Nil /\ bundle.status = "adjudication_required" /\ UNCHANGED trial
    BY <1>6 DEF Adjudicate
  <2>3. bundle.items \subseteq Case /\ bundle.audited \subseteq bundle.items
    BY <2>2, <1>1, ItemsAreCases
  <2>4. PICK c \in Disputed(bundle, bundle.codes) \ DOMAIN bundle.adjudications, opinion \in Opinion :
          LET adjudications == [x \in DOMAIN bundle.adjudications \union {c} |-> IF x = c THEN opinion ELSE bundle.adjudications[x]]
              unjudged == Disputed(bundle, bundle.codes) \ DOMAIN adjudications
          IN  bundle' = [bundle EXCEPT !.adjudications = adjudications, !.status = IF unjudged # {} THEN @ ELSE "complete",
                                       !.final = IF unjudged # {} THEN <<>> ELSE FinalLabels(bundle, bundle.codes, adjudications)]
    BY <1>6 DEF Adjudicate
  <2>5. /\ Shaped(bundle') /\ BundleValid(bundle')
        /\ bundle'.items = bundle.items /\ bundle'.audited = bundle.audited
    <3>1. bundle' = Adjudicated(bundle, c, opinion)
      BY <2>4 DEF Adjudicated
    <3> QED
      BY <3>1, <2>2, <2>3, <1>1, AdjudicatedIsValid
  <2> QED
    BY <2>1, <2>2, <2>5, <1>1, <1>2 DEF ReviewInv
<1>7. CASE Decide
  <2>1. bundle # Nil /\ UNCHANGED <<trial, bundle>>
    BY <1>7 DEF Decide
  <2>2. Accepted'
    BY <2>1, <1>1, <1>2
  <2>3. SelectionStands'
    <3>1. Shaped(bundle)
      BY <2>1, <1>1
    <3>2. selection'.primary # Nil =>
            /\ bundle # Nil /\ bundle.status = "complete" /\ trial.complete
            /\ \A c \in Case : trial.final[c] # Nil => Parsed(c)
            /\ \A topic \in {selection'.primary, selection'.robustness} \ {Nil} : Stands(topic)
      BY <3>1, <1>7, DecidedStands
    <3>3. \A topic : Stands(topic) => \A c \in Case : Cases[c].topic = topic => Parsed(c)' /\ \A d \in Dimensions : bundle'.final[c][d] \in Policy.passing[d]
      BY <2>1 DEF Stands, Parsed
    <3>4. \A c : Parsed(c) => Parsed(c)'
      BY <2>1 DEF Parsed
    <3> QED
      BY <3>2, <3>3, <3>4, <2>1 DEF SelectionStands, Stands
  <2> QED
    BY <2>2, <2>3 DEF ReviewInv
<1> QED
  BY <1>3, <1>4, <1>5, <1>6, <1>7 DEF ReviewNext

(* The invariant says of the run and of the labels what the property says   *)
(* of what the coders said.                                                 *)
LEMMA StandingIsEarned ==
  ASSUME PolicyValid, ReviewInv
  PROVE  ProposalIsEarned
<1>1. bundle # Nil => BundleValid(bundle)
  BY DEF ReviewInv
<1>2. SUFFICES ASSUME selection # Nil, selection.primary # Nil
      PROVE  /\ trial.complete
             /\ \A c \in Case : trial.final[c] # Nil =>
                  Parsed(c) /\ \A coder \in Judges \union Humans :
                    (coder \in Judges \/ c \in Sampled) => <<c, coder>> \in DOMAIN bundle.codes /\ bundle.codes[<<c, coder>>] \in Opinion
             /\ AtLeast(Cardinality({x \in Sampled \X Dimensions : Cardinality({o[x[2]] : o \in Said(x[1])}) = 1}),
                        Cardinality(Sampled) * Cardinality(Dimensions), Policy.threshold)
             /\ \A topic \in {selection.primary, selection.robustness} \ {Nil}, c \in Case :
                  Cases[c].topic = topic =>
                    \E o \in Opinion :
                      /\ IF Cardinality(Said(c)) = 1 THEN o \in Said(c) ELSE c \in DOMAIN bundle.adjudications /\ o = bundle.adjudications[c]
                      /\ \A d \in Dimensions : o[d] \in Policy.passing[d]
  BY <1>1 DEF ProposalIsEarned
<1>3. /\ bundle # Nil /\ bundle.status = "complete" /\ trial.complete
      /\ \A c \in Case : trial.final[c] # Nil => Parsed(c)
      /\ \A topic \in {selection.primary, selection.robustness} \ {Nil} : Stands(topic)
  BY <1>2 DEF ReviewInv, SelectionStands
<1>4. /\ Shaped(bundle) /\ BundleValid(bundle) /\ bundle.items = Eligible /\ bundle.audited = Sampled
  BY <1>3 DEF ReviewInv
<1>5. bundle.items \subseteq Case /\ bundle.audited \subseteq bundle.items
  BY <1>4, ItemsAreCases
<1>6. /\ Coded(bundle, bundle.codes) /\ AtLeast(Unanimous(bundle), Compared(bundle), Policy.threshold)
      /\ {c \in bundle.items : Differ(bundle.codes, c) # {}} = DOMAIN bundle.adjudications
      /\ \A c \in bundle.items :
           IF c \in DOMAIN bundle.adjudications THEN bundle.final[c] = bundle.adjudications[c]
           ELSE \A d \in Dimensions : LabelsOn(bundle.codes, c, d) = {bundle.final[c][d]}
  <2>1. Coded(bundle, bundle.codes)
    BY <1>3, <1>4 DEF BundleValid
  <2> QED
    BY <2>1, <1>3, <1>4 DEF BundleValid
<1>7. /\ \A pair \in DOMAIN bundle.codes : bundle.codes[pair] \in Opinion \union {Nil}
      /\ \A c \in DOMAIN bundle.adjudications : bundle.adjudications[c] \in Opinion
  BY <1>4 DEF Shaped
<1>8. ASSUME NEW c \in Case, trial.final[c] # Nil, NEW coder \in Judges \union Humans, coder \in Judges \/ c \in Sampled
      PROVE  <<c, coder>> \in DOMAIN bundle.codes /\ bundle.codes[<<c, coder>>] \in Opinion
  <2>1. c \in bundle.items
    BY <1>3, <1>4, <1>8 DEF Eligible
  <2>2. <<c, coder>> \in Assigned(bundle)
    <3>1. CASE coder \in Judges
      BY <3>1, <2>1 DEF Assigned
    <3>2. CASE coder \in Humans
      <4>1. c \in Sampled
        BY <3>2, <1>8 DEF PolicyValid
      <4> QED
        BY <4>1, <3>2, <1>4 DEF Assigned
    <3> QED
      BY <3>1, <3>2
  <2> QED
    BY <2>2, <1>6, <1>7 DEF Coded
<1>9. AtLeast(Cardinality({x \in Sampled \X Dimensions : Cardinality({o[x[2]] : o \in Said(x[1])}) = 1}),
              Cardinality(Sampled) * Cardinality(Dimensions), Policy.threshold)
  <2>1. Unanimous(bundle) = Agreement(bundle, bundle.codes)
    BY <1>5, <1>6, <1>7, AgreementIsDerivedAgain
  <2>2. \A c, d : {o[d] : o \in Said(c)} = LabelsOn(bundle.codes, c, d)
    BY DEF Said, LabelsOn
  <2>3. {x \in Sampled \X Dimensions : Cardinality({o[x[2]] : o \in Said(x[1])}) = 1} =
        {x \in bundle.audited \X Dimensions : Cardinality(LabelsOn(bundle.codes, x[1], x[2])) = 1}
    BY <2>2, <1>4
  <2> QED
    BY <2>1, <2>3, <1>4, <1>6 DEF Agreement, Compared
<1>10. ASSUME NEW topic \in {selection.primary, selection.robustness} \ {Nil}, NEW c \in Case, Cases[c].topic = topic
       PROVE  \E o \in Opinion :
                /\ IF Cardinality(Said(c)) = 1 THEN o \in Said(c) ELSE c \in DOMAIN bundle.adjudications /\ o = bundle.adjudications[c]
                /\ \A d \in Dimensions : o[d] \in Policy.passing[d]
  <2>1. Parsed(c) /\ \A d \in Dimensions : bundle.final[c][d] \in Policy.passing[d]
    BY <1>3, <1>10 DEF Stands
  <2>2. c \in bundle.items
    BY <2>1, <1>4 DEF Eligible
  <2>3. PICK k : k \in Coders(bundle.codes, c) /\ bundle.codes[<<c, k>>] \in Opinion
    BY <2>2, <1>5, <1>6, <1>7, EveryItemIsCoded
  <2>4. CASE c \in DOMAIN bundle.adjudications
    <3>1. Differ(bundle.codes, c) # {}
      BY <2>4, <1>6
    <3>2. PICK d \in Dimensions : d \in Differ(bundle.codes, c)
      BY <3>1 DEF Differ
    <3>3. Cardinality(Said(c)) # 1
      <4>1. SUFFICES ASSUME Cardinality(Said(c)) = 1 PROVE FALSE
        OBVIOUS
      <4>2. IsFiniteSet(Said(c))
        <5> DEFINE coders == Coders(bundle.codes, c)
                   f == [j \in coders |-> bundle.codes[<<c, j>>]]
        <5>1. f \in Surjection(coders, Said(c))
          BY DEF Surjection, Said
        <5>2. IsFiniteSet(coders)
          BY <2>2, <1>5, <1>6, <1>7, EveryItemIsCoded
        <5> QED
          BY <5>1, <5>2, FS_Surjection
      <4>3. PICK o : Said(c) = {o}
        BY <4>1, <4>2, FS_Singleton
      <4>4. LabelsOn(bundle.codes, c, d) = {o[d]}
        BY <4>3 DEF Said, LabelsOn
      <4> QED
        BY <4>4, <3>2, <2>2, <1>5, <1>6, <1>7, LabelsAreCounted
    <3>4. bundle.final[c] = bundle.adjudications[c] /\ bundle.adjudications[c] \in Opinion
      BY <2>2, <2>4, <1>6, <1>7
    <3> QED
      BY <3>3, <3>4, <2>1, <2>4
  <2>5. CASE c \notin DOMAIN bundle.adjudications
    <3>1. Differ(bundle.codes, c) = {}
      BY <2>2, <2>5, <1>6
    <3>2. Said(c) = {bundle.codes[<<c, k>>]}
      <4>1. \A j \in Coders(bundle.codes, c) : bundle.codes[<<c, j>>] = bundle.codes[<<c, k>>]
        BY <3>1, <2>2, <2>3, <1>5, <1>6, <1>7, OneOpinion
      <4> QED
        BY <4>1, <2>3 DEF Said
    <3>3. Cardinality(Said(c)) = 1
      BY <3>2, FS_Singleton
    <3>4. ASSUME NEW d \in Dimensions PROVE bundle.codes[<<c, k>>][d] = bundle.final[c][d]
      <4>1. LabelsOn(bundle.codes, c, d) = {bundle.codes[<<c, k>>][d]}
        BY <3>1, <2>2, <2>3, <1>5, <1>6, <1>7, OneOpinion
      <4>2. LabelsOn(bundle.codes, c, d) = {bundle.final[c][d]}
        BY <2>2, <2>5, <1>6
      <4> QED
        BY <4>1, <4>2
    <3> QED
      BY <3>2, <3>3, <3>4, <2>1, <2>3
  <2> QED
    BY <2>4, <2>5
<1> QED
  BY <1>3, <1>8, <1>9, <1>10

(* A topic is proposed on full evidence only, and what the steps of the     *)
(* review derive their constructor derives again (review.py, gates.py).     *)
THEOREM ReviewProposesEarned ==
  ASSUME PolicyValid
  PROVE  ReviewSpec => []ProposalIsEarned
<1>1. ReviewInit => ReviewInv
  BY ReviewBegins
<1>2. ReviewInv /\ [ReviewNext]_<<trial, bundle, selection>> => ReviewInv'
  BY ReviewGoesOn
<1>3. ReviewInv => ProposalIsEarned
  BY StandingIsEarned
<1> QED
  BY <1>1, <1>2, <1>3, PTL DEF ReviewSpec

=============================================================================
