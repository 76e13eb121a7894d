-------------------------- MODULE CloudProbe_proofs --------------------------
(***************************************************************************)
(* Proofs, for any number of cases, any policy and any budgets, of what    *)
(* TLC checks of two cases: no request reaches the provider twice, the     *)
(* budgets hold over the life of the run, what is durable replays, and     *)
(* nothing follows the terminal marker.                                    *)
(***************************************************************************)
EXTENDS CloudProbe, FiniteSetTheorems, TLAPS

Status == Open \union Decided \union {"runtime_failed"}

Attempts ==
  [case : Case, index : Nat, kind : Kind, origin : Nat, result : Result, ordinal : Nat,
   status : Status]

Requests == [case : Case, index : Nat, kind : Kind, origin : Nat]

Hits(chain, results) == {k \in DOMAIN chain : chain[k].result \in results}

TypeOK ==
  /\ stored \in [Case -> Seq(Attempts)]
  /\ intents \subseteq Requests /\ resolved \subseteq Requests
  /\ terminal \in {None, "complete", "incomplete"} /\ sealed \in BOOLEAN
  /\ sent \in Seq(Requests)
  /\ view \in [Case -> Seq(Attempts)]
  /\ answer \in {None} \union Requests \union Attempts
  /\ pc \in {"idle", "reconcile", "loop", "send", "wait", "persist", "resolve", "finish", "sealing"}
  /\ added \in BOOLEAN /\ lowDisk \in BOOLEAN /\ faults \in Nat

(* What an open case may still do: one more error of any code, one more      *)
(* text, and two if its question was never answered.                         *)
CountsFit(chain) ==
  /\ \A code \in Code :
       /\ Consumed(chain, code) <= Budget[code]
       /\ StatusOf(chain) \in Open => Consumed(chain, code) < Budget[code]
  /\ LET texts == Cardinality(Hits(chain, Text)) IN
       /\ texts <= 2
       /\ StatusOf(chain) \in Open => texts <= 1
       /\ StatusOf(chain) \in Open /\ NextKind(chain) = "semantic" => texts = 0

ChainOK(chain, c) ==
  /\ chain \in Seq(Attempts)
  /\ \A k \in DOMAIN chain : chain[k].case = c
  /\ ChainReplays(chain)
  /\ CountsFit(chain)

StoredInv ==
  /\ \A c \in Case : ChainOK(stored[c], c)
  /\ IsFiniteSet(Places(stored)) /\ Total(stored) <= TotalBudget

(* A command that works on the run holds what is durable, and no marker.     *)
WorkingInv ==
  pc \in {"loop", "send", "wait", "persist", "resolve", "finish"} =>
    view = stored /\ terminal = None

NextRequest(c) ==
  LET kind == NextKind(stored[c])
  IN [case |-> c, index |-> Len(stored[c]) + 1, kind |-> kind, origin |-> Origin(stored[c], kind)]

JournalInv ==
  /\ Answered \subseteq intents
  /\ Range(sent) \subseteq intents
  /\ IsInjective(sent)
  /\ pc = "loop" => intents \subseteq Answered

AskedInv ==
  /\ pc \in {"send", "wait", "persist"} =>
       /\ Total(stored) < TotalBudget
       /\ \E c \in Case :
            /\ StatusOf(stored[c]) \in Open
            /\ NextRequest(c) \in intents
            /\ pc \in {"send", "wait"} => answer = NextRequest(c)
            /\ pc = "persist" => \E result \in Result : answer = MakeAttempt(stored[c], c, result)
  /\ pc = "send" => answer \notin Range(sent)

ProbeInv == TypeOK /\ StoredInv /\ WorkingInv /\ JournalInv /\ AskedInv

-----------------------------------------------------------------------------
(* Chains of attempts                                                        *)

LEMMA Disjoint == \A code \in Code : code \notin Text /\ Budget[code] \in Nat \ {0}
BY CodesAreNotTexts, PolicyAssumption

LEMMA HitsAreFinite ==
  ASSUME NEW chain \in Seq(Attempts), NEW results
  PROVE  /\ Hits(chain, results) \subseteq 1 .. Len(chain)
         /\ IsFiniteSet(Hits(chain, results))
         /\ Cardinality(Hits(chain, results)) \in Nat
<1>1. Hits(chain, results) \subseteq 1 .. Len(chain)
  BY DEF Hits
<1>2. IsFiniteSet(1 .. Len(chain))
  BY FS_Interval
<1> QED
  BY <1>1, <1>2, FS_Subset, FS_CardinalityType

(* One attempt more is one hit more, or none.                                *)
LEMMA AppendHits ==
  ASSUME NEW chain \in Seq(Attempts), NEW a \in Attempts, NEW results
  PROVE  Cardinality(Hits(Append(chain, a), results)) =
           IF a.result \in results THEN Cardinality(Hits(chain, results)) + 1
                                   ELSE Cardinality(Hits(chain, results))
<1> DEFINE longer == Append(chain, a)
           k == Len(chain) + 1
<1>0. /\ Len(chain) \in Nat /\ DOMAIN chain = 1 .. Len(chain) /\ DOMAIN longer = 1 .. k
      /\ longer[k] = a /\ \A i \in DOMAIN chain : longer[i] = chain[i]
  OBVIOUS
<1>1. CASE a.result \in results
  <2>1. Hits(longer, results) = Hits(chain, results) \union {k}
    BY <1>0, <1>1 DEF Hits
  <2>2. k \notin Hits(chain, results)
    BY <1>0 DEF Hits
  <2> QED
    BY <1>1, <2>1, <2>2, HitsAreFinite, FS_AddElement
<1>2. CASE a.result \notin results
  <2>1. Hits(longer, results) = Hits(chain, results)
    BY <1>0, <1>2 DEF Hits
  <2> QED
    BY <1>2, <2>1
<1> QED
  BY <1>1, <1>2

LEMMA ConsumedHits ==
  \A chain, code : Consumed(chain, code) = Cardinality(Hits(chain, {code}))
<1> SUFFICES ASSUME NEW chain, NEW code
             PROVE  Consumed(chain, code) = Cardinality(Hits(chain, {code}))
  OBVIOUS
<1>1. Hits(chain, {code}) = {k \in DOMAIN chain : chain[k].result = code}
  BY DEF Hits
<1> QED
  BY <1>1 DEF Consumed

(* The end of a chain that replays.                                          *)
LEMMA LastReplays ==
  ASSUME NEW chain \in Seq(Attempts), ChainReplays(chain), chain # <<>>
  PROVE  /\ Len(chain) \in Nat \ {0} /\ Len(chain) \in DOMAIN chain
         /\ Last(chain) = chain[Len(chain)] /\ Last(chain) \in Attempts
         /\ StatusOf(chain) = Last(chain).status
         /\ AttemptValid(Last(chain))
         /\ RequestFits(Last(chain), SubSeq(chain, 1, Len(chain) - 1))
<1>1. Len(chain) \in Nat \ {0} /\ Len(chain) \in DOMAIN chain
  OBVIOUS
<1>2. Last(chain) = chain[Len(chain)] /\ StatusOf(chain) = Last(chain).status
  BY DEF Last, StatusOf
<1>3. chain[Len(chain)] \in Attempts
  BY <1>1
<1>4. AttemptValid(chain[Len(chain)])
      /\ ReplaysAfter(chain[Len(chain)], SubSeq(chain, 1, Len(chain) - 1))
  BY <1>1 DEF ChainReplays
<1> QED
  BY <1>1, <1>2, <1>3, <1>4 DEF ReplaysAfter

(* What the statuses of an open case say of its last attempt.                *)
LEMMA OpenCase ==
  ASSUME NEW chain \in Seq(Attempts), ChainReplays(chain), StatusOf(chain) \in Open
  PROVE  \/ StatusOf(chain) = "unstarted" /\ chain = <<>>
         \/ /\ chain # <<>> /\ StatusOf(chain) = "format_pending"
            /\ Last(chain).kind = "semantic" /\ Last(chain).result = "malformed"
         \/ /\ chain # <<>> /\ StatusOf(chain) = "pending"
            /\ Last(chain).kind \in Kind /\ Last(chain).result \in Code
<1>1. CASE chain = <<>>
  BY <1>1 DEF StatusOf
<1>2. CASE chain # <<>>
  BY <1>2, LastReplays, CodesAreNotTexts DEF AttemptValid, Open, Result, Text
<1> QED
  BY <1>1, <1>2

(* What is asked next of an open case.                                       *)
LEMMA NextKindIs ==
  \A chain :
    /\ StatusOf(chain) = "unstarted" => NextKind(chain) = "semantic"
    /\ StatusOf(chain) = "format_pending" => NextKind(chain) = "format_repair"
    /\ StatusOf(chain) = "pending" => NextKind(chain) = Last(chain).kind
BY DEF NextKind

LEMMA StatusAfterIs ==
  ASSUME NEW kind \in Kind, NEW ordinal \in Nat
  PROVE  /\ StatusAfter(kind, "parsed", ordinal) = "parsed"
         /\ StatusAfter(kind, "refusal", ordinal) = "refused"
         /\ StatusAfter(kind, "malformed", ordinal)
              = IF kind = "semantic" THEN "format_pending" ELSE "parse_failed"
         /\ \A code \in Code :
              StatusAfter(kind, code, ordinal)
                = IF MayRetry(code, ordinal) THEN "pending" ELSE "runtime_failed"
<1>1. \A code \in Code : code # "parsed" /\ code # "refusal" /\ code # "malformed"
  BY CodesAreNotTexts DEF Text
<1> QED
  BY <1>1 DEF StatusAfter

(* The request the runner derives from an open case is the one the           *)
(* projection accepts after it.                                              *)
LEMMA RequestIsAccepted ==
  ASSUME NEW chain \in Seq(Attempts), ChainReplays(chain), StatusOf(chain) \in Open,
         NEW a, a.kind = NextKind(chain), a.origin = Origin(chain, a.kind)
  PROVE  /\ a.kind \in Kind /\ a.origin \in Nat
         /\ chain # <<>> /\ Last(chain).status = "format_pending" => a.kind = "format_repair"
         /\ chain # <<>> /\ Last(chain).status = "pending" => a.kind = Last(chain).kind
         /\ chain = <<>> => a.kind = "semantic"
         /\ RequestFits(a, chain)
<1>1. CASE chain = <<>>
  <2>1. StatusOf(chain) = "unstarted"
    BY <1>1 DEF StatusOf
  <2> QED
    BY <1>1, <2>1, NextKindIs DEF Kind, Origin, RequestFits
<1>2. CASE chain # <<>> /\ StatusOf(chain) = "format_pending"
  <2>1. /\ a.kind = "format_repair" /\ a.origin = Len(chain)
        /\ Last(chain).kind = "semantic" /\ Last(chain).status = "format_pending"
    BY <1>2, OpenCase, NextKindIs, LastReplays DEF Origin
  <2> QED
    BY <1>2, <2>1, LastReplays DEF Kind, RequestFits
<1>3. CASE chain # <<>> /\ StatusOf(chain) = "pending" /\ Last(chain).kind = "semantic"
  <2>1. a.kind = "semantic" /\ a.origin = 0 /\ Last(chain).status = "pending"
    BY <1>3, NextKindIs, LastReplays DEF Origin
  <2> QED
    BY <1>3, <2>1 DEF Kind, RequestFits
<1>4. CASE chain # <<>> /\ StatusOf(chain) = "pending" /\ Last(chain).kind = "format_repair"
  <2> DEFINE before == SubSeq(chain, 1, Len(chain) - 1)
  <2>1. /\ a.kind = "format_repair" /\ Last(chain).status = "pending"
        /\ a.origin = Last(chain).origin
    BY <1>4, NextKindIs, LastReplays DEF Origin
  <2>2. RequestFits(Last(chain), before) /\ Len(chain) \in Nat \ {0}
    BY <1>4, LastReplays
  <2>3. /\ a.origin \in DOMAIN before
        /\ before[a.origin].kind = "semantic" /\ before[a.origin].status = "format_pending"
    BY <1>4, <2>1, <2>2 DEF RequestFits
  <2>4. a.origin \in DOMAIN chain /\ before[a.origin] = chain[a.origin]
    BY <2>2, <2>3
  <2> QED
    BY <1>4, <2>1, <2>3, <2>4 DEF Kind, RequestFits
<1> QED
  BY <1>1, <1>2, <1>3, <1>4, OpenCase DEF Kind

(* The runner's answer to an open case is an attempt the projection accepts. *)
LEMMA AnswerIsAccepted ==
  ASSUME NEW c \in Case, NEW chain \in Seq(Attempts), ChainReplays(chain),
         StatusOf(chain) \in Open, NEW result \in Result
  PROVE  /\ MakeAttempt(chain, c, result) \in Attempts
         /\ MakeAttempt(chain, c, result).case = c
         /\ AttemptValid(MakeAttempt(chain, c, result))
         /\ ReplaysAfter(MakeAttempt(chain, c, result), chain)
<1> DEFINE a == MakeAttempt(chain, c, result)
<1>1. /\ a.case = c /\ a.index = Len(chain) + 1 /\ a.kind = NextKind(chain)
      /\ a.origin = Origin(chain, a.kind) /\ a.result = result
      /\ a.ordinal = (IF result \in Code THEN Consumed(chain, result) + 1 ELSE 0)
      /\ a.status = StatusAfter(a.kind, result, a.ordinal)
      /\ a = [case |-> a.case, index |-> a.index, kind |-> a.kind, origin |-> a.origin,
              result |-> a.result, ordinal |-> a.ordinal, status |-> a.status]
  BY DEF MakeAttempt
<1> HIDE DEF a
<1>2. /\ a.kind \in Kind /\ a.origin \in Nat
      /\ chain # <<>> /\ Last(chain).status = "format_pending" => a.kind = "format_repair"
      /\ chain # <<>> /\ Last(chain).status = "pending" => a.kind = Last(chain).kind
      /\ chain = <<>> => a.kind = "semantic"
      /\ RequestFits(a, chain)
  BY <1>1, RequestIsAccepted
<1>3. Len(chain) \in Nat /\ a.index \in Nat /\ a.index >= 1
  BY <1>1
<1>4. result \in Code => Consumed(chain, result) \in Nat
  BY ConsumedHits, HitsAreFinite
<1>5. a.ordinal \in Nat /\ (a.ordinal >= 1 <=> result \in Code)
  BY <1>1, <1>4
<1>6. /\ result = "parsed" => a.status = "parsed"
      /\ result = "refusal" => a.status = "refused"
      /\ result = "malformed" =>
           a.status = IF a.kind = "semantic" THEN "format_pending" ELSE "parse_failed"
      /\ result \in Code =>
           a.status = IF MayRetry(result, a.ordinal) THEN "pending" ELSE "runtime_failed"
  BY <1>1, <1>2, <1>5, StatusAfterIs
<1>7. result \in Code \/ result = "parsed" \/ result = "refusal" \/ result = "malformed"
  BY DEF Result, Text
<1>8. result \in Code => result # "parsed" /\ result # "refusal" /\ result # "malformed"
  BY CodesAreNotTexts DEF Text
<1>9. a \in Attempts
  <2>1. a.status \in Status
    BY <1>6, <1>7 DEF Status, Open, Decided
  <2> QED
    BY <1>1, <1>2, <1>3, <1>5, <2>1 DEF Attempts
<1>10. AttemptValid(a)
  <2>1. result \in Code =>
          (MayRetry(result, a.ordinal) <=> ~(a.ordinal >= Budget[result] \/ result \notin Retryable))
    BY <1>5, Disjoint DEF MayRetry
  <2>2. a.kind = "semantic" \/ a.kind # "semantic"
    OBVIOUS
  <2>3. CASE result = "parsed"
    BY <1>1, <1>2, <1>3, <1>5, <1>6, <2>3 DEF AttemptValid
  <2>4. CASE result = "refusal"
    BY <1>1, <1>2, <1>3, <1>5, <1>6, <2>4 DEF AttemptValid
  <2>5. CASE result = "malformed"
    BY <1>1, <1>2, <1>3, <1>5, <1>6, <2>5 DEF AttemptValid
  <2>6. CASE result \in Code
    BY <1>1, <1>2, <1>3, <1>5, <1>6, <1>8, <2>1, <2>6 DEF AttemptValid
  <2> QED
    BY <1>7, <2>3, <2>4, <2>5, <2>6
<1>11. ReplaysAfter(a, chain)
  <2>1. result \in Code =>
          a.ordinal = Cardinality({k \in DOMAIN chain : chain[k].result = a.result}) + 1
    BY <1>1 DEF Consumed
  <2>2. result \in Code =>
          /\ a.status = "pending" <=> result \in Retryable /\ a.ordinal < Budget[result]
          /\ a.status \in {"pending", "runtime_failed"}
    BY <1>6 DEF MayRetry
  <2>3. result = "malformed" =>
          a.status = IF a.kind = "semantic" THEN "format_pending" ELSE "parse_failed"
    BY <1>6
  <2> QED
    BY <1>1, <1>2, <2>1, <2>2, <2>3 DEF ReplaysAfter
<1> QED
  BY <1>1, <1>9, <1>10, <1>11 DEF a

(* So the chain it makes replays.                                            *)
LEMMA LongerChainReplays ==
  ASSUME NEW chain \in Seq(Attempts), ChainReplays(chain), NEW a \in Attempts,
         AttemptValid(a), ReplaysAfter(a, chain)
  PROVE  ChainReplays(Append(chain, a))
<1> DEFINE longer == Append(chain, a)
<1>1. /\ Len(chain) \in Nat /\ DOMAIN chain = 1 .. Len(chain)
      /\ DOMAIN longer = 1 .. Len(chain) + 1 /\ longer[Len(chain) + 1] = a
      /\ \A i \in DOMAIN chain : longer[i] = chain[i]
  OBVIOUS
<1> SUFFICES ASSUME NEW k \in DOMAIN longer
             PROVE  AttemptValid(longer[k]) /\ ReplaysAfter(longer[k], SubSeq(longer, 1, k - 1))
  BY DEF ChainReplays
<1>2. CASE k = Len(chain) + 1
  <2>1. SubSeq(longer, 1, k - 1) = chain
    BY <1>1, <1>2
  <2> QED
    BY <1>1, <1>2, <2>1
<1>3. CASE k \in DOMAIN chain
  <2>1. SubSeq(longer, 1, k - 1) = SubSeq(chain, 1, k - 1)
    BY <1>1, <1>3
  <2> QED
    BY <1>1, <1>3, <2>1 DEF ChainReplays
<1> QED
  BY <1>1, <1>2, <1>3

(* And it stays within the budgets of its case.                              *)
LEMMA LongerChainFits ==
  ASSUME NEW c \in Case, NEW chain \in Seq(Attempts), ChainReplays(chain), CountsFit(chain),
         StatusOf(chain) \in Open, NEW result \in Result
  PROVE  CountsFit(Append(chain, MakeAttempt(chain, c, result)))
<1> DEFINE a == MakeAttempt(chain, c, result)
           longer == Append(chain, a)
<1>1. /\ a \in Attempts /\ a.kind = NextKind(chain) /\ a.result = result
      /\ a.ordinal = (IF result \in Code THEN Consumed(chain, result) + 1 ELSE 0)
      /\ a.status = StatusAfter(a.kind, result, a.ordinal)
  <2>1. a \in Attempts
    BY AnswerIsAccepted
  <2> QED
    BY <2>1 DEF MakeAttempt
<1> HIDE DEF a
<1>2. a.kind \in Kind /\ a.ordinal \in Nat
  BY <1>1 DEF Attempts
<1>3. /\ result = "parsed" => a.status = "parsed"
      /\ result = "refusal" => a.status = "refused"
      /\ result = "malformed" =>
           a.status = IF a.kind = "semantic" THEN "format_pending" ELSE "parse_failed"
      /\ result \in Code =>
           a.status = IF MayRetry(result, a.ordinal) THEN "pending" ELSE "runtime_failed"
  BY <1>1, <1>2, StatusAfterIs
<1>4. /\ StatusOf(longer) = a.status
      /\ a.status = "format_pending" => NextKind(longer) = "format_repair"
      /\ a.status = "pending" => NextKind(longer) = a.kind
  <2>1. longer # <<>> /\ Last(longer) = a
    BY <1>1 DEF Last
  <2>2. StatusOf(longer) = a.status
    BY <2>1 DEF StatusOf
  <2> QED
    BY <2>1, <2>2, NextKindIs
<1>5. ASSUME NEW code \in Code
      PROVE  /\ Consumed(longer, code) <= Budget[code]
             /\ StatusOf(longer) \in Open => Consumed(longer, code) < Budget[code]
  <2>1. Consumed(chain, code) \in Nat /\ Consumed(chain, code) < Budget[code]
    BY ConsumedHits, HitsAreFinite DEF CountsFit
  <2>2. Consumed(longer, code) = IF result = code THEN Consumed(chain, code) + 1
                                                  ELSE Consumed(chain, code)
    BY <1>1, ConsumedHits, AppendHits
  <2>3. CASE result = code
    <3>1. a.status \in Open => a.ordinal < Budget[code]
      BY <1>3, <2>3 DEF MayRetry, Open
    <3> QED
      BY <1>1, <1>4, <2>1, <2>2, <2>3, <3>1, Disjoint
  <2>4. CASE result # code
    BY <2>1, <2>2, <2>4, Disjoint
  <2> QED
    BY <2>3, <2>4
<1> DEFINE texts(s) == Cardinality(Hits(s, Text))
<1>6. /\ texts(chain) \in Nat /\ texts(chain) <= 1
      /\ NextKind(chain) = "semantic" => texts(chain) = 0
  BY HitsAreFinite DEF CountsFit
<1>7. texts(longer) = IF result \in Text THEN texts(chain) + 1 ELSE texts(chain)
  BY <1>1, AppendHits
<1> HIDE DEF texts
<1>8. /\ texts(longer) <= 2
      /\ StatusOf(longer) \in Open => texts(longer) <= 1
      /\ StatusOf(longer) \in Open /\ NextKind(longer) = "semantic" => texts(longer) = 0
  <2>1. CASE result \in Text
    <3>1. a.status \in Open => a.status = "format_pending" /\ a.kind = "semantic"
      BY <1>3, <2>1 DEF Text, Open
    <3> QED
      BY <1>1, <1>4, <1>6, <1>7, <2>1, <3>1
  <2>2. CASE result \in Code
    <3>1. result \notin Text
      BY <2>2, CodesAreNotTexts
    <3>2. a.status \in Open => a.status = "pending"
      BY <1>3, <2>2 DEF Open
    <3> QED
      BY <1>1, <1>4, <1>6, <1>7, <3>1, <3>2
  <2> QED
    BY <2>1, <2>2 DEF Result
<1> QED
  BY <1>5, <1>8 DEF CountsFit, texts, a

LEMMA LongerChainOK ==
  ASSUME NEW c \in Case, NEW chain, ChainOK(chain, c), StatusOf(chain) \in Open,
         NEW result \in Result
  PROVE  /\ MakeAttempt(chain, c, result) \in Attempts
         /\ MakeAttempt(chain, c, result).case = c
         /\ ChainOK(Append(chain, MakeAttempt(chain, c, result)), c)
<1> DEFINE a == MakeAttempt(chain, c, result)
           longer == Append(chain, a)
<1>1. chain \in Seq(Attempts) /\ ChainReplays(chain) /\ CountsFit(chain)
  BY DEF ChainOK
<1>2. a \in Attempts /\ a.case = c /\ AttemptValid(a) /\ ReplaysAfter(a, chain)
  BY <1>1, AnswerIsAccepted
<1>3. CountsFit(longer)
  BY <1>1, LongerChainFits
<1> HIDE DEF a
<1>4. longer \in Seq(Attempts)
  BY <1>1, <1>2
<1>5. ChainReplays(longer)
  BY <1>1, <1>2, LongerChainReplays
<1>6. \A k \in DOMAIN longer : longer[k].case = c
  <2>1. \A k \in DOMAIN chain : chain[k].case = c
    BY DEF ChainOK
  <2> QED
    BY <1>1, <1>2, <2>1
<1> QED
  BY <1>2, <1>3, <1>4, <1>5, <1>6 DEF ChainOK, a

-----------------------------------------------------------------------------
(* The durable attempts                                                      *)

(* One more attempt takes one more place.                                    *)
LEMMA LongerTotal ==
  ASSUME NEW attempts \in [Case -> Seq(Attempts)], IsFiniteSet(Places(attempts)),
         NEW a \in Attempts
  PROVE  /\ WithAttempt(attempts, a) \in [Case -> Seq(Attempts)]
         /\ Places(WithAttempt(attempts, a))
              = Places(attempts) \union {<<a.case, Len(attempts[a.case]) + 1>>}
         /\ IsFiniteSet(Places(WithAttempt(attempts, a)))
         /\ Total(attempts) \in Nat
         /\ Total(WithAttempt(attempts, a)) = Total(attempts) + 1
<1> DEFINE c == a.case
           k == Len(attempts[c]) + 1
           more == WithAttempt(attempts, a)
<1>1. c \in Case /\ attempts[c] \in Seq(Attempts)
  BY DEF Attempts
<1>2. /\ more \in [Case -> Seq(Attempts)] /\ more[c] = Append(attempts[c], a)
      /\ \A d \in Case : d # c => more[d] = attempts[d]
  BY <1>1 DEF WithAttempt
<1>3. DOMAIN attempts[c] = 1 .. Len(attempts[c]) /\ DOMAIN more[c] = 1 .. k
      /\ Len(attempts[c]) \in Nat
  BY <1>1, <1>2
<1> HIDE DEF more
<1>4. DOMAIN more[c] = DOMAIN attempts[c] \union {k} /\ k \notin DOMAIN attempts[c]
  BY <1>3
<1>5. Places(more) = Places(attempts) \union {<<c, k>>}
  <2>1. \A p : p \in Places(more) <=> \E d \in Case : p \in {d} \X DOMAIN more[d]
    BY DEF Places
  <2>2. \A p : p \in Places(attempts) <=> \E d \in Case : p \in {d} \X DOMAIN attempts[d]
    BY DEF Places
  <2>3. ASSUME NEW p \in Places(more) PROVE p \in Places(attempts) \union {<<c, k>>}
    <3>1. PICK d \in Case : p \in {d} \X DOMAIN more[d]
      BY <2>1
    <3>2. CASE d = c
      BY <1>4, <2>2, <3>1, <3>2
    <3>3. CASE d # c
      BY <1>2, <2>2, <3>1, <3>3
    <3> QED
      BY <3>2, <3>3
  <2>4. ASSUME NEW p \in Places(attempts) PROVE p \in Places(more)
    <3>1. PICK d \in Case : p \in {d} \X DOMAIN attempts[d]
      BY <2>2
    <3>2. DOMAIN attempts[d] \subseteq DOMAIN more[d]
      BY <1>2, <1>4
    <3>3. p \in {d} \X DOMAIN more[d]
      BY <3>1, <3>2
    <3> QED
      BY <2>1, <3>3
  <2>5. <<c, k>> \in Places(more)
    <3>1. <<c, k>> \in {c} \X DOMAIN more[c]
      BY <1>4
    <3> QED
      BY <1>1, <2>1, <3>1
  <2> QED
    BY <2>3, <2>4, <2>5
<1>6. <<c, k>> \notin Places(attempts)
  BY <1>4 DEF Places
<1>7. /\ IsFiniteSet(Places(more))
      /\ Cardinality(Places(attempts)) \in Nat
      /\ Cardinality(Places(more)) = Cardinality(Places(attempts)) + 1
  BY <1>5, <1>6, FS_AddElement, FS_CardinalityType
<1>8. Total(attempts) \in Nat /\ Total(more) = Total(attempts) + 1
  BY <1>7 DEF Total
<1> QED
  BY <1>2, <1>5, <1>7, <1>8 DEF more

-----------------------------------------------------------------------------
(* The invariant is inductive                                                *)

LEMMA InitInv == Init => ProbeInv
<1> SUFFICES ASSUME Init PROVE ProbeInv
  OBVIOUS
<1>1. stored = NoAttempts /\ sent = <<>> /\ intents = {} /\ pc = "reconcile"
  BY DEF Init
<1>2. /\ stored \in [Case -> Seq(Attempts)] /\ \A c \in Case : stored[c] = <<>>
  BY <1>1 DEF NoAttempts
<1>3. TypeOK
  <2>1. view \in [Case -> Seq(Attempts)]
    BY <1>1, <1>2 DEF Init
  <2>2. sent \in Seq(Requests)
    BY <1>1
  <2> QED
    BY <1>1, <1>2, <2>1, <2>2 DEF Init, TypeOK
<1>4. ASSUME NEW c \in Case PROVE ChainOK(stored[c], c)
  <2>1. \A results : Hits(<<>>, results) = {}
    BY DEF Hits
  <2>2. \A results : Cardinality(Hits(<<>>, results)) = 0
    BY <2>1, FS_EmptySet
  <2>3. CountsFit(<<>>)
    <3>1. ASSUME NEW code \in Code PROVE Consumed(<<>>, code) = 0 /\ 0 < Budget[code]
      <4>1. Consumed(<<>>, code) = 0
        BY <2>2, ConsumedHits
      <4>2. Budget[code] \in Nat \ {0}
        BY Disjoint
      <4> QED
        BY <4>1, <4>2
    <3>2. Cardinality(Hits(<<>>, Text)) = 0
      BY <2>2
    <3>3. \A code \in Code : Budget[code] \in Nat
      BY Disjoint
    <3> QED
      BY <3>1, <3>2, <3>3 DEF CountsFit
  <2>4. ChainReplays(<<>>)
    BY DEF ChainReplays
  <2> QED
    BY <1>2, <2>3, <2>4 DEF ChainOK
<1>5. Places(stored) = {}
  BY <1>2 DEF Places
<1>6. StoredInv
  BY <1>4, <1>5, FS_EmptySet, BudgetAssumption DEF StoredInv, Total
<1>7. JournalInv
  BY <1>1, <1>5 DEF JournalInv, Answered, Range, IsInjective
<1> QED
  BY <1>1, <1>3, <1>6, <1>7 DEF ProbeInv, WorkingInv, AskedInv

(* The request derived from an open case is one of Requests, and is none     *)
(* that has been answered: it is numbered after all of its case.             *)
LEMMA NextRequestIsNew ==
  ASSUME ProbeInv, NEW c \in Case, StatusOf(stored[c]) \in Open
  PROVE  NextRequest(c) \in Requests /\ NextRequest(c) \notin Answered
<1>1. stored[c] \in Seq(Attempts) /\ ChainReplays(stored[c])
      /\ \A k \in DOMAIN stored[c] : stored[c][k].case = c
  BY DEF ProbeInv, StoredInv, ChainOK
<1> DEFINE kind == NextKind(stored[c])
<1>2. NextRequest(c) = [case |-> c, index |-> Len(stored[c]) + 1, kind |-> kind,
                        origin |-> Origin(stored[c], kind)]
  BY DEF NextRequest
<1>3. kind \in Kind /\ Origin(stored[c], kind) \in Nat
  <2> DEFINE a == [kind |-> kind, origin |-> Origin(stored[c], kind)]
  <2>1. a.kind = kind /\ a.origin = Origin(stored[c], a.kind)
    OBVIOUS
  <2> HIDE DEF a
  <2>2. a.kind \in Kind /\ a.origin \in Nat
    BY <1>1, <2>1, RequestIsAccepted
  <2> QED
    BY <2>1, <2>2
<1> HIDE DEF kind
<1>4. NextRequest(c) \in Requests
  BY <1>1, <1>2, <1>3 DEF Requests
<1>5. ASSUME NextRequest(c) \in Answered PROVE FALSE
  <2>1. PICK at \in Places(stored) : NextRequest(c) = Request(stored[at[1]][at[2]])
    BY <1>5 DEF Answered
  <2>2. PICK d \in Case : at \in {d} \X DOMAIN stored[d]
    BY DEF Places
  <2>3. at[1] = d /\ at[2] \in DOMAIN stored[d]
    BY <2>2
  <2> DEFINE k == at[2]
  <2>4. stored[d][k].case = c /\ stored[d][k].index = Len(stored[c]) + 1
    BY <1>2, <2>1, <2>3 DEF Request
  <2>5. d = c
    BY <2>3, <2>4 DEF ProbeInv, StoredInv, ChainOK
  <2>6. stored[c][k].index = Len(SubSeq(stored[c], 1, k - 1)) + 1
    BY <1>1, <2>3, <2>5 DEF ChainReplays, ReplaysAfter
  <2>7. Len(SubSeq(stored[c], 1, k - 1)) = k - 1 /\ k \in 1 .. Len(stored[c])
    BY <1>1, <2>3, <2>5
  <2> QED
    BY <1>1, <2>4, <2>5, <2>6, <2>7
<1> QED
  BY <1>4, <1>5

(* An attempt carries the request it answers.                                *)
LEMMA AnswerCarriesRequest ==
  ASSUME NEW c \in Case, NEW result
  PROVE  Request(MakeAttempt(stored[c], c, result)) = NextRequest(c)
BY DEF Request, MakeAttempt, NextRequest

(* A step that writes neither attempts nor intents and sends nothing.        *)
LEMMA QuietStep ==
  ASSUME ProbeInv, TypeOK', UNCHANGED <<stored, intents, sent>>,
         pc' \notin {"send", "wait", "persist"},
         pc' \in {"loop", "resolve", "finish"} => view' = stored /\ terminal' = None,
         pc' = "loop" => intents \subseteq Answered
  PROVE  ProbeInv'
<1>1. StoredInv'
  BY DEF ProbeInv, StoredInv, ChainOK, CountsFit, Total, Places
<1>2. Answered' = Answered
  BY DEF Answered, Places
<1>3. JournalInv'
  BY <1>2 DEF ProbeInv, JournalInv
<1>4. WorkingInv'
  BY DEF WorkingInv
<1>5. AskedInv'
  BY DEF AskedInv
<1> QED
  BY <1>1, <1>3, <1>4, <1>5 DEF ProbeInv

LEMMA TypeKept == ProbeInv /\ [Next]_vars => TypeOK'
<1> SUFFICES ASSUME ProbeInv, [Next]_vars PROVE TypeOK'
  OBVIOUS
<1>0. TypeOK
  BY DEF ProbeInv
<1> USE DEF TypeOK, journal
<1>1. CASE UNCHANGED vars
  BY <1>0, <1>1 DEF vars
<1>2. CASE Resolve
  <2>1. PICK r \in Unmarked : r \in intents /\ resolved' = resolved \union {r}
    BY <1>2 DEF Resolve
  <2> QED
    BY <1>0, <1>2, <2>1 DEF Resolve
<1>3. ASSUME Refuse \/ IsTerminal \/ Irreversible \/ Finish \/ Seal \/ Die PROVE TypeOK'
  <2>1. NoAttempts \in [Case -> Seq(Attempts)]
    BY DEF NoAttempts
  <2>2. /\ UNCHANGED <<stored, intents, resolved, sent, lowDisk>>
        /\ pc' = "idle" /\ view' = NoAttempts /\ answer' = None /\ added' = FALSE
    BY <1>3 DEF Refuse, IsTerminal, Irreversible, Finish, Seal, Die, Exit
  <2>3. terminal' \in {terminal, "incomplete"} /\ sealed' \in {sealed, TRUE}
        /\ faults' \in {faults, faults + 1}
    BY <1>3 DEF Refuse, IsTerminal, Irreversible, Finish, Seal, Die, Fault
  <2>4. view' \in [Case -> Seq(Attempts)] /\ stored' \in [Case -> Seq(Attempts)]
    BY <1>0, <2>1, <2>2
  <2>5. terminal' \in {None, "complete", "incomplete"} /\ faults' \in Nat
    BY <1>0, <2>3
  <2>6. sealed' \in BOOLEAN
    BY <1>0, <2>3, Zenon
  <2> QED
    BY <1>0, <2>2, <2>4, <2>5, <2>6
<1>4. ASSUME Reconstruct \/ Leave \/ Persisted \/ Resume \/ BeginSeal PROVE TypeOK'
  <2>1. /\ UNCHANGED <<journal, sent, answer, lowDisk, faults>>
        /\ pc' \in {"loop", "finish", "reconcile", "sealing"}
        /\ view' \in {view, stored} /\ added' \in {added, TRUE}
    BY <1>4 DEF Reconstruct, Leave, Persisted, Resume, BeginSeal
  <2> QED
    BY <1>0, <2>1
<1>5. CASE MarkForSeal
  BY <1>0, <1>5 DEF MarkForSeal
<1>6. CASE DiskChanges
  BY <1>0, <1>6 DEF DiskChanges, Fault
<1>7. CASE Dispatch
  <2>1. PICK c \in Eligible(view) :
          LET kind == NextKind(view[c])
              r == [case |-> c, index |-> Len(view[c]) + 1, kind |-> kind,
                    origin |-> Origin(view[c], kind)]
          IN intents' = intents \union {r} /\ answer' = r
    BY <1>7 DEF Dispatch
  <2>2. view = stored
    BY <1>7 DEF Dispatch, ProbeInv, WorkingInv
  <2>3. intents' = intents \union {NextRequest(c)} /\ answer' = NextRequest(c)
    BY <2>1, <2>2 DEF NextRequest
  <2>4. NextRequest(c) \in Requests
    BY <2>2, NextRequestIsNew DEF Eligible
  <2> QED
    BY <1>0, <1>7, <2>3, <2>4 DEF Dispatch
<1>8. CASE Send
  <2>1. answer \in Requests
    BY <1>8, NextRequestIsNew DEF Send, ProbeInv, AskedInv
  <2> QED
    BY <1>0, <1>8, <2>1 DEF Send
<1>9. CASE Receive
  <2>1. PICK c \in Case : StatusOf(stored[c]) \in Open /\ answer = NextRequest(c)
    BY <1>9 DEF Receive, ProbeInv, AskedInv
  <2>2. view = stored
    BY <1>9 DEF Receive, ProbeInv, WorkingInv
  <2>3. PICK result \in Result : answer' = MakeAttempt(stored[c], c, result)
    BY <1>9, <2>1, <2>2 DEF Receive, NextRequest
  <2>4. answer' \in Attempts
    BY <2>1, <2>3, LongerChainOK DEF ProbeInv, StoredInv
  <2> QED
    BY <1>0, <1>9, <2>4 DEF Receive
<1>10. CASE Persist
  <2>1. PICK c \in Case, result \in Result :
          StatusOf(stored[c]) \in Open /\ answer = MakeAttempt(stored[c], c, result)
    BY <1>10 DEF Persist, ProbeInv, AskedInv
  <2>2. answer \in Attempts
    BY <2>1, LongerChainOK DEF ProbeInv, StoredInv
  <2>3. WithAttempt(view, answer) \in [Case -> Seq(Attempts)]
    BY <1>0, <1>10, <2>2, LongerTotal DEF Persist, ProbeInv, WorkingInv, StoredInv
  <2> QED
    BY <1>0, <1>10, <2>3 DEF Persist
<1> QED
  BY <1>1, <1>2, <1>3, <1>4, <1>5, <1>6, <1>7, <1>8, <1>9, <1>10 DEF Next, Proceed

LEMMA StepInv == ProbeInv /\ [Next]_vars => ProbeInv'
<1> SUFFICES ASSUME ProbeInv, [Next]_vars PROVE ProbeInv'
  OBVIOUS
<1>0. TypeOK /\ TypeOK' /\ WorkingInv
  BY TypeKept DEF ProbeInv
<1> USE DEF journal
<1>1. CASE UNCHANGED vars \/ DiskChanges
  <2>1. UNCHANGED <<journal, sent, pc, view, answer>>
    BY <1>1 DEF vars, DiskChanges
  <2>2. Answered' = Answered
    BY <2>1 DEF Answered, Places
  <2>3. \A c \in Case : NextRequest(c)' = NextRequest(c)
    BY <2>1 DEF NextRequest
  <2>4. StoredInv'
    BY <2>1 DEF ProbeInv, StoredInv, ChainOK, CountsFit, Total, Places
  <2>5. WorkingInv' /\ JournalInv'
    BY <2>1, <2>2 DEF ProbeInv, WorkingInv, JournalInv
  <2>6. AskedInv'
    BY <2>1, <2>3 DEF ProbeInv, AskedInv, Total, Places
  <2> QED
    BY <1>0, <2>4, <2>5, <2>6 DEF ProbeInv
<1>2. CASE Resolve
  <2>1. UNCHANGED <<stored, intents, sent, pc, view, terminal>>
        /\ pc \in {"reconcile", "resolve", "sealing"}
    BY <1>2 DEF Resolve
  <2> QED
    BY <1>0, <2>1, QuietStep DEF WorkingInv
<1>3. ASSUME Refuse \/ IsTerminal \/ Irreversible \/ Finish \/ Seal \/ Die PROVE ProbeInv'
  <2>1. UNCHANGED <<stored, intents, sent>> /\ pc' = "idle"
    BY <1>3 DEF Refuse, IsTerminal, Irreversible, Finish, Seal, Die, Exit
  <2> QED
    BY <1>0, <2>1, QuietStep
<1>4. ASSUME Resume \/ BeginSeal \/ MarkForSeal PROVE ProbeInv'
  <2>1. UNCHANGED <<stored, intents, sent>> /\ pc' \in {"reconcile", "sealing"}
    BY <1>4 DEF Resume, BeginSeal, MarkForSeal
  <2> QED
    BY <1>0, <2>1, QuietStep
<1>5. CASE Reconstruct
  <2>1. UNCHANGED <<stored, intents, sent>> /\ pc' = "loop"
        /\ view' = stored /\ terminal' = None
    BY <1>5 DEF Reconstruct
  <2>2. intents \subseteq Answered
    BY <1>5 DEF Reconstruct, Readable, Reconciled, Unresolved
  <2> QED
    BY <1>0, <2>1, <2>2, QuietStep
<1>6. CASE Persisted
  <2>1. UNCHANGED <<stored, intents, sent>> /\ pc' = "loop"
        /\ view' = stored /\ terminal' = None
    BY <1>0, <1>6 DEF Persisted, WorkingInv
  <2>2. intents \subseteq Answered
    BY <1>6 DEF Persisted, Reconciled, Unresolved
  <2> QED
    BY <1>0, <2>1, <2>2, QuietStep
<1>7. CASE Leave
  <2>1. UNCHANGED <<stored, intents, sent>> /\ pc' = "finish"
        /\ view' = stored /\ terminal' = None
    BY <1>0, <1>7 DEF Leave, WorkingInv
  <2> QED
    BY <1>0, <2>1, QuietStep
<1>8. CASE Dispatch
  <2>1. PICK c \in Eligible(view) :
          LET kind == NextKind(view[c])
              r == [case |-> c, index |-> Len(view[c]) + 1, kind |-> kind,
                    origin |-> Origin(view[c], kind)]
          IN intents' = intents \union {r} /\ answer' = r
    BY <1>8 DEF Dispatch
  <2>2. view = stored /\ terminal = None /\ pc = "loop" /\ ~OverBudget(view)
        /\ pc' = "send" /\ UNCHANGED <<stored, terminal, sent, view>>
    BY <1>0, <1>8 DEF Dispatch, WorkingInv
  <2> DEFINE r == NextRequest(c)
  <2>3. intents' = intents \union {r} /\ answer' = r
    BY <2>1, <2>2 DEF NextRequest
  <2>4. c \in Case /\ StatusOf(stored[c]) \in Open
    BY <2>2 DEF Eligible
  <2>5. r \notin Answered
    BY <2>4, NextRequestIsNew
  <2>6. /\ Answered' = Answered /\ r' = r /\ StatusOf(stored[c])' = StatusOf(stored[c])
        /\ Total(stored)' = Total(stored)
    BY <2>2 DEF Answered, Places, NextRequest, Total
  <2>7. Total(stored) < TotalBudget
    <3>1. ~IsComplete(stored)
      BY <2>4 DEF IsComplete, Statuses, Open, Decided
    <3>2. ~(Total(stored) >= TotalBudget)
      BY <2>2, <3>1 DEF OverBudget
    <3>3. Total(stored) \in Nat /\ TotalBudget \in Nat
      BY FS_CardinalityType, BudgetAssumption DEF Total, ProbeInv, StoredInv
    <3> QED
      BY <3>2, <3>3
  <2>8. r \notin Range(sent)
    BY <2>2, <2>5 DEF ProbeInv, JournalInv
  <2>9. StoredInv'
    BY <2>2 DEF ProbeInv, StoredInv, ChainOK, CountsFit, Total, Places
  <2>10. WorkingInv'
    BY <2>2 DEF WorkingInv
  <2>11. JournalInv'
    BY <2>2, <2>3, <2>6 DEF ProbeInv, JournalInv
  <2> HIDE DEF r
  <2>12. AskedInv'
    <3>1. NextRequest(c)' = r /\ r \in intents' /\ answer' = r
      BY <2>3, <2>6 DEF r
    <3>2. r \notin Range(sent')
      BY <2>2, <2>8
    <3> QED
      BY <2>2, <2>4, <2>6, <2>7, <3>1, <3>2 DEF AskedInv
  <2> QED
    BY <1>0, <2>9, <2>10, <2>11, <2>12 DEF ProbeInv
<1>9. CASE Send
  <2>1. PICK c \in Case : /\ StatusOf(stored[c]) \in Open
                          /\ NextRequest(c) \in intents /\ answer = NextRequest(c)
    BY <1>9 DEF Send, ProbeInv, AskedInv
  <2>2. /\ pc = "send" /\ pc' = "wait" /\ sent' = Append(sent, answer)
        /\ UNCHANGED <<stored, intents, terminal, view, answer>>
    BY <1>9 DEF Send
  <2>3. answer \notin Range(sent)
    BY <2>2 DEF ProbeInv, AskedInv
  <2>4. Range(sent') = Range(sent) \union {answer} /\ IsInjective(sent')
    <3>1. /\ Len(sent) \in Nat /\ DOMAIN sent = 1 .. Len(sent)
          /\ DOMAIN sent' = 1 .. Len(sent) + 1 /\ sent'[Len(sent) + 1] = answer
          /\ \A i \in DOMAIN sent : sent'[i] = sent[i]
      BY <1>0, <2>2 DEF TypeOK
    <3>2. IsInjective(sent)
      BY DEF ProbeInv, JournalInv
    <3>3. \A i \in DOMAIN sent : sent[i] # answer
      BY <2>3 DEF Range
    <3>4. Range(sent') = Range(sent) \union {answer}
      BY <3>1 DEF Range
    <3>5. IsInjective(sent')
      BY <3>1, <3>2, <3>3 DEF IsInjective
    <3> QED
      BY <3>4, <3>5
  <2>5. /\ Answered' = Answered /\ NextRequest(c)' = NextRequest(c)
        /\ Total(stored)' = Total(stored)
    BY <2>2 DEF Answered, Places, NextRequest, Total
  <2>6. StoredInv'
    BY <2>2 DEF ProbeInv, StoredInv, ChainOK, CountsFit, Total, Places
  <2>7. WorkingInv'
    BY <1>0, <2>2 DEF WorkingInv
  <2>8. JournalInv'
    BY <2>1, <2>2, <2>4, <2>5 DEF ProbeInv, JournalInv
  <2>9. AskedInv'
    BY <2>1, <2>2, <2>5 DEF ProbeInv, AskedInv
  <2> QED
    BY <1>0, <2>6, <2>7, <2>8, <2>9 DEF ProbeInv
<1>10. CASE Receive
  <2>1. PICK c \in Case : /\ StatusOf(stored[c]) \in Open
                          /\ NextRequest(c) \in intents /\ answer = NextRequest(c)
    BY <1>10 DEF Receive, ProbeInv, AskedInv
  <2>2. /\ pc = "wait" /\ pc' = "persist" /\ view = stored
        /\ UNCHANGED <<stored, intents, terminal, sent, view>>
    BY <1>0, <1>10 DEF Receive, WorkingInv
  <2>3. PICK result \in Result : answer' = MakeAttempt(stored[c], c, result)
    BY <1>10, <2>1, <2>2 DEF Receive, NextRequest
  <2>4. /\ Answered' = Answered /\ NextRequest(c)' = NextRequest(c)
        /\ Total(stored)' = Total(stored)
    BY <2>2 DEF Answered, Places, NextRequest, Total
  <2>5. StoredInv'
    BY <2>2 DEF ProbeInv, StoredInv, ChainOK, CountsFit, Total, Places
  <2>6. WorkingInv'
    BY <1>0, <2>2 DEF WorkingInv
  <2>7. JournalInv'
    BY <2>2, <2>4 DEF ProbeInv, JournalInv
  <2>8. AskedInv'
    <3>1. Total(stored') < TotalBudget
      BY <2>2, <2>4 DEF ProbeInv, AskedInv
    <3>2. StatusOf(stored'[c]) \in Open /\ NextRequest(c)' \in intents'
      BY <2>1, <2>2, <2>4
    <3>3. answer' = MakeAttempt(stored'[c], c, result)
      BY <2>2, <2>3
    <3> QED
      BY <2>2, <3>1, <3>2, <3>3 DEF AskedInv
  <2> QED
    BY <1>0, <2>5, <2>6, <2>7, <2>8 DEF ProbeInv
<1>11. CASE Persist
  <2>1. PICK c \in Case, result \in Result :
          /\ StatusOf(stored[c]) \in Open /\ NextRequest(c) \in intents
          /\ answer = MakeAttempt(stored[c], c, result)
    BY <1>11 DEF Persist, ProbeInv, AskedInv
  <2>2. /\ pc = "persist" /\ pc' = "resolve" /\ terminal' = None
        /\ stored' = WithAttempt(stored, answer) /\ view' = stored'
        /\ UNCHANGED <<intents, sent>>
    BY <1>0, <1>11 DEF Persist, WorkingInv
  <2>3. ChainOK(stored[c], c)
    BY DEF ProbeInv, StoredInv
  <2>4. /\ answer \in Attempts /\ answer.case = c
        /\ ChainOK(Append(stored[c], answer), c)
    BY <2>1, <2>3, LongerChainOK
  <2>5. /\ stored \in [Case -> Seq(Attempts)] /\ stored[c] \in Seq(Attempts)
        /\ IsFiniteSet(Places(stored))
    BY <1>0 DEF TypeOK, ProbeInv, StoredInv
  <2>6. /\ stored'[c] = Append(stored[c], answer)
        /\ \A d \in Case : d # c => stored'[d] = stored[d]
    BY <2>2, <2>4, <2>5 DEF WithAttempt
  <2>7. /\ Places(stored') = Places(stored) \union {<<c, Len(stored[c]) + 1>>}
        /\ IsFiniteSet(Places(stored')) /\ Total(stored') = Total(stored) + 1
        /\ Total(stored) \in Nat
    BY <2>2, <2>4, <2>5, LongerTotal
  <2>8. StoredInv'
    <3>1. ASSUME NEW d \in Case PROVE ChainOK(stored'[d], d)
      BY <2>4, <2>6 DEF ProbeInv, StoredInv
    <3>2. Total(stored') <= TotalBudget
      BY <2>2, <2>7, BudgetAssumption DEF ProbeInv, AskedInv
    <3> QED
      BY <2>7, <3>1, <3>2 DEF StoredInv
  <2>9. Answered' = Answered \union {NextRequest(c)}
    <3> DEFINE new == <<c, Len(stored[c]) + 1>>
    <3>1. Request(stored'[new[1]][new[2]]) = NextRequest(c)
      <4>1. stored'[c][Len(stored[c]) + 1] = answer
        BY <2>4, <2>5, <2>6
      <4> QED
        BY <2>1, <4>1, AnswerCarriesRequest
    <3>2. ASSUME NEW at \in Places(stored)
          PROVE  stored'[at[1]][at[2]] = stored[at[1]][at[2]]
      <4>1. PICK d \in Case : at \in {d} \X DOMAIN stored[d]
        BY DEF Places
      <4>2. at[1] = d /\ at[2] \in DOMAIN stored[d]
        BY <4>1
      <4>3. CASE d = c
        BY <2>4, <2>5, <2>6, <4>2, <4>3
      <4>4. CASE d # c
        BY <2>6, <4>2, <4>4
      <4> QED
        BY <4>3, <4>4
    <3>3. Answered' = {Request(stored'[at[1]][at[2]]) : at \in Places(stored')}
      BY DEF Answered, Places, Request
    <3> HIDE DEF new
    <3>4. Places(stored') = Places(stored) \union {new}
      BY <2>7 DEF new
    <3> QED
      BY <3>1, <3>2, <3>3, <3>4 DEF Answered
  <2>10. WorkingInv'
    BY <2>2 DEF WorkingInv
  <2>11. JournalInv'
    BY <2>1, <2>2, <2>9 DEF ProbeInv, JournalInv
  <2>12. AskedInv'
    BY <2>2 DEF AskedInv
  <2> QED
    BY <1>0, <2>8, <2>10, <2>11, <2>12 DEF ProbeInv
<1> QED
  BY <1>1, <1>2, <1>3, <1>4, <1>5, <1>6, <1>7, <1>8, <1>9, <1>10, <1>11 DEF Next, Proceed

-----------------------------------------------------------------------------
(* The theorems                                                              *)

(* ProbeInv holds in every state.                                            *)
THEOREM ProbeInvCorrect == Spec => []ProbeInv
<1> QED
  BY InitInv, StepInv, PTL DEF Spec

(* No request reaches the provider twice, whatever dies when: for any number *)
(* of cases, any policy and any number of deaths.                            *)
THEOREM SentOnce == Spec => []NoRequestSentTwice
<1>1. ProbeInv => NoRequestSentTwice
  BY DEF ProbeInv, JournalInv, NoRequestSentTwice
<1> QED
  BY <1>1, ProbeInvCorrect, PTL

(* The total and the budgets of every case and code hold over all commands   *)
(* of a run.                                                                 *)
THEOREM BudgetsCorrect == Spec => []BudgetsHold
<1>1. ProbeInv => BudgetsHold
  <2> SUFFICES ASSUME ProbeInv PROVE BudgetsHold
    OBVIOUS
  <2>1. Total(stored) <= TotalBudget /\ \A c \in Case : CountsFit(stored[c])
    BY DEF ProbeInv, StoredInv, ChainOK
  <2> QED
    BY <2>1 DEF BudgetsHold, CountsFit, Consumed, Hits
<1> QED
  BY <1>1, ProbeInvCorrect, PTL

(* What is durable replays to a projection, and every attempt in it has its  *)
(* intent: what the runner decides after an answer is what the projection,   *)
(* written independently, accepts.                                           *)
THEOREM StoredReplays == Spec => []DurableReplays
<1>1. ProbeInv => DurableReplays
  BY DEF ProbeInv, StoredInv, ChainOK, JournalInv, DurableReplays, Replays
<1> QED
  BY <1>1, ProbeInvCorrect, PTL

(* After the terminal marker nothing is sent and nothing is recorded but the *)
(* seal: no command that works on the run has found the marker.              *)
THEOREM MarkerIsFinal == Spec => TerminalIsFinal
<1>1. ASSUME ProbeInv, [Next]_vars, terminal # None
      PROVE  UNCHANGED <<terminal, stored, intents, sent>>
  <2>1. pc \notin {"loop", "send", "wait", "persist", "resolve", "finish"}
    BY <1>1 DEF ProbeInv, WorkingInv
  <2> QED
    BY <1>1, <2>1 DEF Next, Proceed, vars, journal, Resolve, Refuse, Reconstruct, IsTerminal,
       Leave, Irreversible, Dispatch, Send, Receive, Persist, Persisted, Finish, MarkForSeal,
       Seal, Resume, BeginSeal, Die, DiskChanges
<1>2. ProbeInv /\ [Next]_vars => [terminal # None => UNCHANGED <<terminal, stored, intents, sent>>]_vars
  BY <1>1
<1> QED
  BY <1>2, ProbeInvCorrect, PTL DEF Spec, TerminalIsFinal
=============================================================================
