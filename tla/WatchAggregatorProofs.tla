------------------------ MODULE WatchAggregatorProofs ------------------------
(***************************************************************************)
(* Proofs about the WatchChangeAggregator, for every set of documents and  *)
(* every number of changes, errors and messages under way: it waits for    *)
(* exactly the responses that will come and no HARD_ASSERT fails, a stored *)
(* token goes with the stored keys, and a view in sync shows a result that *)
(* the backend had.                                                        *)
(***************************************************************************)
EXTENDS WatchAggregator, FiniteSetTheorems, SequenceTheorems, TLAPS

-----------------------------------------------------------------------------
(* The inductive invariant.  What concerns the aggregator is stated of a     *)
(* given one, and of the keys its changes are relative to.                 *)

(* The responses the aggregator waits for.                                 *)
Outstanding(a) == IF a.state = NoState THEN 0 ELSE a.state.outstanding

(* A change says `Modified' only of a document that the view has, and       *)
(* changes are reported as pending.                                        *)
SoundState(s, known) ==
    /\ \A k \in Keys : s.changes[k] = "Modified" => k \in known
    /\ ~s.pending => s.changes = NoChanges

ChangesSound(a, known) == a.state # NoState => SoundState(a.state, known)

Sound(a, known) == a \in Aggregator /\ a.ok /\ ChangesSound(a, known)

(* The positions of the responses to Watch and Unwatch.                    *)
Answers(messages) ==
    {i \in 1..Len(messages) : messages[i].type \in {"Added", "Removed"}}

(* Nothing is under way on a closed stream.                                *)
ClosedIsQuiet ==
    ~open => /\ requests = <<>> /\ responses = <<>>
             /\ agg.state = NoState /\ backend.phase = "Off"

BooksInv ==
    /\ TypeOK
    /\ Sound(agg, keys)
    /\ ClosedIsQuiet
    /\ ~early => Outstanding(agg) = Len(requests) + Cardinality(Answers(responses))

-----------------------------------------------------------------------------
(* Counting the responses due.                                             *)

(* There are finitely many.                                                *)
LEMMA AnswersFinite ==
    ASSUME NEW m, Len(m) \in Nat
    PROVE  IsFiniteSet(Answers(m)) /\ Cardinality(Answers(m)) \in Nat
  <1>1. Answers(m) \subseteq 1..Len(m)
    BY DEF Answers
  <1>2. IsFiniteSet(1..Len(m))
    BY FS_Interval
  <1>3. IsFiniteSet(Answers(m))
    BY <1>1, <1>2, FS_Subset
  <1> QED  BY <1>3, FS_CardinalityType

(* One more if the response sent is one.                                   *)
LEMMA AnswersAppend ==
    ASSUME NEW m \in Seq(Response), NEW r \in Response
    PROVE  Cardinality(Answers(Append(m, r))) =
                IF r.type \in {"Added", "Removed"}
                THEN Cardinality(Answers(m)) + 1 ELSE Cardinality(Answers(m))
  <1>1. PICK n : n = Append(m, r)
    OBVIOUS
  <1>2. /\ Len(m) \in Nat /\ Len(n) = Len(m) + 1 /\ n[Len(m) + 1] = r
        /\ \A i \in 1..Len(m) : n[i] = m[i]
    BY <1>1, AppendProperties
  <1>3. IsFiniteSet(Answers(m)) /\ Len(m) + 1 \notin Answers(m)
    BY <1>2, AnswersFinite DEF Answers
  <1>4. 1..(Len(m) + 1) = 1..Len(m) \cup {Len(m) + 1}
    BY <1>2
  <1>5. CASE r.type \in {"Added", "Removed"}
    <2>1. Answers(n) = Answers(m) \cup {Len(m) + 1}
      BY <1>2, <1>4, <1>5 DEF Answers
    <2> QED  BY <1>1, <1>3, <1>5, <2>1, FS_AddElement
  <1>6. CASE r.type \notin {"Added", "Removed"}
    <2>1. Answers(n) = Answers(m)
      BY <1>2, <1>4, <1>6 DEF Answers
    <2> QED  BY <1>1, <1>6, <2>1
  <1> QED  BY <1>5, <1>6

(* One less if the response read is one.                                   *)
LEMMA AnswersTail ==
    ASSUME NEW m \in Seq(Response), m # <<>>
    PROVE  Cardinality(Answers(m)) =
                IF Head(m).type \in {"Added", "Removed"}
                THEN Cardinality(Answers(Tail(m))) + 1
                ELSE Cardinality(Answers(Tail(m)))
  <1>1. PICK t \in Seq(Response) :
            /\ t = Tail(m) /\ Len(t) = Len(m) - 1
            /\ \A i \in 1..(Len(m) - 1) : t[i] = m[i + 1]
    <2>1. Tail(m) \in Seq(Response) /\ Len(Tail(m)) = Len(m) - 1
      BY HeadTailProperties
    <2>2. \A i \in 1..(Len(m) - 1) : Tail(m)[i] = m[i + 1]
      OBVIOUS
    <2> QED  BY <2>1, <2>2
  <1>2. /\ Len(m) \in Nat /\ Len(m) >= 1 /\ Head(m) = m[1] /\ Len(t) \in Nat
    BY HeadTailProperties
  <1> DEFINE f == [i \in Answers(t) |-> i + 1]
             rest == Answers(m) \ {1}
  <1>3. \A i \in Answers(t) : i \in Nat /\ i + 1 \in rest
    BY <1>1, <1>2 DEF Answers
  <1>4. \A j \in rest : j - 1 \in Answers(t) /\ j \in Nat
    BY <1>1, <1>2 DEF Answers
  <1>5. f \in Bijection(Answers(t), rest)
    <2>1. f \in [Answers(t) -> rest]
      BY <1>3
    <2>2. \A i, j \in Answers(t) : f[i] = f[j] => i = j
      BY <1>3
    <2>3. \A j \in rest : f[j - 1] = j /\ j - 1 \in Answers(t)
      BY <1>4
    <2>4. \A j \in rest : \E i \in Answers(t) : f[i] = j
      BY <2>3
    <2> HIDE DEF f, rest
    <2> QED  BY <2>1, <2>2, <2>4 DEF Bijection, Injection, Surjection, IsInjective
  <1>6. Cardinality(rest) = Cardinality(Answers(t))
    <2>1. ExistsBijection(Answers(t), rest)
      BY <1>5 DEF ExistsBijection
    <2> QED  BY <1>2, <2>1, AnswersFinite, FS_Bijection
  <1>7. IsFiniteSet(Answers(m)) /\ Cardinality(Answers(m)) \in Nat
    BY <1>2, AnswersFinite
  <1>8. CASE Head(m).type \in {"Added", "Removed"}
    <2>1. 1 \in Answers(m)
      BY <1>2, <1>8 DEF Answers
    <2>2. Cardinality(rest) = Cardinality(Answers(m)) - 1
      BY <1>7, <2>1, FS_RemoveElement
    <2> QED  BY <1>1, <1>6, <1>7, <1>8, <2>2
  <1>9. CASE Head(m).type \notin {"Added", "Removed"}
    <2>1. rest = Answers(m)
      BY <1>2, <1>9 DEF Answers
    <2> QED  BY <1>1, <1>6, <1>9, <2>1
  <1> QED  BY <1>8, <1>9

-----------------------------------------------------------------------------
(* The operators on the state of the target.                               *)

(* The changes of one field.                                               *)
Counting(s, n) == [s EXCEPT !.outstanding = n]

Carrying(s, c) == [s EXCEPT !.carried = c]

Put(a, s) == [a EXCEPT !.state = s]

(* No changes are pending in a new state.                                  *)
LEMMA NoChangesType ==
    /\ NoChanges \in [Keys -> Change]
    /\ \A k \in Keys : NoChanges[k] = "None"
  BY DEF NoChanges, Change

(* The state after a change of one field or two.                           *)
LEMMA StateOps ==
    ASSUME NEW s \in TargetState, NEW known, SoundState(s, known)
    PROVE  /\ \A n \in Int :
                /\ Counting(s, n) \in TargetState
                /\ SoundState(Counting(s, n), known)
                /\ Counting(s, n).outstanding = n
           /\ \A c \in BOOLEAN :
                /\ Carrying(s, c) \in TargetState
                /\ SoundState(Carrying(s, c), known)
                /\ Carrying(s, c).outstanding = s.outstanding
           /\ ClearPendingChanges(s) \in TargetState
           /\ \A other : SoundState(ClearPendingChanges(s), other)
           /\ ClearPendingChanges(s).outstanding = s.outstanding
           /\ \A t \in Token :
                /\ UpdateResumeToken(s, t) \in TargetState
                /\ SoundState(UpdateResumeToken(s, t), known)
                /\ UpdateResumeToken(s, t).outstanding = s.outstanding
                /\ UpdateResumeToken(s, t).changes = s.changes
  <1>1. ASSUME NEW n \in Int
        PROVE  /\ Counting(s, n) \in TargetState
               /\ SoundState(Counting(s, n), known)
               /\ Counting(s, n).outstanding = n
    BY DEF TargetState, SoundState, Counting
  <1>2. ASSUME NEW c \in BOOLEAN
        PROVE  /\ Carrying(s, c) \in TargetState
               /\ SoundState(Carrying(s, c), known)
               /\ Carrying(s, c).outstanding = s.outstanding
    BY DEF TargetState, SoundState, Carrying
  <1>3. /\ ClearPendingChanges(s) \in TargetState
        /\ ClearPendingChanges(s).changes = NoChanges
        /\ ClearPendingChanges(s).outstanding = s.outstanding
    BY NoChangesType DEF TargetState, ClearPendingChanges
  <1>4. \A other : SoundState(ClearPendingChanges(s), other)
    BY <1>3, NoChangesType DEF SoundState
  <1>5. ASSUME NEW t \in Token
        PROVE  /\ UpdateResumeToken(s, t) \in TargetState
               /\ SoundState(UpdateResumeToken(s, t), known)
               /\ UpdateResumeToken(s, t).outstanding = s.outstanding
               /\ UpdateResumeToken(s, t).changes = s.changes
    BY DEF TargetState, SoundState, UpdateResumeToken
  <1> QED  BY <1>1, <1>2, <1>3, <1>4, <1>5

(* The fields of an aggregator with another state.                         *)
LEMMA StateSet ==
    ASSUME NEW a \in Aggregator, NEW s \in TargetState \cup {NoState}
    PROVE  /\ Put(a, s) \in Aggregator
           /\ Put(a, s).state = s
           /\ Put(a, s).ok = a.ok
           /\ Put(a, s).reset = a.reset
           /\ Put(a, s).updates = a.updates
  BY DEF Aggregator, Put

(* A state that is there is one.                                           *)
LEMMA StateIs ==
    ASSUME NEW a \in Aggregator
    PROVE  /\ a.state \in TargetState \cup {NoState}
           /\ a.updates \in [Keys -> Versions \cup {-1}]
           /\ a.reset \in BOOLEAN /\ a.ok \in BOOLEAN
           /\ a.state # NoState =>
                /\ a.state \in TargetState /\ a.state.outstanding \in Int
                /\ a.state.current \in BOOLEAN /\ a.state.pending \in BOOLEAN
                /\ a.state.carried \in BOOLEAN /\ a.state.token \in Token
                /\ a.state.changes \in [Keys -> Change]
  BY DEF Aggregator, TargetState

(* A new state.                                                            *)
LEMMA NewStateType ==
    /\ NewState \in TargetState /\ NewState # NoState
    /\ NewState.outstanding = 0
    /\ \A known : SoundState(NewState, known)
  <1>1. NewState \in TargetState
    BY NoChangesType DEF NewState, TargetState, Token
  <1>2. NewState # NoState
    BY <1>1, NoStateAssumption
  <1>3. NewState.outstanding = 0 /\ NewState.pending /\ NewState.changes = NoChanges
    BY DEF NewState
  <1>4. \A known : SoundState(NewState, known)
    BY <1>3, NoChangesType DEF SoundState
  <1> QED  BY <1>1, <1>2, <1>3, <1>4

(* The aggregator of a new stream.                                         *)
LEMMA NewAggregatorType ==
    /\ \A known : Sound(NewAggregator, known)
    /\ Outstanding(NewAggregator) = 0 /\ NewAggregator.state = NoState
  <1>1. NewAggregator \in Aggregator
    BY DEF NewAggregator, Aggregator
  <1>2. NewAggregator.state = NoState /\ NewAggregator.ok
    BY DEF NewAggregator
  <1> QED  BY <1>1, <1>2 DEF Sound, ChangesSound, Outstanding

-----------------------------------------------------------------------------
(* The operators on the aggregator.                                        *)

(* EnsureTargetState() makes sure.                                         *)
LEMMA EnsureKeeps ==
    ASSUME NEW a, NEW known, Sound(a, known)
    PROVE  /\ Sound(Ensure(a), known)
           /\ Ensure(a).state # NoState /\ Ensure(a).state \in TargetState
           /\ SoundState(Ensure(a).state, known)
           /\ Ensure(a).state.outstanding = Outstanding(a)
           /\ Outstanding(Ensure(a)) = Outstanding(a) /\ Outstanding(a) \in Int
           /\ Ensure(a).reset = a.reset /\ Ensure(a).updates = a.updates
           /\ Ensure(a) \in Aggregator
  <1>1. a \in Aggregator /\ a.ok
    BY DEF Sound
  <1>2. CASE a.state = NoState
    <2>1. PICK b \in Aggregator :
            /\ b = Put(a, NewState) /\ b.state = NewState /\ b.ok = a.ok
            /\ b.reset = a.reset /\ b.updates = a.updates
      <3>1. NewState \in TargetState \cup {NoState}
        BY NewStateType
      <3> QED  BY <1>1, <3>1, StateSet
    <2>2. Ensure(a) = b
      BY <1>2, <2>1 DEF Ensure, Put
    <2>3. /\ b.state # NoState /\ b.state \in TargetState
          /\ b.state.outstanding = 0 /\ SoundState(b.state, known)
      BY <2>1, NewStateType
    <2>4. Outstanding(a) = 0 /\ Outstanding(b) = 0
      BY <1>2, <2>3 DEF Outstanding
    <2>5. Sound(b, known)
      BY <1>1, <2>1, <2>3 DEF Sound, ChangesSound
    <2> QED  BY <2>1, <2>2, <2>3, <2>4, <2>5
  <1>3. CASE a.state # NoState
    <2>1. Ensure(a) = a
      BY <1>3 DEF Ensure
    <2> QED  BY <1>1, <1>3, <2>1, StateIs DEF Sound, ChangesSound, Outstanding
  <1> QED  BY <1>2, <1>3

(* The aggregator with a sound state in it.                                *)
LEMMA PutKeeps ==
    ASSUME NEW a \in Aggregator, a.ok, NEW known,
           NEW s \in TargetState, SoundState(s, known)
    PROVE  /\ Sound(Put(a, s), known)
           /\ Outstanding(Put(a, s)) = s.outstanding
           /\ Put(a, s).reset = a.reset
           /\ Put(a, s).state # NoState
  <1>1. PICK b \in Aggregator :
            /\ b = Put(a, s) /\ b.state = s
            /\ b.ok = a.ok /\ b.reset = a.reset
    <2>1. s \in TargetState \cup {NoState}
      OBVIOUS
    <2> QED  BY <2>1, StateSet
  <1>2. s # NoState
    BY NoStateAssumption
  <1> QED  BY <1>1, <1>2 DEF Sound, ChangesSound, Outstanding

(* A request is counted.                                                   *)
LEMMA RecordKeeps ==
    ASSUME NEW a, NEW known, Sound(a, known)
    PROVE  /\ Sound(RecordPendingTargetRequest(a), known)
           /\ Outstanding(RecordPendingTargetRequest(a)) = Outstanding(a) + 1
  <1>1. PICK b : b = Ensure(a)
    OBVIOUS
  <1>2. /\ b \in Aggregator /\ b.ok /\ b.state \in TargetState
        /\ SoundState(b.state, known)
        /\ b.state.outstanding = Outstanding(a) /\ Outstanding(a) \in Int
    BY <1>1, EnsureKeeps DEF Sound
  <1>3. PICK s \in TargetState :
            /\ s = Counting(b.state, Outstanding(a) + 1)
            /\ SoundState(s, known) /\ s.outstanding = Outstanding(a) + 1
    <2>1. Outstanding(a) + 1 \in Int
      BY <1>2
    <2> QED  BY <1>2, <2>1, StateOps
  <1>4. RecordPendingTargetRequest(a) = Put(b, s)
    BY <1>1, <1>2, <1>3 DEF RecordPendingTargetRequest, Put, Counting
  <1> QED  BY <1>2, <1>3, <1>4, PutKeeps

(* A response to Watch is counted; the last one due clears the changes.    *)
LEMMA AddedKeeps ==
    ASSUME NEW a, NEW known, Sound(a, known)
    PROVE  /\ Sound(TargetAdded(a), known)
           /\ Outstanding(TargetAdded(a)) = Outstanding(a) - 1
  <1>1. PICK b : b = Ensure(a)
    OBVIOUS
  <1>2. /\ b \in Aggregator /\ b.ok /\ b.state \in TargetState
        /\ SoundState(b.state, known)
        /\ b.state.outstanding = Outstanding(a) /\ Outstanding(a) \in Int
    BY <1>1, EnsureKeeps DEF Sound
  <1>3. PICK s \in TargetState :
            /\ s = Counting(b.state, b.state.outstanding - 1)
            /\ SoundState(s, known) /\ s.outstanding = Outstanding(a) - 1
    <2>1. Outstanding(a) - 1 \in Int
      BY <1>2
    <2> QED  BY <1>2, <2>1, StateOps
  <1>4. CASE s.outstanding # 0
    <2>1. TargetAdded(a) = Put(b, s)
      BY <1>1, <1>3, <1>4 DEF TargetAdded, Put, Counting
    <2> QED  BY <1>2, <1>3, <2>1, PutKeeps
  <1>5. CASE s.outstanding = 0
    <2>1. PICK c \in TargetState :
            /\ c = ClearPendingChanges(s) /\ SoundState(c, known)
            /\ c.outstanding = s.outstanding
      BY <1>3, StateOps
    <2>2. PICK t \in TargetState :
            /\ t = Carrying(c, s.current) /\ SoundState(t, known)
            /\ t.outstanding = s.outstanding
      <3>1. s.current \in BOOLEAN
        BY DEF TargetState
      <3> QED  BY <2>1, <3>1, StateOps
    <2>3. TargetAdded(a) = Put(b, t)
      BY <1>1, <1>3, <1>5, <2>1, <2>2 DEF TargetAdded, Put, Counting, Carrying
    <2> QED  BY <1>2, <1>3, <2>2, <2>3, PutKeeps
  <1> QED  BY <1>4, <1>5

(* A response to Unwatch is counted; the last one due ends the state.      *)
LEMMA RemovedKeeps ==
    ASSUME NEW a, NEW known, Sound(a, known)
    PROVE  /\ Sound(TargetRemoved(a), known)
           /\ Outstanding(TargetRemoved(a)) = Outstanding(a) - 1
  <1>1. PICK b : b = Ensure(a)
    OBVIOUS
  <1>2. /\ b \in Aggregator /\ b.ok /\ b.state \in TargetState
        /\ SoundState(b.state, known)
        /\ b.state.outstanding = Outstanding(a) /\ Outstanding(a) \in Int
    BY <1>1, EnsureKeeps DEF Sound
  <1>3. PICK s \in TargetState :
            /\ s = Counting(b.state, b.state.outstanding - 1)
            /\ SoundState(s, known) /\ s.outstanding = Outstanding(a) - 1
    <2>1. Outstanding(a) - 1 \in Int
      BY <1>2
    <2> QED  BY <1>2, <2>1, StateOps
  <1>4. CASE s.outstanding # 0
    <2>1. TargetRemoved(a) = Put(b, s)
      BY <1>1, <1>3, <1>4 DEF TargetRemoved, Put, Counting
    <2> QED  BY <1>2, <1>3, <2>1, PutKeeps
  <1>5. CASE s.outstanding = 0
    <2>1. PICK c \in Aggregator :
            /\ c = Put(b, NoState) /\ c.state = NoState /\ c.ok
      <3>1. NoState \in TargetState \cup {NoState}
        OBVIOUS
      <3> QED  BY <1>2, <3>1, StateSet
    <2>2. TargetRemoved(a) = c
      BY <1>1, <1>3, <1>5, <2>1 DEF TargetRemoved, Put, Counting
    <2>3. Sound(c, known) /\ Outstanding(c) = 0
      BY <2>1 DEF Sound, ChangesSound, Outstanding
    <2> QED  BY <1>3, <1>5, <2>2, <2>3
  <1> QED  BY <1>4, <1>5

(* Changes of the other fields.                                            *)
Changed(s, k, c) == [s EXCEPT !.changes[k] = c, !.pending = TRUE]

Noted(a, s, k, v) == [a EXCEPT !.state = s, !.updates[k] = v]

(* A change of a document that the view has.                               *)
LEMMA ChangedKeeps ==
    ASSUME NEW s \in TargetState, NEW known, SoundState(s, known),
           NEW k \in Keys, NEW c \in Change, c = "Modified" => k \in known
    PROVE  /\ Changed(s, k, c) \in TargetState
           /\ SoundState(Changed(s, k, c), known)
           /\ Changed(s, k, c).outstanding = s.outstanding
  <1>1. s.changes \in [Keys -> Change]
    BY DEF TargetState
  <1>2. [s.changes EXCEPT ![k] = c] \in [Keys -> Change]
    BY <1>1
  <1>3. PICK g \in [Keys -> Change] : g = [s.changes EXCEPT ![k] = c]
    BY <1>2
  <1>4. Changed(s, k, c) = [s EXCEPT !.changes = g, !.pending = TRUE]
    BY <1>3 DEF Changed, TargetState
  <1>5. /\ Changed(s, k, c) \in TargetState /\ Changed(s, k, c).changes = g
        /\ Changed(s, k, c).pending /\ Changed(s, k, c).outstanding = s.outstanding
    BY <1>4 DEF TargetState
  <1>6. \A j \in Keys : g[j] = "Modified" => j \in known
    BY <1>1, <1>3 DEF SoundState
  <1> QED  BY <1>5, <1>6 DEF SoundState

(* An aggregator that learns something of a document.                      *)
LEMMA NotedKeeps ==
    ASSUME NEW a \in Aggregator, a.ok, NEW known,
           NEW s \in TargetState, SoundState(s, known),
           NEW k \in Keys, NEW v \in Versions \cup {-1}
    PROVE  /\ Sound(Noted(a, s, k, v), known)
           /\ Outstanding(Noted(a, s, k, v)) = s.outstanding
  <1>1. a.updates \in [Keys -> Versions \cup {-1}]
    BY StateIs
  <1>2. [a.updates EXCEPT ![k] = v] \in [Keys -> Versions \cup {-1}]
    BY <1>1
  <1>3. PICK g \in [Keys -> Versions \cup {-1}] : g = [a.updates EXCEPT ![k] = v]
    BY <1>2
  <1>4. Noted(a, s, k, v) = [a EXCEPT !.state = s, !.updates = g]
    BY <1>3 DEF Noted, Aggregator
  <1>5. /\ Noted(a, s, k, v) \in Aggregator /\ Noted(a, s, k, v).state = s
        /\ Noted(a, s, k, v).ok = a.ok
    BY <1>4 DEF Aggregator
  <1>6. s # NoState
    BY NoStateAssumption
  <1> QED  BY <1>5, <1>6 DEF Sound, ChangesSound, Outstanding

(* A document comes, changes or goes: the count stays.                     *)
LEMMA DocumentKeeps ==
    ASSUME NEW a, Sound(a, keys), NEW k \in Keys, NEW v \in Versions,
           NEW u \in Versions \cup {-1}
    PROVE  /\ Sound(AddDocumentToTarget(a, k, v), keys)
           /\ Outstanding(AddDocumentToTarget(a, k, v)) = Outstanding(a)
           /\ Sound(RemoveDocumentFromTarget(a, k, u), keys)
           /\ Outstanding(RemoveDocumentFromTarget(a, k, u)) = Outstanding(a)
  <1>1. PICK b : b = Ensure(a)
    OBVIOUS
  <1>2. /\ b \in Aggregator /\ b.ok /\ b.state \in TargetState
        /\ SoundState(b.state, keys) /\ b.state.outstanding = Outstanding(a)
    BY <1>1, EnsureKeeps DEF Sound
  <1>3. b.updates \in [Keys -> Versions \cup {-1}]
    BY <1>2, StateIs
  <1>4. CASE ~IsActive(a)
    BY <1>4 DEF AddDocumentToTarget, RemoveDocumentFromTarget
  <1>5. CASE IsActive(a)
    <2>1. PICK c \in Change : /\ c = IF k \in keys THEN "Modified" ELSE "Added"
                              /\ c = "Modified" => k \in keys
      BY DEF Change
    <2>2. PICK d \in Change : /\ d = IF k \in keys THEN "Removed" ELSE "None"
                              /\ d # "Modified"
      BY DEF Change
    <2>3. PICK w \in Versions \cup {-1} : w = IF u = -1 THEN b.updates[k] ELSE u
      BY <1>3
    <2>4. AddDocumentToTarget(a, k, v) = Noted(b, Changed(b.state, k, c), k, v)
      BY <1>1, <1>2, <1>5, <2>1
      DEF AddDocumentToTarget, Noted, Changed, Aggregator, TargetState
    <2>5. RemoveDocumentFromTarget(a, k, u) = Noted(b, Changed(b.state, k, d), k, w)
      BY <1>1, <1>2, <1>5, <2>2, <2>3
      DEF RemoveDocumentFromTarget, Noted, Changed, Aggregator, TargetState
    <2>6. PICK s \in TargetState :
            /\ s = Changed(b.state, k, c) /\ SoundState(s, keys)
            /\ s.outstanding = Outstanding(a)
      BY <1>2, <2>1, ChangedKeeps
    <2>7. PICK t \in TargetState :
            /\ t = Changed(b.state, k, d) /\ SoundState(t, keys)
            /\ t.outstanding = Outstanding(a)
      BY <1>2, <2>2, ChangedKeeps
    <2>8. /\ Sound(AddDocumentToTarget(a, k, v), keys)
          /\ Outstanding(AddDocumentToTarget(a, k, v)) = Outstanding(a)
      BY <1>2, <2>4, <2>6, NotedKeeps
    <2>9. /\ Sound(RemoveDocumentFromTarget(a, k, u), keys)
          /\ Outstanding(RemoveDocumentFromTarget(a, k, u)) = Outstanding(a)
      BY <1>2, <2>3, <2>5, <2>7, NotedKeeps
    <2> QED  BY <2>8, <2>9
  <1> QED  BY <1>4, <1>5

(* A document in limbo is gone: that is no change of the target.            *)
LEMMA LookupKeeps ==
    ASSUME NEW a, Sound(a, keys), NEW k \in Keys
    PROVE  /\ Sound([a EXCEPT !.updates[k] = 0], keys)
           /\ Outstanding([a EXCEPT !.updates[k] = 0]) = Outstanding(a)
  <1>1. a \in Aggregator /\ a.ok /\ ChangesSound(a, keys)
    BY DEF Sound
  <1>2. a.updates \in [Keys -> Versions \cup {-1}] /\ 0 \in Versions
    BY <1>1, StateIs, WatchAggregatorAssumption DEF Versions
  <1>3. PICK g \in [Keys -> Versions \cup {-1}] : g = [a.updates EXCEPT ![k] = 0]
    BY <1>2
  <1>4. PICK n : n = [a EXCEPT !.updates[k] = 0]
    OBVIOUS
  <1>5. n = [a EXCEPT !.updates = g]
    BY <1>3, <1>4
  <1>6. n \in Aggregator /\ n.state = a.state /\ n.ok = a.ok
    BY <1>1, <1>5 DEF Aggregator
  <1>7. Sound(n, keys) /\ Outstanding(n) = Outstanding(a)
    BY <1>1, <1>6 DEF Sound, ChangesSound, Outstanding
  <1> QED  BY <1>4, <1>7

(* The target is current.                                                  *)
LEMMA CurrentKeeps ==
    ASSUME NEW a, Sound(a, keys), NEW t \in Token
    PROVE  /\ Sound(TargetCurrent(a, t), keys)
           /\ Outstanding(TargetCurrent(a, t)) = Outstanding(a)
  <1>1. PICK b : b = Ensure(a)
    OBVIOUS
  <1>2. /\ b \in Aggregator /\ b.ok /\ b.state \in TargetState
        /\ SoundState(b.state, keys) /\ b.state.outstanding = Outstanding(a)
        /\ Sound(b, keys) /\ Outstanding(b) = Outstanding(a)
    BY <1>1, EnsureKeeps DEF Sound
  <1>3. CASE ~IsActive(b)
    BY <1>1, <1>2, <1>3 DEF TargetCurrent
  <1>4. CASE IsActive(b)
    <2>1. PICK s \in TargetState :
            /\ s = [b.state EXCEPT !.current = TRUE, !.carried = FALSE,
                                   !.pending = TRUE]
            /\ s.outstanding = Outstanding(a) /\ SoundState(s, keys)
      <3>1. LET z == [b.state EXCEPT !.current = TRUE, !.carried = FALSE,
                                     !.pending = TRUE]
            IN  /\ z \in TargetState /\ z.outstanding = b.state.outstanding
                /\ z.changes = b.state.changes /\ z.pending
        BY <1>2 DEF TargetState
      <3>2. LET z == [b.state EXCEPT !.current = TRUE, !.carried = FALSE,
                                     !.pending = TRUE]
            IN  SoundState(z, keys)
        BY <1>2, <3>1 DEF SoundState
      <3> QED  BY <1>2, <3>1, <3>2
    <2>2. PICK r \in TargetState :
            /\ r = UpdateResumeToken(s, t) /\ SoundState(r, keys)
            /\ r.outstanding = Outstanding(a)
      <3>1. SoundState(s, keys) /\ s.outstanding = Outstanding(a)
        BY <2>1
      <3>2. /\ UpdateResumeToken(s, t) \in TargetState
            /\ SoundState(UpdateResumeToken(s, t), keys)
            /\ UpdateResumeToken(s, t).outstanding = s.outstanding
        BY <3>1, StateOps
      <3> QED  BY <3>1, <3>2
    <2>3. TargetCurrent(a, t) = Put(b, r)
      BY <1>1, <1>4, <2>1, <2>2 DEF TargetCurrent, Put
    <2> QED  BY <1>2, <2>2, <2>3, PutKeeps
  <1> QED  BY <1>3, <1>4

(* An active target is reset: it is there and nothing is outstanding.      *)
LEMMA ResetKeeps ==
    ASSUME NEW a, Sound(a, keys), a.state # NoState, a.state.outstanding = 0
    PROVE  /\ Sound(ResetTarget(a), keys)
           /\ Outstanding(ResetTarget(a)) = 0
           /\ Sound([ResetTarget(a) EXCEPT !.reset = TRUE], keys)
           /\ Outstanding([ResetTarget(a) EXCEPT !.reset = TRUE]) = 0
  <1>1. a \in Aggregator /\ a.ok
    BY DEF Sound
  <1>2. PICK g \in [Keys -> Change] :
            /\ g = [k \in Keys |-> IF k \in keys THEN "Removed" ELSE "None"]
            /\ \A k \in Keys : g[k] # "Modified"
    <2>1. LET z == [k \in Keys |-> IF k \in keys THEN "Removed" ELSE "None"]
          IN  z \in [Keys -> Change] /\ \A k \in Keys : z[k] # "Modified"
      BY DEF Change
    <2> QED  BY <2>1
  <1>3. PICK s \in TargetState :
            /\ s = [NewState EXCEPT !.changes = g] /\ s.changes = g
            /\ s.pending /\ s.outstanding = 0
    <2>1. LET z == [NewState EXCEPT !.changes = g]
          IN  /\ z \in TargetState /\ z.changes = g /\ z.pending
              /\ z.outstanding = 0
      BY NewStateType DEF NewState, TargetState
    <2> QED  BY <2>1
  <1>4. SoundState(s, keys) /\ s # NoState
    BY <1>2, <1>3, NoStateAssumption DEF SoundState
  <1>5. PICK n \in Aggregator : n = ResetTarget(a) /\ n.state = s /\ n.ok
    <2>1. ResetTarget(a) = [a EXCEPT !.ok = a.ok, !.state = s]
      BY <1>1, <1>2, <1>3 DEF ResetTarget
    <2>2. LET z == [a EXCEPT !.ok = a.ok, !.state = s]
          IN  z \in Aggregator /\ z.state = s /\ z.ok = a.ok
      BY <1>1 DEF Aggregator
    <2> QED  BY <1>1, <2>1, <2>2
  <1>6. PICK m \in Aggregator :
            m = [n EXCEPT !.reset = TRUE] /\ m.state = s /\ m.ok
    <2>1. LET z == [n EXCEPT !.reset = TRUE]
          IN  z \in Aggregator /\ z.state = n.state /\ z.ok = n.ok
      BY DEF Aggregator
    <2> QED  BY <1>5, <2>1
  <1>7. Sound(n, keys) /\ Sound(m, keys)
    BY <1>4, <1>5, <1>6 DEF Sound, ChangesSound
  <1>8. Outstanding(n) = 0 /\ Outstanding(m) = 0
    BY <1>3, <1>4, <1>5, <1>6 DEF Outstanding
  <1> QED  BY <1>5, <1>6, <1>7, <1>8

(* Nothing is outstanding for an active target.                            *)
LEMMA ActiveFacts ==
    ASSUME NEW a, Sound(a, keys), IsActive(a)
    PROVE  /\ Outstanding(a) = 0 /\ Listening
           /\ Ensure(a).state # NoState /\ Ensure(a).state.outstanding = 0
           /\ Sound(Ensure(a), keys)
  <1>1. Outstanding(a) = 0 /\ Listening
    BY DEF IsActive, Outstanding
  <1> QED  BY <1>1, EnsureKeeps

(* A Reset, and an existence filter that does not match.                   *)
LEMMA ResetsKeep ==
    ASSUME NEW a, Sound(a, keys), NEW n
    PROVE  /\ Sound(HandleExistenceFilter(a, n), keys)
           /\ Outstanding(HandleExistenceFilter(a, n)) = Outstanding(a)
           /\ LET z == IF IsActive(a) THEN ResetTarget(Ensure(a)) ELSE Ensure(a)
              IN  Sound(z, keys) /\ Outstanding(z) = Outstanding(a)
  <1>1. Sound(Ensure(a), keys) /\ Outstanding(Ensure(a)) = Outstanding(a)
    BY EnsureKeeps
  <1>2. CASE ~IsActive(a)
    BY <1>1, <1>2 DEF HandleExistenceFilter
  <1>3. CASE IsActive(a)
    <2>1. PICK b : b = Ensure(a)
      OBVIOUS
    <2>2. /\ Outstanding(a) = 0 /\ Sound(b, keys) /\ Outstanding(b) = 0
          /\ Sound(ResetTarget(b), keys) /\ Outstanding(ResetTarget(b)) = 0
          /\ Sound([ResetTarget(b) EXCEPT !.reset = TRUE], keys)
          /\ Outstanding([ResetTarget(b) EXCEPT !.reset = TRUE]) = 0
      BY <1>1, <1>3, <2>1, ActiveFacts, ResetKeeps
    <2>3. HandleExistenceFilter(a, n) \in {b, [ResetTarget(b) EXCEPT !.reset = TRUE]}
      BY <1>3, <2>1 DEF HandleExistenceFilter
    <2> QED  BY <1>3, <2>1, <2>2, <2>3
  <1> QED  BY <1>2, <1>3

-----------------------------------------------------------------------------
(* The messages.                                                           *)

(* What is in a response.                                                  *)
LEMMA ResponseHas ==
    ASSUME NEW r \in Response
    PROVE  /\ r.type = "Document" => r.key \in Keys /\ r.version \in Versions
           /\ r.type \in {"Deleted", "Left", "Lookup"} => r.key \in Keys
           /\ r.type = "Current" => r.token \in Token
           /\ r.type = "Snapshot" => r.token \in Token /\ r.result \in Documents
  BY DEF Response

(* What is a response.                                                     *)
LEMMA ResponseIs ==
    /\ \A t \in {"Added", "Removed", "Reset", "Failed"} : [type |-> t] \in Response
    /\ \A t \in {"Deleted", "Left", "Lookup"}, k \in Keys :
            [type |-> t, key |-> k] \in Response
    /\ \A k \in Keys, v \in Versions :
            [type |-> "Document", key |-> k, version |-> v] \in Response
    /\ \A t \in Token : [type |-> "Current", token |-> t] \in Response
    /\ \A n \in 0..Cardinality(Keys) : [type |-> "Filter", count |-> n] \in Response
    /\ \A t \in Token, d \in Documents :
            [type |-> "Snapshot", token |-> t, result |-> d] \in Response
  BY DEF Response

(* A request is an Unwatch or has a token.                                 *)
LEMMA RequestHas ==
    /\ \A r \in Request : r = Unwatch \/ r.token \in Token
    /\ Unwatch \in Request /\ \A t \in Token : Watch(t) \in Request
  <1>1. \A r \in Request : r = Unwatch \/ r.token \in Token
    BY DEF Request, Unwatch
  <1>2. Unwatch \in Request /\ \A t \in Token : Watch(t) \in Request
    BY DEF Request, Unwatch, Watch
  <1> QED  BY <1>1, <1>2

(* A message is read from the queue of responses.                          *)
LEMMA ReadsFacts ==
    ASSUME BooksInv, responses # <<>>
    PROVE  /\ open /\ Head(responses) \in Response
           /\ Tail(responses) \in Seq(Response)
           /\ Cardinality(Answers(Tail(responses))) \in Nat
           /\ Cardinality(Answers(responses)) =
                IF Head(responses).type \in {"Added", "Removed"}
                THEN Cardinality(Answers(Tail(responses))) + 1
                ELSE Cardinality(Answers(Tail(responses)))
  <1>1. responses \in Seq(Response) /\ open \in BOOLEAN
    BY DEF BooksInv, TypeOK
  <1>2. Head(responses) \in Response /\ Tail(responses) \in Seq(Response)
    BY <1>1, HeadTailProperties
  <1>3. open
    BY <1>1 DEF BooksInv, ClosedIsQuiet
  <1>4. Cardinality(Answers(Tail(responses))) \in Nat
    <2>1. Len(Tail(responses)) \in Nat
      BY <1>2
    <2> QED  BY <2>1, AnswersFinite
  <1> QED  BY <1>1, <1>2, <1>3, <1>4, AnswersTail

(* The client handles a message: the aggregator stays sound and counts.     *)
LEMMA HandleKeeps ==
    ASSUME BooksInv, responses # <<>>, NEW a, Handle(a), Sound(a, keys),
           Outstanding(a) = IF Head(responses).type \in {"Added", "Removed"}
                            THEN Outstanding(agg) - 1 ELSE Outstanding(agg)
    PROVE  BooksInv'
  <1>1. /\ agg' = a /\ responses' = Tail(responses)
        /\ UNCHANGED <<view, keys, cached, disk, truth, unfounded, open, requests,
                       backend, result, changes, errors, early>>
    BY DEF Handle, client, failures
  <1>2. /\ open /\ Tail(responses) \in Seq(Response)
        /\ Cardinality(Answers(Tail(responses))) \in Nat
        /\ Cardinality(Answers(responses)) =
                IF Head(responses).type \in {"Added", "Removed"}
                THEN Cardinality(Answers(Tail(responses))) + 1
                ELSE Cardinality(Answers(Tail(responses)))
    BY ReadsFacts
  <1>3. TypeOK'
    BY <1>1, <1>2 DEF BooksInv, TypeOK, Sound
  <1>4. Sound(agg, keys)'
    BY <1>1 DEF Sound, ChangesSound, SoundState
  <1>5. ClosedIsQuiet'
    BY <1>1, <1>2 DEF ClosedIsQuiet
  <1>6. ASSUME ~early'
        PROVE  Outstanding(agg') = Len(requests') + Cardinality(Answers(responses'))
    <2>1. /\ Outstanding(agg) = Len(requests) + Cardinality(Answers(responses))
          /\ Len(requests) \in Nat
      BY <1>1, <1>6 DEF BooksInv, TypeOK
    <2>2. /\ Outstanding(agg') = Outstanding(a) /\ requests' = requests
          /\ responses' = Tail(responses)
      BY <1>1
    <2>3. CASE Head(responses).type \in {"Added", "Removed"}
      <3>1. /\ Outstanding(a) = Outstanding(agg) - 1
            /\ Cardinality(Answers(responses)) =
                    Cardinality(Answers(Tail(responses))) + 1
        BY <1>2, <2>3
      <3> QED  BY <1>2, <2>1, <2>2, <3>1
    <2>4. CASE Head(responses).type \notin {"Added", "Removed"}
      BY <1>2, <2>1, <2>2, <2>4
    <2> QED  BY <2>3, <2>4
  <1> QED  BY <1>3, <1>4, <1>5, <1>6 DEF BooksInv

(* The messages that only the aggregator handles.                          *)
LEMMA ReadingStep ==
    ASSUME BooksInv,
           \/ ReadAdded \/ ReadRemoved \/ ReadCurrent \/ ReadReset
           \/ ReadDocument \/ ReadDeleted \/ ReadLeft \/ ReadLookup \/ ReadFilter
    PROVE  BooksInv'
  <1>a. Sound(agg, keys)
    BY DEF BooksInv
  <1>b. ASSUME NEW type, Reads(type)
        PROVE  responses # <<>> /\ Head(responses).type = type
               /\ Head(responses) \in Response
    BY <1>b, ReadsFacts DEF Reads
  <1>c. 0 \in Versions
    BY WatchAggregatorAssumption DEF Versions
  <1>1. CASE ReadAdded
    <2>1. Reads("Added") /\ Handle(TargetAdded(agg))
      BY <1>1 DEF ReadAdded
    <2> QED  BY <1>a, <1>b, <2>1, AddedKeeps, HandleKeeps
  <1>2. CASE ReadRemoved
    <2>1. Reads("Removed") /\ Handle(TargetRemoved(agg))
      BY <1>2 DEF ReadRemoved
    <2> QED  BY <1>a, <1>b, <2>1, RemovedKeeps, HandleKeeps
  <1>3. CASE ReadCurrent
    <2>1. Reads("Current") /\ Handle(TargetCurrent(agg, Head(responses).token))
      BY <1>3 DEF ReadCurrent
    <2>2. Head(responses).type = "Current" /\ Head(responses).token \in Token
      BY <1>b, <2>1, ResponseHas
    <2> QED  BY <1>a, <1>b, <2>1, <2>2, CurrentKeeps, HandleKeeps
  <1>4. CASE ReadReset
    <2>1. PICK z : /\ z = IF IsActive(agg) THEN ResetTarget(Ensure(agg))
                                           ELSE Ensure(agg)
                   /\ Handle(z)
      BY <1>4 DEF ReadReset
    <2>2. Sound(z, keys) /\ Outstanding(z) = Outstanding(agg)
      BY <1>a, <2>1, ResetsKeep
    <2>3. Reads("Reset")
      BY <1>4 DEF ReadReset
    <2> QED  BY <1>b, <2>1, <2>2, <2>3, HandleKeeps
  <1>5. CASE ReadDocument
    <2>1. /\ Reads("Document")
          /\ Handle(AddDocumentToTarget(agg, Head(responses).key,
                                             Head(responses).version))
      BY <1>5 DEF ReadDocument
    <2>2. /\ Head(responses).type = "Document" /\ Head(responses).key \in Keys
          /\ Head(responses).version \in Versions
      BY <1>b, <2>1, ResponseHas
    <2>3. PICK z : z = AddDocumentToTarget(agg, Head(responses).key,
                                                Head(responses).version)
      OBVIOUS
    <2>4. Sound(z, keys) /\ Outstanding(z) = Outstanding(agg)
      BY <1>a, <2>2, <2>3, DocumentKeeps
    <2> QED  BY <1>b, <2>1, <2>2, <2>3, <2>4, HandleKeeps
  <1>6. CASE ReadDeleted \/ ReadLeft
    <2>1. PICK u \in Versions \cup {-1} :
            Handle(RemoveDocumentFromTarget(agg, Head(responses).key, u))
      BY <1>6, <1>c DEF ReadDeleted, ReadLeft
    <2>2. /\ responses # <<>> /\ Head(responses).type \in {"Deleted", "Left"}
          /\ Head(responses).key \in Keys
      BY <1>6, <1>b, ResponseHas DEF ReadDeleted, ReadLeft
    <2>3. PICK z : z = RemoveDocumentFromTarget(agg, Head(responses).key, u)
      OBVIOUS
    <2>4. Sound(z, keys) /\ Outstanding(z) = Outstanding(agg)
      BY <1>a, <1>c, <2>2, <2>3, DocumentKeeps
    <2> QED  BY <2>1, <2>2, <2>3, <2>4, HandleKeeps
  <1>7. CASE ReadLookup
    <2>1. PICK z : /\ z = [agg EXCEPT !.updates[Head(responses).key] = 0]
                   /\ Handle(z)
      BY <1>7 DEF ReadLookup
    <2>2. Head(responses).type = "Lookup" /\ Head(responses).key \in Keys
          /\ responses # <<>>
      BY <1>7, <1>b, ResponseHas DEF ReadLookup
    <2>3. Sound(z, keys) /\ Outstanding(z) = Outstanding(agg)
      BY <1>a, <2>1, <2>2, LookupKeeps
    <2> QED  BY <2>1, <2>2, <2>3, HandleKeeps
  <1>8. CASE ReadFilter
    <2>1. PICK z : /\ z = HandleExistenceFilter(agg, Head(responses).count)
                   /\ Handle(z)
      BY <1>8 DEF ReadFilter
    <2>2. responses # <<>> /\ Head(responses).type = "Filter"
      BY <1>8, <1>b DEF ReadFilter
    <2>3. Sound(z, keys) /\ Outstanding(z) = Outstanding(agg)
      BY <1>a, <2>1, ResetsKeep
    <2> QED  BY <2>1, <2>2, <2>3, HandleKeeps
  <1> QED  BY <1>1, <1>2, <1>3, <1>4, <1>5, <1>6, <1>7, <1>8

(* ProcessTargetError() forgets the state; for an active target nothing was   *)
(* outstanding.                                                            *)
LEMMA FailedStep ==
    ASSUME BooksInv, ReadFailed
    PROVE  BooksInv'
  <1>1. /\ responses # <<>> /\ Head(responses).type = "Failed"
        /\ responses' = Tail(responses)
        /\ UNCHANGED <<keys, cached, truth, unfounded, open, requests, backend,
                       result, changes, errors>>
    BY DEF ReadFailed, Reads
  <1>2. /\ open /\ Tail(responses) \in Seq(Response)
        /\ Cardinality(Answers(responses)) = Cardinality(Answers(Tail(responses)))
    BY <1>1, ReadsFacts
  <1>3. Sound(agg, keys) /\ agg \in Aggregator /\ agg.ok
    BY DEF BooksInv, Sound
  <1>4. PICK n \in Aggregator :
            n = [agg EXCEPT !.state = NoState] /\ n.state = NoState /\ n.ok
    <2>1. LET z == [agg EXCEPT !.state = NoState]
          IN  z \in Aggregator /\ z.state = NoState /\ z.ok = agg.ok
      BY <1>3 DEF Aggregator
    <2> QED  BY <1>3, <2>1
  <1>5. Sound(n, keys) /\ Outstanding(n) = 0
    BY <1>4 DEF Sound, ChangesSound, Outstanding
  <1>6. CASE Listening
    <2>1. view' = NoView /\ disk' = view.kept /\ agg' = n
      BY <1>4, <1>6 DEF ReadFailed
    <2>2. view.kept \in Token
      BY <1>6 DEF BooksInv, TypeOK, View, Listening
    <2>3. early' \in BOOLEAN /\ (~early' => ~early /\ IsActive(agg))
      BY <1>6 DEF ReadFailed
    <2>4. TypeOK'
      BY <1>1, <1>2, <2>1, <2>2, <2>3 DEF BooksInv, TypeOK
    <2>5. ASSUME ~early'
          PROVE  Outstanding(agg') = Len(requests') + Cardinality(Answers(responses'))
      <3>1. /\ Outstanding(agg) = 0
            /\ Outstanding(agg) = Len(requests) + Cardinality(Answers(responses))
        BY <1>3, <2>3, <2>5, ActiveFacts DEF BooksInv
      <3> QED  BY <1>1, <1>2, <1>5, <2>1, <3>1
    <2>6. Sound(agg, keys)'
      BY <1>1, <1>5, <2>1 DEF Sound, ChangesSound, SoundState
    <2>7. ClosedIsQuiet'
      BY <1>1, <1>2 DEF ClosedIsQuiet
    <2> QED  BY <2>4, <2>5, <2>6, <2>7 DEF BooksInv
  <1>7. CASE ~Listening
    <2>1. UNCHANGED <<view, disk, agg>> /\ early' = early
      <3>1. early \in BOOLEAN
        BY DEF BooksInv, TypeOK
      <3> QED  BY <1>7, <3>1 DEF ReadFailed
    <2>2. TypeOK'
      BY <1>1, <1>2, <2>1 DEF BooksInv, TypeOK
    <2>3. Sound(agg, keys)'
      BY <1>1, <1>3, <2>1 DEF Sound, ChangesSound, SoundState
    <2>4. ClosedIsQuiet'
      BY <1>1, <1>2 DEF ClosedIsQuiet
    <2>5. ASSUME ~early'
          PROVE  Outstanding(agg') = Len(requests') + Cardinality(Answers(responses'))
      BY <1>1, <1>2, <2>1, <2>5 DEF BooksInv
    <2> QED  BY <2>2, <2>3, <2>4, <2>5 DEF BooksInv
  <1> QED  BY <1>6, <1>7

(* A global snapshot: what the aggregator keeps is sound for the new keys,   *)
(* and a new listen of the target is counted.                              *)
LEMMA SnapshotStep ==
    ASSUME BooksInv, ReadSnapshot
    PROVE  BooksInv'
  <1>1. PICK msg : msg = Head(responses)
    OBVIOUS
  <1>2. /\ responses # <<>> /\ msg.type = "Snapshot" /\ msg.token \in Token
        /\ msg.result \in Documents /\ open /\ Tail(responses) \in Seq(Response)
        /\ Cardinality(Answers(responses)) = Cardinality(Answers(Tail(responses)))
        /\ Cardinality(Answers(responses)) \in Nat
    <2>1. responses # <<>> /\ msg.type = "Snapshot"
      BY <1>1 DEF ReadSnapshot, Reads
    <2>2. Head(responses) \in Response
      BY <2>1, ReadsFacts
    <2> QED  BY <1>1, <2>1, <2>2, ReadsFacts, ResponseHas
  <1>3. /\ Sound(agg, keys) /\ agg \in Aggregator /\ agg.ok
        /\ agg.updates \in [Keys -> Versions \cup {-1}] /\ agg.reset \in BOOLEAN
    BY StateIs DEF BooksInv, Sound
  <1>4. /\ requests \in Seq(Request) /\ keys \subseteq Keys
        /\ cached \in Documents /\ truth \in Documents /\ disk \in Token
        /\ unfounded \subseteq Keys /\ view \in View \cup {NoView}
    BY DEF BooksInv, TypeOK
  <1>5. PICK active, known :
            /\ active = IsActive(agg)
            /\ known = (active /\ agg.state # NoState)
    OBVIOUS
  <1>6. PICK s :
            /\ s = IF known THEN UpdateResumeToken(agg.state, msg.token)
                            ELSE agg.state
            /\ s \in TargetState \cup {NoState}
            /\ s # NoState => s \in TargetState /\ SoundState(s, keys)
            /\ (IF s = NoState THEN 0 ELSE s.outstanding) = Outstanding(agg)
            /\ known => s \in TargetState
    <2>1. CASE known
      <3>1. agg.state \in TargetState /\ SoundState(agg.state, keys)
            /\ Outstanding(agg) = agg.state.outstanding
        BY <1>3, <1>5, <2>1, StateIs DEF Sound, ChangesSound, Outstanding
      <3>2. PICK z : z = UpdateResumeToken(agg.state, msg.token)
        OBVIOUS
      <3>3. z \in TargetState /\ SoundState(z, keys)
            /\ z.outstanding = agg.state.outstanding
        BY <1>2, <3>1, <3>2, StateOps
      <3>4. z # NoState
        BY <3>3, NoStateAssumption
      <3> QED  BY <2>1, <3>1, <3>2, <3>3, <3>4
    <2>2. CASE ~known
      BY <1>3, <2>2, StateIs DEF Sound, ChangesSound, Outstanding
    <2> QED  BY <2>1, <2>2
  <1>7. PICK event, mismatch :
            /\ event = (known /\ s.pending)
            /\ mismatch = (agg.reset /\ Listening)
    OBVIOUS
  <1> DEFINE Is(c) == {k \in Keys : event /\ s.changes[k] = c}
             after == [NewAggregator EXCEPT
                        !.ok = agg.ok /\ Is("Modified") \subseteq keys,
                        !.state = IF event THEN ClearPendingChanges(s) ELSE s]
  <1>8. /\ cached' = [k \in Keys |-> IF agg.updates[k] = -1 THEN cached[k]
                                                            ELSE agg.updates[k]]
        /\ keys' = (keys \cup Is("Added")) \ Is("Removed")
        /\ view' =
            IF ~Listening THEN NoView
            ELSE [current |-> IF event THEN s.current ELSE view.current,
                  carried |-> IF event THEN s.carried ELSE view.carried,
                  token |-> NextToken(view.token, IF event THEN s.token ELSE NoToken,
                                      mismatch),
                  kept |-> IF event THEN NextToken(view.kept, s.token, mismatch)
                                    ELSE view.kept]
        /\ IF event
           THEN disk' \in Persisted(view.kept, view'.kept, s.changes # NoChanges)
           ELSE UNCHANGED disk
        /\ truth' = IF active THEN msg.result
                    ELSE [k \in Keys |-> IF agg.updates[k] = 0 THEN 0 ELSE truth[k]]
        /\ unfounded' = IF mismatch THEN keys'
                        ELSE unfounded \ {k \in Keys : event /\ s.changes[k] # "None"}
        /\ agg' = IF mismatch
                  THEN RecordPendingTargetRequest(RecordPendingTargetRequest(after))
                  ELSE after
        /\ requests' = IF mismatch THEN requests \o <<Unwatch, Watch(NoToken)>>
                                   ELSE requests
        /\ responses' = Tail(responses)
        /\ UNCHANGED <<open, backend, result, changes, errors, early>>
    BY <1>1, <1>5, <1>6, <1>7 DEF ReadSnapshot, failures
  <1>9. /\ keys' \subseteq Keys /\ (~event => keys' = keys)
        /\ Is("Modified") \subseteq keys
    <2>1. ~event => Is("Added") = {} /\ Is("Removed") = {} /\ Is("Modified") = {}
      OBVIOUS
    <2>2. event => SoundState(s, keys)
      BY <1>6, <1>7, NoStateAssumption
    <2>3. Is("Modified") \subseteq keys
      BY <2>1, <2>2 DEF SoundState
    <2> QED  BY <1>4, <1>8, <2>1, <2>3
  <1>10. PICK t \in TargetState \cup {NoState} :
            /\ t = IF event THEN ClearPendingChanges(s) ELSE s
            /\ t # NoState => SoundState(t, keys')
            /\ (IF t = NoState THEN 0 ELSE t.outstanding) = Outstanding(agg)
    <2>1. CASE event
      <3>1. s \in TargetState /\ s # NoState /\ SoundState(s, keys)
            /\ s.outstanding = Outstanding(agg)
        BY <1>6, <1>7, <2>1, NoStateAssumption
      <3>2. PICK z : z = ClearPendingChanges(s)
        OBVIOUS
      <3>3. /\ z \in TargetState /\ SoundState(z, keys')
            /\ z.outstanding = s.outstanding
        BY <3>1, <3>2, StateOps
      <3>4. z # NoState
        BY <3>3, NoStateAssumption
      <3> QED  BY <2>1, <3>1, <3>2, <3>3, <3>4
    <2>2. CASE ~event
      BY <1>6, <1>9, <2>2
    <2> QED  BY <2>1, <2>2
  <1>11. PICK n \in Aggregator : n = after /\ n.state = t /\ n.ok
    <2>1. after = [NewAggregator EXCEPT !.ok = TRUE, !.state = t]
      BY <1>3, <1>9, <1>10
    <2>2. LET z == [NewAggregator EXCEPT !.ok = TRUE, !.state = t]
          IN  z \in Aggregator /\ z.state = t /\ z.ok
      BY NewAggregatorType DEF NewAggregator, Aggregator, Sound
    <2> QED  BY <2>1, <2>2
  <1>12. Sound(n, keys') /\ Outstanding(n) = Outstanding(agg)
    BY <1>10, <1>11 DEF Sound, ChangesSound, Outstanding
  <1>13. /\ Sound(agg', keys') /\ requests' \in Seq(Request)
         /\ ~early' => Outstanding(agg') = Len(requests')
                                            + Cardinality(Answers(responses'))
    <2>1. ~early' => Outstanding(agg) = Len(requests)
                                        + Cardinality(Answers(responses))
      BY <1>8 DEF BooksInv
    <2>2. Cardinality(Answers(responses')) = Cardinality(Answers(responses))
      BY <1>2, <1>8
    <2>3. Len(requests) \in Nat
      BY <1>4
    <2>4. CASE mismatch
      <3>1. PICK x : x = RecordPendingTargetRequest(n)
        OBVIOUS
      <3>2. Sound(x, keys') /\ Outstanding(x) = Outstanding(agg) + 1
        BY <1>12, <3>1, RecordKeeps
      <3>3. Sound(agg', keys') /\ Outstanding(agg') = Outstanding(agg) + 1 + 1
        <4>1. agg' = RecordPendingTargetRequest(x)
          BY <1>8, <1>11, <2>4, <3>1
        <4> QED  BY <3>2, <4>1, RecordKeeps
      <3>4. /\ requests' \in Seq(Request) /\ Len(requests') = Len(requests) + 2
        <4>1. PICK u, w \in Request : u = Unwatch /\ w = Watch(NoToken)
          <5>1. NoToken \in Token
            BY DEF Token
          <5> QED  BY <5>1, RequestHas
        <4>2. requests' = requests \o <<u, w>>
          BY <1>8, <2>4, <4>1
        <4>3. <<u, w>> \in Seq(Request) /\ Len(<<u, w>>) = 2
          OBVIOUS
        <4> QED  BY <1>4, <4>2, <4>3, ConcatProperties
      <3>5. \A a, b, c \in Int : a = b + c => a + 1 + 1 = b + 2 + c
        OBVIOUS
      <3>6. Outstanding(agg) \in Int
        BY <1>3, EnsureKeeps
      <3>7. ~early' => Outstanding(agg) + 1 + 1 =
                            Len(requests) + 2 + Cardinality(Answers(responses))
        BY <1>2, <2>1, <2>3, <3>5, <3>6
      <3> QED  BY <2>2, <3>3, <3>4, <3>7
    <2>5. CASE ~mismatch
      BY <1>4, <1>8, <1>11, <1>12, <2>1, <2>2, <2>5
    <2> QED  BY <2>4, <2>5
  <1>14. view' \in View \cup {NoView} /\ disk' \in Token
    <2>1. CASE ~Listening
      <3>1. ~event
        BY <1>5, <1>7, <2>1 DEF IsActive
      <3> QED  BY <1>4, <1>8, <2>1, <3>1
    <2>2. CASE Listening
      <3>1. /\ view.current \in BOOLEAN /\ view.carried \in BOOLEAN
            /\ view.token \in Token /\ view.kept \in Token
        BY <1>4, <2>2 DEF Listening, View
      <3>2. event => /\ s.current \in BOOLEAN /\ s.carried \in BOOLEAN
                     /\ s.token \in Token
        BY <1>6, <1>7 DEF TargetState
      <3>3. \A old, x \in Token : NextToken(old, x, mismatch) \in Token
        BY DEF NextToken, Token
      <3>4. PICK c, d \in BOOLEAN :
                /\ c = (IF event THEN s.current ELSE view.current)
                /\ d = (IF event THEN s.carried ELSE view.carried)
        BY <3>1, <3>2
      <3>5. PICK x, y \in Token :
                /\ x = NextToken(view.token, IF event THEN s.token ELSE NoToken,
                                 mismatch)
                /\ y = IF event THEN NextToken(view.kept, s.token, mismatch)
                                ELSE view.kept
        <4>1. NoToken \in Token
          BY DEF Token
        <4>2. (IF event THEN s.token ELSE NoToken) \in Token
          BY <3>2, <4>1
        <4> QED  BY <3>1, <3>2, <3>3, <4>2
      <3>6. view' = [current |-> c, carried |-> d, token |-> x, kept |-> y]
        BY <1>8, <2>2, <3>4, <3>5
      <3>7. view' \in View /\ view'.kept = y
        BY <3>6 DEF View
      <3>8. disk' \in Token
        BY <1>4, <1>8, <3>7 DEF Persisted
      <3> QED  BY <3>7, <3>8
    <2> QED  BY <2>1, <2>2
  <1>15. cached' \in Documents /\ truth' \in Documents
    <2>1. 0 \in Versions
      BY WatchAggregatorAssumption DEF Versions
    <2> QED  BY <1>2, <1>3, <1>4, <1>8, <2>1 DEF Documents
  <1>16. unfounded' \subseteq Keys
    BY <1>4, <1>8, <1>9
  <1>17. TypeOK'
    <2>1. agg' \in Aggregator
      BY <1>13 DEF Sound
    <2> QED  BY <1>2, <1>8, <1>9, <1>13, <1>14, <1>15, <1>16, <2>1
             DEF BooksInv, TypeOK
  <1>18. Sound(agg, keys)'
    BY <1>13 DEF Sound, ChangesSound, SoundState
  <1>19. ClosedIsQuiet'
    BY <1>2, <1>8 DEF ClosedIsQuiet
  <1> QED  BY <1>13, <1>17, <1>18, <1>19 DEF BooksInv, Outstanding, Answers

-----------------------------------------------------------------------------
(* The backend.                                                            *)

(* The backend sends a message that is no answer.                          *)
LEMMA SendKeeps ==
    ASSUME BooksInv, open, NEW r \in Response, r.type \notin {"Added", "Removed"},
           responses' = Append(responses, r), backend' \in Backend,
           UNCHANGED <<client, open, agg, result, changes, requests, early>>,
           errors' \in 0..MaxErrors
    PROVE  BooksInv'
  <1>1. UNCHANGED <<view, keys, cached, disk, truth, unfounded, open, agg, result,
                    changes, requests, early>>
    BY DEF client
  <1>2. /\ responses \in Seq(Response) /\ responses' \in Seq(Response)
        /\ Cardinality(Answers(responses')) = Cardinality(Answers(responses))
    <2>1. responses \in Seq(Response)
      BY DEF BooksInv, TypeOK
    <2> QED  BY <2>1, AnswersAppend, AppendProperties
  <1>3. TypeOK'
    BY <1>1, <1>2 DEF BooksInv, TypeOK
  <1>4. Sound(agg, keys)'
    BY <1>1 DEF BooksInv, Sound, ChangesSound, SoundState
  <1>5. ClosedIsQuiet'
    BY <1>1 DEF ClosedIsQuiet
  <1>6. ASSUME ~early'
        PROVE  Outstanding(agg') = Len(requests') + Cardinality(Answers(responses'))
    BY <1>1, <1>2, <1>6 DEF BooksInv
  <1> QED  BY <1>3, <1>4, <1>5, <1>6 DEF BooksInv

(* What the backend knows it told stays a set of documents.                *)
LEMMA BackendOps ==
    ASSUME NEW b \in Backend
    PROVE  /\ \A k \in Keys, v \in Versions :
                [b EXCEPT !.told[k] = v, !.news = TRUE] \in Backend
           /\ \A d \in Documents :
                [b EXCEPT !.told = d, !.news = TRUE] \in Backend
           /\ [b EXCEPT !.phase = "Current", !.news = TRUE] \in Backend
           /\ \A n \in BOOLEAN : [b EXCEPT !.news = n] \in Backend
           /\ b.told \in Documents
           /\ Silent \in Backend /\ Nothing \in Documents
           /\ \A p \in {"Sending", "Resetting"}, d \in Documents :
                [phase |-> p, told |-> d, news |-> TRUE] \in Backend
  <1>1. b.told \in Documents
    BY DEF Backend
  <1>2. ASSUME NEW k \in Keys, NEW v \in Versions
        PROVE  [b EXCEPT !.told[k] = v, !.news = TRUE] \in Backend
    <2>1. [b.told EXCEPT ![k] = v] \in Documents
      BY <1>1 DEF Documents
    <2>2. PICK g \in Documents : g = [b.told EXCEPT ![k] = v]
      BY <2>1
    <2>3. [b EXCEPT !.told = g, !.news = TRUE] \in Backend
      BY DEF Backend
    <2> QED  BY <2>2, <2>3
  <1>3. Nothing \in Documents
    BY WatchAggregatorAssumption DEF Nothing, Documents, Versions
  <1>4. Silent \in Backend
    BY <1>3 DEF Silent, Backend
  <1> QED  BY <1>1, <1>2, <1>3, <1>4 DEF Backend

(* What the backend sends of its own accord.                               *)
LEMMA SendsStep ==
    ASSUME BooksInv, BackendSends \/ SendFailure
    PROVE  BooksInv'
  <1>a. /\ backend \in Backend /\ result \in Documents /\ errors \in 0..MaxErrors
        /\ \A k \in Keys : result[k] \in Versions
    BY DEF BooksInv, TypeOK, Documents
  <1>b. ASSUME NEW r, NEW b, Sends(r, b), r \in Response,
               r.type \notin {"Added", "Removed"}, b \in Backend
        PROVE  BooksInv'
    <2>1. /\ open /\ responses' = Append(responses, r) /\ backend' = b
          /\ UNCHANGED <<client, open, agg, result, changes, requests, early, errors>>
      BY <1>b DEF Sends, Respond, BackendStep, failures
    <2> QED  BY <1>a, <1>b, <2>1, SendKeeps
  <1>c. \A d \in Documents : d \in Token
    BY DEF Token
  <1>1. ASSUME NEW k \in Keys, SendDocument(k) PROVE BooksInv'
    <2>1. PICK r \in Response : r = [type |-> "Document", key |-> k,
                                     version |-> result[k]]
                                /\ r.type = "Document"
      BY <1>a, ResponseIs
    <2>2. PICK b \in Backend : b = [backend EXCEPT !.told[k] = result[k], !.news = TRUE]
      BY <1>a, BackendOps
    <2>3. Sends(r, b)
      BY <1>1, <2>1, <2>2 DEF SendDocument
    <2> QED  BY <1>b, <2>1, <2>3
  <1>2. ASSUME NEW k \in Keys, SendRemoval(k) PROVE BooksInv'
    <2>1. PICK t \in {"Deleted", "Left"} :
            Sends([type |-> t, key |-> k], [backend EXCEPT !.told[k] = 0, !.news = TRUE])
      BY <1>2 DEF SendRemoval
    <2>2. PICK r \in Response : r = [type |-> t, key |-> k] /\ r.type = t
      BY ResponseIs
    <2>3. PICK b \in Backend : b = [backend EXCEPT !.told[k] = 0, !.news = TRUE]
      <3>1. 0 \in Versions
        BY WatchAggregatorAssumption DEF Versions
      <3> QED  BY <1>a, <3>1, BackendOps
    <2> QED  BY <1>b, <2>1, <2>2, <2>3
  <1>3. ASSUME NEW k \in Keys, SendLookup(k) PROVE BooksInv'
    <2>1. PICK r \in Response : r = [type |-> "Lookup", key |-> k]
                                /\ r.type = "Lookup"
      BY ResponseIs
    <2>2. PICK b \in Backend : b = [backend EXCEPT !.news = TRUE]
      BY <1>a, BackendOps
    <2>3. Sends(r, b)
      BY <1>3, <2>1, <2>2 DEF SendLookup
    <2> QED  BY <1>b, <2>1, <2>3
  <1>4. CASE SendFilter
    <2>1. Cardinality(Present(result)) \in 0..Cardinality(Keys)
      <3>1. Present(result) \subseteq Keys
        BY DEF Present
      <3>2. /\ IsFiniteSet(Present(result))
            /\ Cardinality(Present(result)) <= Cardinality(Keys)
        BY <3>1, FS_Subset, WatchAggregatorAssumption
      <3> QED  BY <3>2, FS_CardinalityType, WatchAggregatorAssumption
    <2>2. PICK r \in Response :
            r = [type |-> "Filter", count |-> Cardinality(Present(result))]
            /\ r.type = "Filter"
      BY <2>1, ResponseIs
    <2>3. PICK b \in Backend : b = [backend EXCEPT !.told = result, !.news = TRUE]
      BY <1>a, BackendOps
    <2>4. Sends(r, b)
      BY <1>4, <2>2, <2>3 DEF SendFilter
    <2> QED  BY <1>b, <2>2, <2>4
  <1>5. CASE SendReset
    <2>1. PICK r \in Response : r = [type |-> "Reset"] /\ r.type = "Reset"
      BY ResponseIs
    <2>2. PICK b \in Backend :
            b = [phase |-> "Resetting", told |-> Nothing, news |-> TRUE]
      BY <1>a, BackendOps
    <2>3. Sends(r, b)
      BY <1>5, <2>1, <2>2 DEF SendReset
    <2> QED  BY <1>b, <2>1, <2>3
  <1>6. CASE SendCurrent
    <2>1. PICK r \in Response : r = [type |-> "Current", token |-> result]
                                /\ r.type = "Current"
      BY <1>a, <1>c, ResponseIs
    <2>2. PICK b \in Backend : b = [backend EXCEPT !.phase = "Current", !.news = TRUE]
      BY <1>a, BackendOps
    <2>3. Sends(r, b)
      BY <1>6, <2>1, <2>2 DEF SendCurrent
    <2> QED  BY <1>b, <2>1, <2>3
  <1>7. CASE SendSnapshot
    <2>1. PICK r \in Response :
            r = [type |-> "Snapshot", token |-> backend.told, result |-> result]
            /\ r.type = "Snapshot"
      <3>1. backend.told \in Token
        BY <1>a, <1>c, BackendOps
      <3> QED  BY <1>a, <3>1, ResponseIs
    <2>2. PICK b \in Backend : b = [backend EXCEPT !.news = FALSE]
      BY <1>a, BackendOps
    <2>3. Sends(r, b)
      BY <1>7, <2>1, <2>2 DEF SendSnapshot
    <2> QED  BY <1>b, <2>1, <2>3
  <1>8. CASE SendFailure
    <2>1. open
      BY <1>8 DEF SendFailure, BooksInv, TypeOK, ClosedIsQuiet
    <2>2. errors' \in 0..MaxErrors
      BY <1>8, <1>a, WatchAggregatorAssumption DEF SendFailure
    <2>3. PICK r \in Response : r = [type |-> "Failed"] /\ r.type = "Failed"
      BY ResponseIs
    <2>4. /\ responses' = Append(responses, r) /\ backend' \in Backend
          /\ UNCHANGED <<client, open, agg, result, changes, requests, early>>
      BY <1>8, <1>a, <2>3, BackendOps DEF SendFailure, Respond, BackendStep
    <2> QED  BY <2>1, <2>2, <2>3, <2>4, SendKeeps
  <1> QED  BY <1>1, <1>2, <1>3, <1>4, <1>5, <1>6, <1>7, <1>8 DEF BackendSends

(* A request is answered: what was a request due is a response due.        *)
LEMMA AnswersStep ==
    ASSUME BooksInv, BackendAnswers
    PROVE  BooksInv'
  <1>1. /\ requests # <<>> /\ requests' = Tail(requests)
        /\ UNCHANGED <<view, keys, cached, disk, truth, unfounded, open, agg, result,
                       changes, errors, early>>
    BY DEF BackendAnswers, BackendStep, client, failures
  <1>2. /\ requests \in Seq(Request) /\ responses \in Seq(Response)
        /\ backend \in Backend /\ open \in BOOLEAN
    BY DEF BooksInv, TypeOK
  <1>3. /\ Head(requests) \in Request /\ requests' \in Seq(Request)
        /\ Len(requests) \in Nat /\ Len(requests') = Len(requests) - 1
    BY <1>1, <1>2, HeadTailProperties
  <1>4. open
    BY <1>1, <1>2 DEF BooksInv, ClosedIsQuiet
  <1>5. PICK r \in Response : responses' = Append(responses, r)
                              /\ r.type \in {"Added", "Removed"}
    <2>1. \A t \in {"Added", "Removed"} : [type |-> t] \in Response
      BY ResponseIs
    <2>2. \/ responses' = Append(responses, [type |-> "Added"])
          \/ responses' = Append(responses, [type |-> "Removed"])
      BY DEF BackendAnswers, Respond
    <2>3. [type |-> "Added"].type = "Added" /\ [type |-> "Removed"].type = "Removed"
      OBVIOUS
    <2> QED  BY <2>1, <2>2, <2>3
  <1>6. /\ responses' \in Seq(Response)
        /\ Cardinality(Answers(responses')) = Cardinality(Answers(responses)) + 1
        /\ Cardinality(Answers(responses)) \in Nat
    <2>1. Len(responses) \in Nat
      BY <1>2
    <2> QED  BY <1>2, <1>5, <2>1, AnswersAppend, AnswersFinite, AppendProperties
  <1>7. backend' \in Backend
    <2>1. CASE Head(requests) = Unwatch
      BY <1>2, <2>1, BackendOps DEF BackendAnswers
    <2>2. CASE Head(requests) # Unwatch
      <3>1. Head(requests).token \in Token
        BY <1>3, <2>2, RequestHas
      <3>2. PICK d \in Documents : d = IF Head(requests).token = NoToken THEN Nothing
                                        ELSE Head(requests).token
        BY <1>2, <3>1, BackendOps DEF Token
      <3>3. backend' = [phase |-> "Sending", told |-> d, news |-> TRUE]
        BY <2>2, <3>2 DEF BackendAnswers
      <3> QED  BY <1>2, <3>3, BackendOps
    <2> QED  BY <2>1, <2>2
  <1>8. TypeOK'
    BY <1>1, <1>3, <1>6, <1>7 DEF BooksInv, TypeOK
  <1>9. Sound(agg, keys)'
    BY <1>1 DEF BooksInv, Sound, ChangesSound, SoundState
  <1>10. ClosedIsQuiet'
    BY <1>1, <1>4 DEF ClosedIsQuiet
  <1>11. ASSUME ~early'
         PROVE  Outstanding(agg') = Len(requests') + Cardinality(Answers(responses'))
    <2>1. Outstanding(agg) = Len(requests) + Cardinality(Answers(responses))
      BY <1>1, <1>11 DEF BooksInv
    <2>2. \A a, b \in Nat : a + b = (a - 1) + (b + 1)
      OBVIOUS
    <2>3. agg' = agg
      BY <1>1
    <2> QED  BY <1>3, <1>6, <2>1, <2>2, <2>3
  <1> QED  BY <1>8, <1>9, <1>10, <1>11 DEF BooksInv

(* The result changes.                                                     *)
LEMMA ResultStep ==
    ASSUME BooksInv, NEW k \in Keys, ResultChanges(k)
    PROVE  BooksInv'
  <1>1. UNCHANGED <<view, keys, cached, disk, truth, unfounded, open, agg, requests,
                    responses, backend, errors, early>>
    BY DEF ResultChanges, client, failures
  <1>2. changes \in 0..MaxChanges /\ changes < MaxChanges /\ changes' = changes + 1
        /\ MaxChanges \in Nat /\ result \in Documents
    BY WatchAggregatorAssumption DEF ResultChanges, BooksInv, TypeOK
  <1>3. result' \in Documents
    <2>1. PICK v \in {0, changes + 2} : result' = [result EXCEPT ![k] = v]
      BY DEF ResultChanges
    <2>2. v \in Versions
      BY <1>2 DEF Versions
    <2> QED  BY <1>2, <2>1, <2>2 DEF Documents
  <1>4. changes' \in 0..MaxChanges
    BY <1>2
  <1>5. TypeOK'
    BY <1>1, <1>3, <1>4 DEF BooksInv, TypeOK
  <1>6. Sound(agg, keys)' /\ ClosedIsQuiet'
    BY <1>1 DEF BooksInv, Sound, ChangesSound, SoundState, ClosedIsQuiet
  <1>7. ASSUME ~early'
        PROVE  Outstanding(agg') = Len(requests') + Cardinality(Answers(responses'))
    BY <1>1, <1>7 DEF BooksInv
  <1> QED  BY <1>5, <1>6, <1>7 DEF BooksInv

-----------------------------------------------------------------------------
(* The client and the stream.                                              *)

(* The target is watched, or no longer: on an open stream that is a request, *)
(* and it is counted.                                                      *)
LEMMA AskStep ==
    ASSUME BooksInv, Listen \/ StopListening
    PROVE  BooksInv'
  <1>1. UNCHANGED <<keys, cached, truth, unfounded, open, responses, backend, result,
                    changes, errors, early>>
    BY DEF Listen, StopListening, failures
  <1>2. /\ view \in View \cup {NoView} /\ disk \in Token /\ open \in BOOLEAN
        /\ requests \in Seq(Request) /\ responses \in Seq(Response)
        /\ Sound(agg, keys)
    BY DEF BooksInv, TypeOK
  <1>3. view' \in View \cup {NoView} /\ disk' \in Token
    <2>1. CASE Listen
      <3>1. view' = [current |-> FALSE, token |-> disk, kept |-> disk, carried |-> FALSE]
            /\ disk' = disk
        BY <2>1 DEF Listen
      <3> QED  BY <1>2, <3>1 DEF View
    <2>2. CASE StopListening
      <3>1. view' = NoView /\ disk' = view.kept /\ view # NoView
        BY <2>2 DEF StopListening, Listening
      <3> QED  BY <1>2, <3>1 DEF View
    <2> QED  BY <2>1, <2>2
  <1>4. /\ Sound(agg', keys) /\ requests' \in Seq(Request)
        /\ (~open => requests' = <<>> /\ agg'.state = NoState)
        /\ ~early => Outstanding(agg') = Len(requests') + Cardinality(Answers(responses))
    <2>1. CASE ~open
      <3>1. agg' = agg /\ requests' = requests
        BY <2>1 DEF Listen, StopListening
      <3> QED  BY <1>2, <2>1, <3>1 DEF BooksInv, ClosedIsQuiet
    <2>2. CASE open
      <3>1. PICK r \in Request : requests' = Append(requests, r)
        BY <1>2, <2>2, RequestHas DEF Listen, StopListening
      <3>2. agg' = RecordPendingTargetRequest(agg)
        BY <2>2 DEF Listen, StopListening
      <3>3. Sound(agg', keys) /\ Outstanding(agg') = Outstanding(agg) + 1
        BY <1>2, <3>2, RecordKeeps
      <3>4. /\ requests' \in Seq(Request) /\ Len(requests) \in Nat
            /\ Len(requests') = Len(requests) + 1
        BY <1>2, <3>1, AppendProperties
      <3>5. Cardinality(Answers(responses)) \in Nat
        <4>1. Len(responses) \in Nat
          BY <1>2
        <4> QED  BY <4>1, AnswersFinite
      <3>6. ASSUME ~early
            PROVE  Outstanding(agg') =
                        Len(requests') + Cardinality(Answers(responses))
        <4>1. Outstanding(agg) = Len(requests) + Cardinality(Answers(responses))
          BY <3>6 DEF BooksInv
        <4>2. \A a, b \in Nat : (a + b) + 1 = (a + 1) + b
          OBVIOUS
        <4> QED  BY <3>3, <3>4, <3>5, <4>1, <4>2
      <3> QED  BY <2>2, <3>3, <3>4, <3>6
    <2> QED  BY <2>1, <2>2
  <1>5. TypeOK'
    BY <1>1, <1>3, <1>4 DEF BooksInv, TypeOK, Sound
  <1>6. Sound(agg, keys)'
    BY <1>1, <1>4 DEF Sound, ChangesSound, SoundState
  <1>7. ClosedIsQuiet'
    BY <1>1, <1>4 DEF BooksInv, ClosedIsQuiet
  <1>8. ASSUME ~early'
        PROVE  Outstanding(agg') = Len(requests') + Cardinality(Answers(responses'))
    BY <1>1, <1>4, <1>8
  <1> QED  BY <1>5, <1>6, <1>7, <1>8 DEF BooksInv

(* Nothing is due when nothing is under way.                               *)
LEMMA NoAnswers == Len(<<>>) = 0 /\ Cardinality(Answers(<<>>)) = 0
  <1>1. Len(<<>>) = 0
    OBVIOUS
  <1>2. Answers(<<>>) = {}
    BY <1>1 DEF Answers
  <1> QED  BY <1>1, <1>2, FS_EmptySet

(* A stream opens, with an aggregator of its own that waits for the answer   *)
(* to the one request, if there is one.                                    *)
LEMMA OpensStep ==
    ASSUME BooksInv, StreamOpens
    PROVE  BooksInv'
  <1>1. /\ ~open /\ open' = TRUE
        /\ UNCHANGED <<view, keys, cached, disk, truth, unfounded, responses, backend,
                       result, changes, errors, early>>
    BY DEF StreamOpens, client, failures
  <1>2. responses = <<>>
    BY <1>1 DEF BooksInv, ClosedIsQuiet
  <1>3. /\ Sound(agg', keys) /\ requests' \in Seq(Request)
        /\ Outstanding(agg') = Len(requests')
    <2>1. CASE Listening
      <3>1. view.token \in Token
        BY <2>1 DEF BooksInv, TypeOK, Listening, View
      <3>2. PICK r \in Request : r = Watch(view.token)
        BY <3>1, RequestHas
      <3>3. requests' = <<r>> /\ agg' = RecordPendingTargetRequest(NewAggregator)
        BY <2>1, <3>2 DEF StreamOpens
      <3>4. Sound(agg', keys) /\ Outstanding(agg') = 0 + 1
        BY <3>3, RecordKeeps, NewAggregatorType
      <3>5. <<r>> \in Seq(Request) /\ Len(<<r>>) = 1
        OBVIOUS
      <3> QED  BY <3>3, <3>4, <3>5
    <2>2. CASE ~Listening
      <3>1. requests' = <<>> /\ agg' = NewAggregator
        BY <2>2 DEF StreamOpens
      <3> QED  BY <3>1, NewAggregatorType, NoAnswers
    <2> QED  BY <2>1, <2>2
  <1>4. TypeOK'
    BY <1>1, <1>3 DEF BooksInv, TypeOK, Sound
  <1>5. Sound(agg, keys)'
    BY <1>1, <1>3 DEF Sound, ChangesSound, SoundState
  <1>6. ClosedIsQuiet'
    BY <1>1 DEF ClosedIsQuiet
  <1>7. Outstanding(agg') = Len(requests') + Cardinality(Answers(responses'))
    <2>1. Cardinality(Answers(responses')) = 0
      BY <1>1, <1>2, NoAnswers
    <2>2. Len(requests') \in Nat
      BY <1>3
    <2> QED  BY <1>3, <2>1, <2>2
  <1> QED  BY <1>4, <1>5, <1>6, <1>7 DEF BooksInv

(* A stream ends: nothing is under way and nothing is waited for.          *)
LEMMA BreaksStep ==
    ASSUME BooksInv, StreamBreaks \/ AppRestart
    PROVE  BooksInv'
  <1>1. /\ open' = FALSE /\ requests' = <<>> /\ responses' = <<>> /\ backend' = Silent
        /\ agg' = [NewAggregator EXCEPT !.ok = agg.ok]
        /\ view' \in {view, NoView}
        /\ UNCHANGED <<keys, cached, disk, truth, unfounded, result, changes, errors, early>>
    BY DEF StreamBreaks, AppRestart, client, failures
  <1>2. agg' = NewAggregator
    <2>1. agg.ok = TRUE
      BY DEF BooksInv, Sound, Aggregator
    <2> QED  BY <1>1, <2>1 DEF NewAggregator
  <1>3. Sound(agg', keys) /\ Outstanding(agg') = 0 /\ agg'.state = NoState
    BY <1>2, NewAggregatorType
  <1>4. backend' \in Backend /\ backend'.phase = "Off"
    BY <1>1, BackendOps DEF BooksInv, TypeOK, Silent
  <1>5. TypeOK'
    <2>1. agg' \in Aggregator
      BY <1>3 DEF Sound
    <2>2. view' \in View \cup {NoView}
      BY <1>1 DEF BooksInv, TypeOK
    <2>3. requests' \in Seq(Request) /\ responses' \in Seq(Response)
      BY <1>1
    <2>4. open' \in BOOLEAN
      BY <1>1
    <2> QED  BY <1>1, <1>4, <2>1, <2>2, <2>3, <2>4 DEF BooksInv, TypeOK
  <1>6. Sound(agg, keys)'
    BY <1>1, <1>3 DEF Sound, ChangesSound, SoundState
  <1>7. ClosedIsQuiet'
    BY <1>1, <1>3, <1>4 DEF ClosedIsQuiet
  <1>8. Outstanding(agg') = Len(requests') + Cardinality(Answers(responses'))
    BY <1>1, <1>3, NoAnswers
  <1> QED  BY <1>5, <1>6, <1>7, <1>8 DEF BooksInv

(* The view is no longer current.                                          *)
LEMMA OfflineStep ==
    ASSUME BooksInv, GoOffline \/ UNCHANGED vars
    PROVE  BooksInv'
  <1>1. /\ UNCHANGED <<keys, cached, disk, truth, unfounded, open, agg, requests,
                       responses, backend, result, changes, errors, early>>
        /\ \/ view' = view
           \/ Listening /\ view' = [view EXCEPT !.current = FALSE]
    BY DEF GoOffline, vars, client, failures
  <1>2. view' \in View \cup {NoView}
    BY <1>1 DEF BooksInv, TypeOK, Listening, View
  <1>3. TypeOK'
    BY <1>1, <1>2 DEF BooksInv, TypeOK
  <1>4. Sound(agg, keys)' /\ ClosedIsQuiet'
    BY <1>1 DEF BooksInv, Sound, ChangesSound, SoundState, ClosedIsQuiet
  <1>5. ASSUME ~early'
        PROVE  Outstanding(agg') = Len(requests') + Cardinality(Answers(responses'))
    BY <1>1, <1>5 DEF BooksInv
  <1> QED  BY <1>3, <1>4, <1>5 DEF BooksInv

-----------------------------------------------------------------------------
(* The theorem.                                                            *)

(* The books are right at the start.                                       *)
LEMMA BooksInit == Init => BooksInv
  <1> SUFFICES ASSUME Init PROVE BooksInv
    OBVIOUS
  <1>1. agg = NewAggregator /\ requests = <<>> /\ responses = <<>> /\ backend = Silent
    BY DEF Init
  <1>2. Sound(agg, keys) /\ Outstanding(agg) = 0 /\ agg.state = NoState
    BY <1>1, NewAggregatorType
  <1>3. Nothing \in Documents /\ result \in Documents
    BY WatchAggregatorAssumption DEF Init, Nothing, Documents, Versions
  <1>4. backend \in Backend /\ backend.phase = "Off"
    BY <1>1, <1>3 DEF Silent, Backend
  <1>5. TypeOK
    <2>1. agg \in Aggregator
      BY <1>2 DEF Sound
    <2>2. /\ view \in View \cup {NoView} /\ disk \in Token
          /\ keys \subseteq Keys /\ unfounded \subseteq Keys
          /\ cached \in Documents /\ truth \in Documents
      BY <1>3 DEF Init, Token
    <2>3. requests \in Seq(Request) /\ responses \in Seq(Response)
      BY <1>1
    <2>4. changes \in 0..MaxChanges /\ errors \in 0..MaxErrors
      BY WatchAggregatorAssumption DEF Init
    <2>5. open \in BOOLEAN /\ early \in BOOLEAN
      BY DEF Init
    <2> QED  BY <1>3, <1>4, <2>1, <2>2, <2>3, <2>4, <2>5 DEF TypeOK
  <1>6. ClosedIsQuiet
    BY <1>1, <1>2, <1>4 DEF ClosedIsQuiet
  <1>7. Outstanding(agg) = Len(requests) + Cardinality(Answers(responses))
    BY <1>1, <1>2, NoAnswers
  <1> QED  BY <1>2, <1>5, <1>6, <1>7 DEF BooksInv

(* Every step keeps them right.                                            *)
LEMMA BooksStep == BooksInv /\ [Next]_vars => BooksInv'
  <1> SUFFICES ASSUME BooksInv, [Next]_vars PROVE BooksInv'
    OBVIOUS
  <1>1. CASE Listen \/ StopListening
    BY <1>1, AskStep
  <1>2. CASE GoOffline \/ UNCHANGED vars
    BY <1>2, OfflineStep
  <1>3. CASE StreamOpens
    BY <1>3, OpensStep
  <1>4. CASE StreamBreaks \/ AppRestart
    BY <1>4, BreaksStep
  <1>5. CASE Reading
    BY <1>5, ReadingStep, FailedStep, SnapshotStep DEF Reading
  <1>6. ASSUME NEW k \in Keys, ResultChanges(k) PROVE BooksInv'
    BY <1>6, ResultStep
  <1>7. CASE BackendAnswers
    BY <1>7, AnswersStep
  <1>8. CASE BackendSends \/ SendFailure
    BY <1>8, SendsStep
  <1> QED  BY <1>1, <1>2, <1>3, <1>4, <1>5, <1>6, <1>7, <1>8 DEF Next

(* BooksInv is an invariant.                                               *)
LEMMA BooksHold == Spec => []BooksInv
  BY BooksInit, BooksStep, PTL DEF Spec

(* The aggregator waits for exactly the responses that RemoteStore's          *)
(* requests will bring, until an error of an earlier life takes the count     *)
(* away; a target is reset, and a document taken for modified, only where the *)
(* HARD_ASSERTs of TargetState and View allow it.                          *)
THEOREM BooksAreExact == Spec => []BooksExact
  <1>1. BooksInv => BooksExact
    <2> SUFFICES ASSUME BooksInv PROVE BooksExact
      OBVIOUS
    <2>1. TypeOK /\ NoAssertionFails
      BY DEF BooksInv, Sound, NoAssertionFails
    <2>2. OutstandingExact
      BY DEF BooksInv, OutstandingExact, Outstanding, Answers
    <2> QED  BY <2>1, <2>2 DEF BooksExact
  <1> QED  BY <1>1, BooksHold, PTL
-----------------------------------------------------------------------------
(* What the messages under way stand for: the second inductive invariant.    *)
(* Between two responses the backend has told something and is in a phase;   *)
(* t[i] and p[i] are what it had told, and its phase, before it sent the      *)
(* i-th of the responses under way.                                        *)

Phase == {"Off", "Sending", "Resetting", "Current"}

(* What a target watched with this token is told to begin with.            *)
Base(token) == IF token = NoToken THEN Nothing ELSE token

(* The tokens that a target may be watched with.                           *)
Tokens == {disk} \cup IF Listening THEN {view.token, view.kept} ELSE {}

(* Version v of a document is not what the backend's result has, and no       *)
(* snapshot after the j-th response says so.                               *)
Outdated(k, v, j) ==
    /\ v <= changes + 1 /\ result[k] # v
    /\ \A i \in 1..Len(responses) :
            i > j /\ responses[i].type = "Snapshot" => responses[i].result[k] # v

(* The document as the next snapshot will store it.                        *)
Now(k) == IF agg.updates[k] = -1 THEN cached[k] ELSE agg.updates[k]

(* The local store has the version, and keeps it, or it is outdated.       *)
Held(k, v, j) ==
    v # 0 => \/ cached[k] = v /\ agg.updates[k] \in {-1, v}
             \/ Outdated(k, v, j)

(* A token goes with the keys: what it says was told is there.             *)
TokenFits(token) ==
    \A k \in Keys : LET v == Base(token)[k] IN
        /\ v <= changes + 1
        /\ v # 0 => k \in keys
        /\ k \in keys => v # 0 \/ k \in unfounded
        /\ Held(k, v, Len(responses))

(* What a response does to what the backend has told, and to its phase.    *)
Link(r, t0, p0, t1, p1) ==
    /\ r.type = "Document" =>
            r.version # 0 /\ t1 = [t0 EXCEPT ![r.key] = r.version] /\ p1 = p0
    /\ r.type \in {"Deleted", "Left"} => t1 = [t0 EXCEPT ![r.key] = 0] /\ p1 = p0
    /\ r.type = "Filter" =>
            /\ p1 = p0 /\ t1 # t0
            /\ \A k \in Keys : t1[k] \in {0, t0[k]}
            /\ Cardinality(Present(t1)) = r.count
    /\ r.type = "Reset" => t1 = Nothing /\ p1 = "Resetting"
    /\ r.type = "Current" => t1 = t0 /\ p1 = "Current"
    /\ r.type = "Lookup" => t1 = t0 /\ p1 = p0
    /\ r.type = "Snapshot" =>
            /\ t1 = t0 /\ p1 = p0 /\ r.token = t0
            /\ p0 = "Current" => r.result = t0

Chain(t, p) ==
    /\ Len(t) = Len(responses) + 1 /\ Len(p) = Len(responses) + 1
    /\ t[Len(responses) + 1] = backend.told /\ p[Len(responses) + 1] = backend.phase
    /\ \A i \in 1..Len(responses) : Link(responses[i], t[i], p[i], t[i + 1], p[i + 1])
    /\ \A i \in 1..Len(responses) + 1, k \in Keys : t[i][k] <= changes + 1

(* The responses that say what became of a document, and what they say.    *)
Tells(r) == r.type \in {"Document", "Deleted", "Lookup"}

Value(r) == IF r.type = "Document" THEN r.version ELSE 0

(* The j-th response confirms the version, or it is outdated by then.      *)
Spent(j, v) ==
    v \in {0, Value(responses[j])} \/ Outdated(responses[j].key, v, j)

Settled(t) ==
    \A j \in 1..Len(responses) : Tells(responses[j]) =>
        /\ \A i \in 1..j + 1 : Spent(j, t[i][responses[j].key])
        /\ \A x \in Tokens : Spent(j, Base(x)[responses[j].key])

(* The document will be one of the view's after the next snapshot.         *)
Will(k) ==
    /\ agg.state.changes[k] # "Removed"
    /\ k \in keys \/ agg.state.changes[k] = "Added"

(* Of an active target the client knows what the backend has told.         *)
Stands(k, v) ==
    /\ ~agg.reset =>
            /\ v # 0 => Will(k)
            /\ Will(k) => v # 0 \/ (k \in unfounded /\ agg.state.changes[k] = "None")
    /\ v # 0 => Now(k) = v \/ Outdated(k, v, 0)

Active(t0, p0) ==
    /\ \A k \in Keys : Stands(k, t0[k])
    /\ agg.state.current /\ ~agg.state.carried => p0 = "Current"

(* The last answer under way, i, is the one to a Watch with the view's token. *)
Coming(t, i) ==
    /\ responses[i].type = "Added"
    /\ \A j \in 1..Len(responses) : j > i => responses[j].type \notin {"Added", "Removed"}
    /\ t[i + 1] = Base(view.token)
    /\ \A k \in Keys : Held(k, t[i + 1][k], i)

Awaiting(t) ==
    /\ view.current => ~agg.reset /\ \A k \in Keys : agg.updates[k] \in {-1, 0}
    /\ \/ requests # <<>> /\ requests[Len(requests)] = Watch(view.token)
       \/ requests = <<>> /\ \E i \in 1..Len(responses) : Coming(t, i)

Position(t, p) ==
    open /\ Listening =>
        /\ agg.state # NoState
        /\ IsActive(agg) => Active(t[1], p[1])
        /\ ~IsActive(agg) => Awaiting(t)

(* What a view shows that is current is what the snapshot stood for.       *)
Viewed ==
    Listening /\ view.current /\ ~view.carried /\ unfounded = {} =>
        \A k \in Keys : truth[k] # 0 \/ k \in keys => cached[k] = truth[k]

(* A document is added to those of the view, or removed from them.         *)
ChangesFit(a, known) ==
    a.state # NoState => \A k \in Keys :
        /\ a.state.changes[k] = "Added" => k \notin known
        /\ a.state.changes[k] = "Removed" => k \in known

Bounded == \A k \in Keys : result[k] <= changes + 1

Traced(t, p) == Chain(t, p) /\ Settled(t) /\ Position(t, p)

TruthInv ==
    /\ ChangesFit(agg, keys) /\ Bounded
    /\ ~early =>
            /\ \A x \in Tokens : TokenFits(x)
            /\ Viewed
            /\ \E t \in Seq(Documents), p \in Seq(Phase) : Traced(t, p)

-----------------------------------------------------------------------------
(* Versions, tokens and the responses under way.                           *)

(* Versions are numbers.                                                   *)
LEMMA DocumentsAre ==
    /\ 0 \in Versions /\ Versions \subseteq Nat /\ Nothing \in Documents
    /\ \A k \in Keys : Nothing[k] = 0
    /\ \A d \in Documents, k \in Keys : d[k] \in Versions /\ d[k] \in Nat
  <1>1. 0 \in Versions /\ Versions \subseteq Nat
    BY WatchAggregatorAssumption DEF Versions
  <1> QED  BY <1>1 DEF Nothing, Documents

(* A target watched with a token is told documents to begin with.          *)
LEMMA BaseIs ==
    /\ Base(NoToken) = Nothing
    /\ \A x \in Token : Base(x) \in Documents
    /\ \A d \in Documents : Base(d) = d /\ d # NoToken
  <1>1. \A d \in Documents : d # NoToken
    BY NoTokenAssumption
  <1> QED  BY <1>1, DocumentsAre DEF Base, Token

(* The client takes the first response.                                    *)
Takes ==
    /\ responses \in Seq(Response) /\ responses # <<>>
    /\ responses' = Tail(responses)
    /\ result' = result /\ changes' = changes

(* The backend gives one more; a snapshot has the result.                  *)
Gives(r) ==
    /\ responses \in Seq(Response) /\ r \in Response
    /\ responses' = Append(responses, r)
    /\ r.type = "Snapshot" => r.result = result
    /\ result' = result /\ changes' = changes

(* The others move up.                                                     *)
LEMMA TakesIs ==
    ASSUME Takes
    PROVE  /\ Len(responses) \in Nat /\ Len(responses) >= 1
           /\ Len(responses') = Len(responses) - 1
           /\ Head(responses) = responses[1] /\ responses[1] \in Response
           /\ \A i \in 1..Len(responses') : responses'[i] = responses[i + 1]
           /\ \A i \in 1..Len(responses) : responses[i] \in Response
  <1>1. responses \in Seq(Response) /\ responses # <<>> /\ responses' = Tail(responses)
    BY DEF Takes
  <1>2. Len(responses) \in Nat /\ Len(responses) >= 1
        /\ Len(responses') = Len(responses) - 1
        /\ Head(responses) = responses[1]
    BY <1>1, HeadTailProperties
  <1>3. \A i \in 1..Len(responses) : responses[i] \in Response
    BY <1>1
  <1>4. \A i \in 1..Len(responses') : responses'[i] = responses[i + 1]
    BY <1>1, <1>2
  <1> QED  BY <1>2, <1>3, <1>4

(* The others stay.                                                        *)
LEMMA GivesIs ==
    ASSUME NEW r, Gives(r)
    PROVE  /\ Len(responses) \in Nat
           /\ Len(responses') = Len(responses) + 1
           /\ responses'[Len(responses) + 1] = r
           /\ \A i \in 1..Len(responses) : responses'[i] = responses[i]
           /\ \A i \in 1..Len(responses) : responses[i] \in Response
  <1>1. responses \in Seq(Response) /\ r \in Response /\ responses' = Append(responses, r)
    BY DEF Gives
  <1> QED  BY <1>1, AppendProperties

(* What is outdated stays so: seen from later, ...                         *)
LEMMA OutdatedLater ==
    ASSUME NEW k, NEW v, NEW j \in Int, NEW i \in Int, j <= i, Outdated(k, v, j),
           Len(responses) \in Nat
    PROVE  Outdated(k, v, i)
  BY DEF Outdated

(* ... when the client takes a response, ...                               *)
LEMMA OutdatedTakes ==
    ASSUME Takes, NEW k, NEW v, NEW j \in Int, NEW i \in Int, j - 1 <= i,
           Outdated(k, v, j), j >= 0, i >= 0
    PROVE  Outdated(k, v, i)'
  <1>1. result' = result /\ changes' = changes
    BY DEF Takes
  <1>2. ASSUME NEW n \in 1..Len(responses'), n > i, responses'[n].type = "Snapshot"
        PROVE  responses'[n].result[k] # v
    <2>1. n + 1 \in 1..Len(responses) /\ n + 1 > j /\ responses'[n] = responses[n + 1]
      BY <1>2, TakesIs
    <2> QED  BY <1>2, <2>1 DEF Outdated
  <1> QED  BY <1>1, <1>2 DEF Outdated

(* ... and when the backend gives one, whose snapshots have the result.    *)
LEMMA OutdatedGives ==
    ASSUME NEW r, Gives(r), NEW k, NEW v, NEW j \in Int, Outdated(k, v, j)
    PROVE  Outdated(k, v, j)'
  <1>1. result' = result /\ changes' = changes /\ (r.type = "Snapshot" => r.result = result)
    BY DEF Gives
  <1>2. ASSUME NEW n \in 1..Len(responses'), n > j, responses'[n].type = "Snapshot"
        PROVE  responses'[n].result[k] # v
    <2>1. CASE n = Len(responses) + 1
      BY <1>1, <1>2, <2>1, GivesIs DEF Outdated
    <2>2. CASE n # Len(responses) + 1
      <3>1. n \in 1..Len(responses) /\ responses'[n] = responses[n]
        BY <2>2, GivesIs
      <3> QED  BY <1>2, <3>1 DEF Outdated
    <2> QED  BY <2>1, <2>2
  <1> QED  BY <1>1, <1>2 DEF Outdated

(* A version that is not in the result is outdated by all that comes.      *)
LEMMA OutdatedNow ==
    ASSUME Len(responses) \in Nat, NEW k, NEW v, v <= changes + 1, result[k] # v,
           NEW j \in Int, j >= Len(responses)
    PROVE  Outdated(k, v, j)
  BY DEF Outdated

(* A new version is a larger one.                                          *)
LEMMA OutdatedChanges ==
    ASSUME BooksInv, NEW c \in Keys, ResultChanges(c),
           NEW k \in Keys, NEW v \in Nat, v # 0, NEW j \in Int, Outdated(k, v, j)
    PROVE  Outdated(k, v, j)'
  <1>1. /\ responses' = responses /\ changes' = changes + 1 /\ changes \in Nat
        /\ result \in Documents
    BY DEF ResultChanges, BooksInv, TypeOK
  <1>2. PICK w \in {0, changes + 2} : result' = [result EXCEPT ![c] = w]
    BY DEF ResultChanges
  <1>3. result'[k] \in {result[k], 0, changes + 2}
    BY <1>1, <1>2 DEF Documents
  <1>4. v <= changes + 1 /\ result[k] # v
    BY DEF Outdated
  <1>5. v <= changes' + 1 /\ result'[k] # v
    BY <1>1, <1>3, <1>4
  <1> QED  BY <1>1, <1>5 DEF Outdated

(* What the client learns from a response that is no snapshot.             *)
Learns(r) ==
    \A k \in Keys : \/ agg'.updates[k] = agg.updates[k]
                    \/ Tells(r) /\ r.key = k /\ agg'.updates[k] = Value(r)

(* A version that is held stays so: the client takes a response, ...       *)
LEMMA HeldTakes ==
    ASSUME Takes, cached' = cached, Learns(responses[1]),
           NEW k \in Keys, NEW v, NEW j \in Nat, NEW i \in Nat, j - 1 <= i,
           Held(k, v, j), Tells(responses[1]) /\ responses[1].key = k => Spent(1, v)
    PROVE  Held(k, v, i)'
  <1> SUFFICES ASSUME v # 0
               PROVE  \/ cached'[k] = v /\ agg'.updates[k] \in {-1, v}
                      \/ Outdated(k, v, i)'
    BY DEF Held
  <1>1. CASE Outdated(k, v, j)
    BY <1>1, OutdatedTakes
  <1>2. CASE cached[k] = v /\ agg.updates[k] \in {-1, v}
    <2>1. CASE agg'.updates[k] = agg.updates[k]
      BY <1>2, <2>1
    <2>2. CASE /\ Tells(responses[1]) /\ responses[1].key = k
               /\ agg'.updates[k] = Value(responses[1])
      <3>1. v = Value(responses[1]) \/ Outdated(k, v, 1)
        BY <2>2 DEF Spent
      <3>2. Outdated(k, v, 1) => Outdated(k, v, i)'
        BY OutdatedTakes
      <3> QED  BY <1>2, <2>2, <3>1, <3>2
    <2> QED  BY <2>1, <2>2 DEF Learns
  <1> QED  BY <1>1, <1>2 DEF Held

(* ... takes a snapshot and stores the documents, ...                      *)
LEMMA HeldStores ==
    ASSUME Takes, NEW k \in Keys, cached'[k] = Now(k), agg'.updates[k] = -1,
           NEW v, NEW j \in Nat, NEW i \in Nat, j - 1 <= i, Held(k, v, j)
    PROVE  Held(k, v, i)'
  <1>1. Outdated(k, v, j) => Outdated(k, v, i)'
    BY OutdatedTakes
  <1> QED  BY <1>1 DEF Held, Now

(* ... or the backend gives one.                                           *)
LEMMA HeldGives ==
    ASSUME NEW r, Gives(r), cached' = cached, agg' = agg,
           NEW k, NEW v, NEW j \in Nat, Held(k, v, j)
    PROVE  Held(k, v, j)'
  <1>1. Outdated(k, v, j) => Outdated(k, v, j)'
    BY OutdatedGives
  <1> QED  BY <1>1 DEF Held

(* It is held later, too.                                                  *)
LEMMA HeldLater ==
    ASSUME NEW k, NEW v, NEW j \in Int, NEW i \in Int, j <= i, Held(k, v, j),
           Len(responses) \in Nat
    PROVE  Held(k, v, i)
  BY OutdatedLater DEF Held

(* What a response confirms or finds outdated stays so: one is taken, ...   *)
LEMMA SpentTakes ==
    ASSUME Takes, NEW j \in 2..Len(responses), NEW v, Spent(j, v)
    PROVE  Spent(j - 1, v)'
  <1>1. /\ j \in Int /\ j - 1 \in Int /\ j - 1 \in 1..Len(responses') /\ j >= 0
        /\ j - 1 >= 0 /\ j - 1 <= j - 1
    BY TakesIs
  <1>2. responses'[j - 1] = responses[j]
    <2>1. (j - 1) + 1 = j
      BY <1>1
    <2> QED  BY <1>1, <2>1, TakesIs
  <1>3. PICK k : k = responses[j].key
    OBVIOUS
  <1>4. Outdated(k, v, j) => Outdated(k, v, j - 1)'
    BY <1>1, OutdatedTakes
  <1>5. responses'[j - 1].key = k /\ Value(responses'[j - 1]) = Value(responses[j])
    BY <1>2, <1>3
  <1>6. v \in {0, Value(responses'[j - 1])} \/ Outdated(k, v, j - 1)'
    BY <1>3, <1>4, <1>5 DEF Spent
  <1> QED  BY <1>5, <1>6 DEF Spent, Outdated, Value

(* ... or one more is given.                                               *)
LEMMA SpentGives ==
    ASSUME NEW r, Gives(r), NEW j \in 1..Len(responses), NEW v, Spent(j, v)
    PROVE  Spent(j, v)'
  <1>1. j \in Int /\ responses'[j] = responses[j]
    BY GivesIs
  <1>2. PICK k : k = responses[j].key
    OBVIOUS
  <1>3. Outdated(k, v, j) => Outdated(k, v, j)'
    BY <1>1, OutdatedGives
  <1> QED  BY <1>1, <1>2, <1>3 DEF Spent, Outdated

-----------------------------------------------------------------------------
(* What the backend told, from response to response.                       *)

(* The first response is taken.                                            *)
LEMMA TailIs ==
    ASSUME Takes, NEW S, NEW f \in Seq(S), Len(f) = Len(responses) + 1
    PROVE  /\ Tail(f) \in Seq(S) /\ Len(Tail(f)) = Len(responses') + 1
           /\ \A i \in 1..Len(responses') + 1 : Tail(f)[i] = f[i + 1]
           /\ Tail(f)[1] = f[2] /\ f[1] \in S /\ f[2] \in S
  <1>1. /\ Len(responses) \in Nat /\ Len(responses) >= 1
        /\ Len(responses') = Len(responses) - 1
    BY TakesIs
  <1>2. Len(f) >= 2 /\ f # <<>>
    BY <1>1
  <1>3. /\ Tail(f) \in Seq(S) /\ Len(Tail(f)) = Len(f) - 1
        /\ \A i \in 1..Len(f) - 1 : Tail(f)[i] = f[i + 1]
    BY <1>1, <1>2, HeadTailProperties
  <1>4. Tail(f)[1] = f[2] /\ f[1] \in S /\ f[2] \in S
    BY <1>1, <1>2, <1>3
  <1> QED  BY <1>1, <1>3, <1>4

(* One more is given.                                                      *)
LEMMA AppendIs ==
    ASSUME NEW r, Gives(r), NEW S, NEW f \in Seq(S), Len(f) = Len(responses) + 1,
           NEW x \in S
    PROVE  /\ Append(f, x) \in Seq(S) /\ Len(Append(f, x)) = Len(responses') + 1
           /\ \A i \in 1..Len(responses) + 1 : Append(f, x)[i] = f[i]
           /\ Append(f, x)[Len(responses') + 1] = x
           /\ Append(f, x)[1] = f[1]
  <1>1. Len(responses) \in Nat /\ Len(responses') = Len(responses) + 1
    BY GivesIs
  <1>2. /\ Append(f, x) \in Seq(S) /\ Len(Append(f, x)) = Len(f) + 1
        /\ \A i \in 1..Len(f) : Append(f, x)[i] = f[i]
        /\ Append(f, x)[Len(f) + 1] = x
    BY AppendProperties
  <1>3. 1 \in 1..Len(f)
    BY <1>1
  <1> QED  BY <1>1, <1>2, <1>3

(* What was told continues to explain the responses: one is taken, ...     *)
LEMMA ChainTakes ==
    ASSUME Takes, backend' = backend,
           NEW t \in Seq(Documents), NEW p \in Seq(Phase), Chain(t, p),
           NEW s, NEW q, s = Tail(t), q = Tail(p)
    PROVE  Chain(s, q)'
  <1>1. /\ Len(s) = Len(responses') + 1 /\ Len(q) = Len(responses') + 1
        /\ \A i \in 1..Len(responses') + 1 : s[i] = t[i + 1]
        /\ \A i \in 1..Len(responses') + 1 : q[i] = p[i + 1]
    <2>1. Len(t) = Len(responses) + 1 /\ Len(p) = Len(responses) + 1
      BY DEF Chain
    <2> QED  BY <2>1, TailIs, ZenonT(30)
  <1>2. /\ Len(responses) \in Nat /\ Len(responses) >= 1
        /\ Len(responses') = Len(responses) - 1
        /\ \A i \in 1..Len(responses') : responses'[i] = responses[i + 1]
        /\ changes' = changes
    BY TakesIs DEF Takes
  <1>3. PICK n \in Nat : n = Len(responses') /\ n + 1 = Len(responses)
    BY <1>2
  <1>4. s[n + 1] = backend'.told /\ q[n + 1] = backend'.phase
    <2>1. n + 1 \in 1..Len(responses') + 1
      BY <1>3
    <2> QED  BY <1>1, <1>3, <2>1 DEF Chain
  <1>5. ASSUME NEW i \in 1..n
        PROVE  Link(responses'[i], s[i], q[i], s[i + 1], q[i + 1])
    <2>1. /\ i + 1 \in 1..Len(responses) /\ i \in 1..Len(responses') + 1
          /\ i + 1 \in 1..Len(responses') + 1
      BY <1>3
    <2>2. Link(responses[i + 1], t[i + 1], p[i + 1], t[(i + 1) + 1], p[(i + 1) + 1])
      BY <2>1 DEF Chain
    <2>3. /\ s[i] = t[i + 1] /\ q[i] = p[i + 1]
          /\ s[i + 1] = t[(i + 1) + 1] /\ q[i + 1] = p[(i + 1) + 1]
      BY <1>1, <2>1
    <2>4. responses'[i] = responses[i + 1]
      BY <1>2, <1>3
    <2> QED  BY <2>2, <2>3, <2>4
  <1>6. ASSUME NEW i \in 1..n + 1, NEW k \in Keys
        PROVE  s[i][k] <= changes' + 1
    <2>1. i + 1 \in 1..Len(responses) + 1 /\ s[i] = t[i + 1]
      BY <1>1, <1>3
    <2> QED  BY <1>2, <2>1 DEF Chain
  <1> QED  BY <1>1, <1>3, <1>4, <1>5, <1>6 DEF Chain

(* ... or one more is given, which leads to what is told now.              *)
LEMMA ChainGives ==
    ASSUME NEW r, Gives(r),
           NEW t \in Seq(Documents), NEW p \in Seq(Phase), Chain(t, p),
           NEW d \in Documents, NEW ph \in Phase,
           backend'.told = d, backend'.phase = ph, \A k \in Keys : d[k] <= changes + 1,
           Link(r, backend.told, backend.phase, d, ph),
           NEW s, NEW q, s = Append(t, d), q = Append(p, ph)
    PROVE  Chain(s, q)'
  <1>1. /\ Len(s) = Len(responses') + 1 /\ Len(q) = Len(responses') + 1
        /\ \A i \in 1..Len(responses) + 1 : s[i] = t[i]
        /\ \A i \in 1..Len(responses) + 1 : q[i] = p[i]
        /\ s[Len(responses') + 1] = d /\ q[Len(responses') + 1] = ph
    <2>1. Len(t) = Len(responses) + 1 /\ Len(p) = Len(responses) + 1
      BY DEF Chain
    <2>2. /\ Len(s) = Len(responses') + 1 /\ s[Len(responses') + 1] = d
          /\ \A i \in 1..Len(responses) + 1 : s[i] = t[i]
      BY <2>1, AppendIs
    <2>3. /\ Len(q) = Len(responses') + 1 /\ q[Len(responses') + 1] = ph
          /\ \A i \in 1..Len(responses) + 1 : q[i] = p[i]
      BY <2>1, AppendIs
    <2> QED  BY <2>2, <2>3
  <1>2. PICK n \in Nat : n = Len(responses)
    BY GivesIs
  <1>3. /\ Len(responses') = n + 1
        /\ responses'[n + 1] = r
        /\ \A i \in 1..n : responses'[i] = responses[i]
        /\ changes' = changes
    BY <1>2, GivesIs DEF Gives
  <1>4. ASSUME NEW i \in 1..n + 1
        PROVE  Link(responses'[i], s[i], q[i], s[i + 1], q[i + 1])
    <2>1. CASE i = n + 1
      <3>1. s[i] = backend.told /\ q[i] = backend.phase
        BY <1>1, <1>2, <2>1 DEF Chain
      <3>2. s[i + 1] = d /\ q[i + 1] = ph
        BY <1>1, <1>3, <2>1
      <3> QED  BY <1>3, <2>1, <3>1, <3>2
    <2>2. CASE i # n + 1
      <3>1. i \in 1..n /\ i \in 1..n + 1 /\ i + 1 \in 1..n + 1
        BY <2>2
      <3>2. Link(responses[i], t[i], p[i], t[i + 1], p[i + 1])
        BY <1>2, <3>1 DEF Chain
      <3>3. s[i] = t[i] /\ q[i] = p[i] /\ s[i + 1] = t[i + 1] /\ q[i + 1] = p[i + 1]
        BY <1>1, <1>2, <3>1
      <3> QED  BY <1>3, <3>1, <3>2, <3>3
    <2> QED  BY <2>1, <2>2
  <1>5. ASSUME NEW i \in 1..(n + 1) + 1, NEW k \in Keys
        PROVE  s[i][k] <= changes' + 1
    <2>1. CASE i = (n + 1) + 1
      BY <1>1, <1>3, <2>1
    <2>2. CASE i # (n + 1) + 1
      <3>1. i \in 1..n + 1
        BY <2>2
      <3> QED  BY <1>1, <1>2, <1>3, <3>1 DEF Chain
    <2> QED  BY <2>1, <2>2
  <1> QED  BY <1>1, <1>3, <1>4, <1>5 DEF Chain

(* The tokens afterwards are old ones, empty, or what had been told.       *)
TokensFrom(d) ==
    \A x \in Tokens' : \/ x \in Tokens \/ Base(x) = Nothing \/ Base(x) = d

(* What the responses tell stays settled while the client takes one.       *)
LEMMA SettledTakes ==
    ASSUME Takes, NEW t \in Seq(Documents), Len(t) = Len(responses) + 1, Settled(t),
           TokensFrom(t[1]), NEW s, s = Tail(t)
    PROVE  Settled(s)'
  <1>1. \A i \in 1..Len(responses') + 1 : s[i] = t[i + 1]
    BY TailIs, ZenonT(30)
  <1>2. /\ Len(responses) \in Nat /\ Len(responses) >= 1
        /\ Len(responses') = Len(responses) - 1
        /\ \A i \in 1..Len(responses') : responses'[i] = responses[i + 1]
        /\ \A i \in 1..Len(responses) : responses[i] \in Response
    BY TakesIs
  <1> SUFFICES ASSUME NEW j \in 1..Len(responses'), Tells(responses'[j]),
                      NEW k, k = responses'[j].key
               PROVE  /\ \A i \in 1..j + 1 : Spent(j, s[i][k])'
                      /\ \A x \in Tokens' : Spent(j, Base(x)[k])'
    BY DEF Settled, Tells
  <1>3. PICK n \in 2..Len(responses) : n = j + 1 /\ n - 1 = j
    BY <1>2
  <1>4. k \in Keys /\ responses[n].key = k
    <2>1. responses'[j] = responses[n] /\ responses[n] \in Response
      BY <1>2, <1>3
    <2>2. responses[n].key \in Keys
      BY <2>1, ResponseHas DEF Tells
    <2> QED  BY <2>1, <2>2
  <1>5. /\ \A i \in 1..n + 1 : Spent(n, t[i][k])
        /\ \A x \in Tokens : Spent(n, Base(x)[k])
    <2>1. Tells(responses[n]) /\ n \in 1..Len(responses)
      BY <1>2, <1>3 DEF Tells
    <2> QED  BY <1>4, <2>1 DEF Settled
  <1>6. ASSUME NEW v, Spent(n, v) PROVE Spent(j, v)'
    BY <1>3, <1>6, SpentTakes
  <1>7. ASSUME NEW i \in 1..j + 1 PROVE Spent(j, s[i][k])'
    <2>1. i + 1 \in 1..n + 1 /\ s[i] = t[i + 1]
      BY <1>1, <1>2, <1>3
    <2>2. PICK v : v = t[i + 1][k]
      OBVIOUS
    <2>3. Spent(j, v)'
      BY <1>5, <1>6, <2>1, <2>2
    <2> QED  BY <2>1, <2>2, <2>3
  <1>8. ASSUME NEW x \in Tokens' PROVE Spent(j, Base(x)[k])'
    <2>1. PICK v : v = Base(x)[k]
      OBVIOUS
    <2>2. Spent(n, v)
      <3>1. CASE x \in Tokens
        BY <1>5, <2>1, <3>1
      <3>2. CASE Base(x) = Nothing
        BY <1>4, <2>1, <3>2, DocumentsAre DEF Spent
      <3>3. CASE Base(x) = t[1]
        <4>1. 1 \in 1..n + 1
          BY <1>3
        <4> QED  BY <1>5, <2>1, <3>3, <4>1
      <3> QED  BY <3>1, <3>2, <3>3 DEF TokensFrom
    <2>3. Spent(j, v)'
      BY <1>6, <2>2
    <2> QED  BY <2>1, <2>3
  <1> QED  BY <1>7, <1>8

(* A response that tells what became of a document says what the result has. *)
LEMMA SettledGives ==
    ASSUME NEW r, Gives(r), Tells(r) => Value(r) = result[r.key],
           NEW t \in Seq(Documents), NEW p, Chain(t, p), Settled(t),
           \A x \in Tokens : TokenFits(x), Tokens' = Tokens,
           NEW d \in Documents, \A k \in Keys : d[k] <= changes + 1,
           NEW s, s = Append(t, d)
    PROVE  Settled(s)'
  <1>1. /\ \A i \in 1..Len(responses) + 1 : s[i] = t[i]
        /\ s[Len(responses') + 1] = d
    <2>1. Len(t) = Len(responses) + 1
      BY DEF Chain
    <2> QED  BY <2>1, AppendIs
  <1>2. /\ Len(responses) \in Nat /\ Len(responses') = Len(responses) + 1
        /\ responses'[Len(responses) + 1] = r
        /\ \A i \in 1..Len(responses) : responses'[i] = responses[i]
        /\ r \in Response
    BY GivesIs DEF Gives
  <1> SUFFICES ASSUME NEW j \in 1..Len(responses'), Tells(responses'[j]),
                      NEW k, k = responses'[j].key
               PROVE  /\ \A i \in 1..j + 1 : Spent(j, s[i][k])'
                      /\ \A x \in Tokens' : Spent(j, Base(x)[k])'
    BY DEF Settled, Tells
  <1>3. CASE j \in 1..Len(responses)
    <2>1. responses[j].key = k /\ Tells(responses[j])
      BY <1>2, <1>3
    <2>2. /\ \A i \in 1..j + 1 : Spent(j, t[i][k])
          /\ \A x \in Tokens : Spent(j, Base(x)[k])
      BY <1>3, <2>1 DEF Settled
    <2>3. ASSUME NEW v, Spent(j, v) PROVE Spent(j, v)'
      BY <1>3, <2>3, SpentGives
    <2>4. ASSUME NEW i \in 1..j + 1 PROVE Spent(j, s[i][k])'
      <3>1. PICK v : v = t[i][k]
        OBVIOUS
      <3>2. i \in 1..Len(responses) + 1
        BY <1>2, <1>3
      <3> QED  BY <1>1, <2>2, <2>3, <3>1, <3>2
    <2>5. ASSUME NEW x \in Tokens' PROVE Spent(j, Base(x)[k])'
      <3>1. PICK v : v = Base(x)[k]
        OBVIOUS
      <3> QED  BY <2>2, <2>3, <3>1
    <2> QED  BY <2>4, <2>5
  <1>4. CASE j = Len(responses) + 1
    <2>1. k \in Keys /\ r.key = k /\ responses'[j] = r /\ Tells(r)
      BY <1>2, <1>4, ResponseHas DEF Tells
    <2>2. ASSUME NEW v, v <= changes + 1 PROVE Spent(j, v)'
      <3>1. CASE v = Value(r)
        BY <2>1, <3>1 DEF Spent, Value
      <3>2. CASE v # Value(r)
        <4>1. Outdated(k, v, j)
          <5>1. result[k] # v
            BY <2>1, <3>2
          <5>2. j \in Int /\ j >= Len(responses)
            BY <1>2, <1>4
          <5> QED  BY <1>2, <2>2, <5>1, <5>2, OutdatedNow
        <4>2. Outdated(k, v, j)'
          BY <4>1, OutdatedGives
        <4> QED  BY <2>1, <4>2 DEF Spent, Outdated
      <3> QED  BY <3>1, <3>2
    <2>3. ASSUME NEW i \in 1..j + 1 PROVE Spent(j, s[i][k])'
      <3>1. PICK v : v = s[i][k]
        OBVIOUS
      <3>2. i \in 1..Len(responses) + 1 \/ i = Len(responses') + 1
        <4>1. PICK n \in Nat : n = Len(responses) /\ Len(responses') = n + 1
          BY <1>2
        <4>2. j = n + 1
          BY <1>4, <4>1
        <4>3. i \in 1..n + 1 \/ i = (n + 1) + 1
          BY <4>2
        <4> QED  BY <4>1, <4>3
      <3>3. v <= changes + 1
        BY <1>1, <2>1, <3>1, <3>2 DEF Chain
      <3> QED  BY <2>2, <3>1, <3>3
    <2>4. ASSUME NEW x \in Tokens' PROVE Spent(j, Base(x)[k])'
      <3>1. PICK v : v = Base(x)[k]
        OBVIOUS
      <3>2. v <= changes + 1
        BY <2>1, <3>1 DEF TokenFits
      <3> QED  BY <2>2, <3>1, <3>2
    <2> QED  BY <2>3, <2>4
  <1>5. j \in 1..Len(responses) \/ j = Len(responses) + 1
    BY <1>2
  <1> QED  BY <1>3, <1>4, <1>5

-----------------------------------------------------------------------------
(* The tokens go with the keys.                                            *)

(* Tokens are tokens.                                                      *)
LEMMA TokensAre ==
    ASSUME BooksInv
    PROVE  \A x \in Tokens : x \in Token /\ Base(x) \in Documents
  <1>1. \A x \in Tokens : x \in Token
    BY DEF BooksInv, TypeOK, Tokens, Listening, View
  <1> QED  BY <1>1, BaseIs

(* A token that the client keeps while it takes a response, ...            *)
LEMMA TokenTakes ==
    ASSUME Takes, UNCHANGED <<cached, keys, unfounded>>, Learns(responses[1]),
           NEW t, Settled(t), NEW x \in Tokens, TokenFits(x)
    PROVE  TokenFits(x)'
  <1>1. /\ Len(responses) \in Nat /\ Len(responses) >= 1
        /\ Len(responses') = Len(responses) - 1 /\ Len(responses') \in Nat
    BY TakesIs
  <1> SUFFICES ASSUME NEW k \in Keys, NEW v, v = Base(x)[k]
               PROVE  /\ v <= changes' + 1
                      /\ v # 0 => k \in keys'
                      /\ k \in keys' => v # 0 \/ k \in unfounded'
                      /\ Held(k, v, Len(responses))'
    BY DEF TokenFits, Held, Outdated
  <1>2. /\ v <= changes + 1 /\ (v # 0 => k \in keys)
        /\ k \in keys => v # 0 \/ k \in unfounded
        /\ Held(k, v, Len(responses))
    BY DEF TokenFits
  <1>3. Tells(responses[1]) /\ responses[1].key = k => Spent(1, v)
    BY <1>1 DEF Settled
  <1>4. PICK n \in Nat : n = Len(responses')
    BY <1>1
  <1>5. Held(k, v, n)'
    BY <1>1, <1>2, <1>3, <1>4, HeldTakes
  <1>6. Held(k, v, Len(responses))'
    BY <1>4, <1>5 DEF Held, Outdated
  <1> QED  BY <1>2, <1>6 DEF Takes

(* ... a snapshot that leaves its keys ...                                 *)
LEMMA TokenStores ==
    ASSUME Takes, \A k \in Keys : cached'[k] = Now(k) /\ agg'.updates[k] = -1,
           NEW x, TokenFits(x),
           \A k \in Keys : /\ k \in keys => k \in keys'
                           /\ k \in keys' => Base(x)[k] # 0 \/ k \in unfounded'
    PROVE  TokenFits(x)'
  <1>1. /\ Len(responses) \in Nat /\ Len(responses) >= 1
        /\ Len(responses') = Len(responses) - 1 /\ Len(responses') \in Nat
    BY TakesIs
  <1> SUFFICES ASSUME NEW k \in Keys, NEW v, v = Base(x)[k]
               PROVE  /\ v <= changes' + 1
                      /\ v # 0 => k \in keys'
                      /\ k \in keys' => v # 0 \/ k \in unfounded'
                      /\ Held(k, v, Len(responses))'
    BY DEF TokenFits, Held, Outdated
  <1>2. /\ v <= changes + 1 /\ (v # 0 => k \in keys)
        /\ Held(k, v, Len(responses))
    BY DEF TokenFits
  <1>3. PICK n \in Nat : n = Len(responses')
    BY <1>1
  <1>4. Held(k, v, n)'
    BY <1>1, <1>2, <1>3, HeldStores
  <1>5. Held(k, v, Len(responses))'
    BY <1>3, <1>4 DEF Held, Outdated
  <1> QED  BY <1>2, <1>5 DEF Takes

(* ... or the backend gives one.                                           *)
LEMMA TokenGives ==
    ASSUME NEW r, Gives(r), UNCHANGED <<cached, keys, unfounded, agg>>,
           NEW x, TokenFits(x)
    PROVE  TokenFits(x)'
  <1>1. Len(responses) \in Nat /\ Len(responses') = Len(responses) + 1
    BY GivesIs
  <1> SUFFICES ASSUME NEW k \in Keys, NEW v, v = Base(x)[k]
               PROVE  /\ v <= changes' + 1
                      /\ v # 0 => k \in keys'
                      /\ k \in keys' => v # 0 \/ k \in unfounded'
                      /\ Held(k, v, Len(responses))'
    BY DEF TokenFits, Held, Outdated
  <1>2. /\ v <= changes + 1 /\ (v # 0 => k \in keys)
        /\ k \in keys => v # 0 \/ k \in unfounded
        /\ Held(k, v, Len(responses))
    BY DEF TokenFits
  <1>3. PICK n \in Nat : n = Len(responses) + 1
    BY <1>1
  <1>4. Held(k, v, n)'
    <2>1. Held(k, v, n)
      BY <1>1, <1>2, <1>3, HeldLater
    <2> QED  BY <2>1, HeldGives
  <1>5. Held(k, v, Len(responses))'
    BY <1>1, <1>3, <1>4 DEF Held, Outdated
  <1> QED  BY <1>2, <1>5 DEF Gives

-----------------------------------------------------------------------------
(* What the operators on the aggregator leave alone, and what they change.   *)

(* The fields of the state that the changes of another one leave alone.    *)
LEMMA StateFields ==
    ASSUME NEW s \in TargetState
    PROVE  /\ s.current \in BOOLEAN /\ s.carried \in BOOLEAN
           /\ \A n : /\ Counting(s, n).changes = s.changes
                     /\ Counting(s, n).current = s.current
                     /\ Counting(s, n).carried = s.carried
           /\ \A c : /\ Carrying(s, c).changes = s.changes
                     /\ Carrying(s, c).current = s.current
                     /\ Carrying(s, c).carried = c
           /\ ClearPendingChanges(s).changes = NoChanges
           /\ ClearPendingChanges(s).current = s.current
           /\ ClearPendingChanges(s).carried = s.carried
           /\ \A x : /\ UpdateResumeToken(s, x).changes = s.changes
                     /\ UpdateResumeToken(s, x).current = s.current
                     /\ UpdateResumeToken(s, x).carried = s.carried
                     /\ x # NoToken => /\ UpdateResumeToken(s, x).pending
                                       /\ UpdateResumeToken(s, x).token = x
           /\ \A k, c : /\ Changed(s, k, c).changes = [s.changes EXCEPT ![k] = c]
                        /\ Changed(s, k, c).current = s.current
                        /\ Changed(s, k, c).carried = s.carried
  <1>1. s.current \in BOOLEAN /\ s.carried \in BOOLEAN
    BY DEF TargetState
  <1>2. ASSUME NEW n
        PROVE  /\ Counting(s, n).changes = s.changes
               /\ Counting(s, n).current = s.current
               /\ Counting(s, n).carried = s.carried
    BY DEF Counting, TargetState
  <1>3. ASSUME NEW c
        PROVE  /\ Carrying(s, c).changes = s.changes
               /\ Carrying(s, c).current = s.current
               /\ Carrying(s, c).carried = c
    BY DEF Carrying, TargetState
  <1>4. /\ ClearPendingChanges(s).changes = NoChanges
        /\ ClearPendingChanges(s).current = s.current
        /\ ClearPendingChanges(s).carried = s.carried
    BY DEF ClearPendingChanges, TargetState
  <1>5. ASSUME NEW x
        PROVE  /\ UpdateResumeToken(s, x).changes = s.changes
               /\ UpdateResumeToken(s, x).current = s.current
               /\ UpdateResumeToken(s, x).carried = s.carried
               /\ x # NoToken => /\ UpdateResumeToken(s, x).pending
                                 /\ UpdateResumeToken(s, x).token = x
    BY DEF UpdateResumeToken, TargetState
  <1>6. ASSUME NEW k, NEW c
        PROVE  /\ Changed(s, k, c).changes = [s.changes EXCEPT ![k] = c]
               /\ Changed(s, k, c).current = s.current
               /\ Changed(s, k, c).carried = s.carried
    BY DEF Changed, TargetState
  <1> QED  BY <1>1, <1>2, <1>3, <1>4, <1>5, <1>6

(* Two aggregators that differ in the state only.                          *)
Beside(a, b) == b.updates = a.updates /\ b.reset = a.reset

(* EnsureTargetState().                                                    *)
LEMMA EnsureFits ==
    ASSUME NEW a, NEW known, Sound(a, known), ChangesFit(a, known)
    PROVE  /\ Beside(a, Ensure(a)) /\ ChangesFit(Ensure(a), known)
           /\ Ensure(a).state # NoState /\ Ensure(a).state \in TargetState
           /\ Ensure(a) \in Aggregator
           /\ a.state # NoState => Ensure(a) = a
  <1>1. /\ Beside(a, Ensure(a)) /\ Ensure(a).state # NoState
        /\ Ensure(a).state \in TargetState /\ Ensure(a) \in Aggregator
    BY EnsureKeeps DEF Beside
  <1>2. a.state # NoState => Ensure(a) = a
    BY DEF Ensure
  <1>3. CASE a.state = NoState
    <2>1. Ensure(a) = Put(a, NewState)
      BY <1>3 DEF Ensure, Put
    <2>2. Ensure(a).state = NewState
      BY <2>1, StateSet, NewStateType DEF Sound
    <2>3. NewState.changes = NoChanges
      BY DEF NewState
    <2>4. ChangesFit(Ensure(a), known)
      BY <2>2, <2>3, NoChangesType DEF ChangesFit
    <2> QED  BY <1>1, <1>2, <2>4
  <1> QED  BY <1>1, <1>2, <1>3

(* RecordPendingTargetRequest().                                           *)
LEMMA RecordFits ==
    ASSUME NEW a, NEW known, Sound(a, known), ChangesFit(a, known)
    PROVE  LET z == RecordPendingTargetRequest(a) IN
           Beside(a, z) /\ ChangesFit(z, known) /\ z.state # NoState
  <1>1. PICK b : b = Ensure(a)
    OBVIOUS
  <1>2. /\ Beside(a, b) /\ ChangesFit(b, known) /\ b \in Aggregator
        /\ b.state # NoState /\ b.state \in TargetState
        /\ SoundState(b.state, known) /\ b.state.outstanding \in Int
    BY <1>1, EnsureFits, EnsureKeeps
  <1>3. PICK s \in TargetState :
            /\ s = Counting(b.state, b.state.outstanding + 1)
            /\ s.changes = b.state.changes
    <2>1. PICK n \in Int : n = b.state.outstanding + 1
      BY <1>2
    <2>2. /\ Counting(b.state, n) \in TargetState
          /\ SoundState(Counting(b.state, n), known)
          /\ Counting(b.state, n).outstanding = n
      BY <1>2, StateOps
    <2>3. Counting(b.state, n).changes = b.state.changes
      BY <1>2, StateFields
    <2> QED  BY <1>2, <2>1, <2>2, <2>3
  <1>4. PICK z : z = RecordPendingTargetRequest(a)
    OBVIOUS
  <1>5. z = Put(b, s)
    BY <1>1, <1>2, <1>3, <1>4 DEF RecordPendingTargetRequest, Put, Counting
  <1>6. z.state = s /\ Beside(a, z) /\ s # NoState
    BY <1>2, <1>5, StateSet, NoStateAssumption DEF Beside
  <1>7. ChangesFit(z, known)
    BY <1>2, <1>3, <1>6 DEF ChangesFit
  <1> QED  BY <1>4, <1>6, <1>7

(* HandleTargetChange(), Added.                                            *)
LEMMA AddedFits ==
    ASSUME NEW a, NEW known, Sound(a, known), ChangesFit(a, known)
    PROVE  LET z == TargetAdded(a) IN
           /\ Beside(a, z) /\ ChangesFit(z, known) /\ z.state # NoState
           /\ Outstanding(a) = 1 => /\ z.state.changes = NoChanges
                                    /\ z.state.carried = z.state.current
  <1>1. PICK b : b = Ensure(a)
    OBVIOUS
  <1>2. /\ Beside(a, b) /\ ChangesFit(b, known) /\ b \in Aggregator
        /\ b.state # NoState /\ b.state \in TargetState
        /\ SoundState(b.state, known) /\ b.state.outstanding \in Int
        /\ b.state.outstanding = Outstanding(a)
    BY <1>1, EnsureFits, EnsureKeeps
  <1>3. PICK s \in TargetState :
            /\ s = Counting(b.state, b.state.outstanding - 1)
            /\ s.changes = b.state.changes /\ s.outstanding = Outstanding(a) - 1
            /\ SoundState(s, known)
    <2>1. PICK n \in Int : n = b.state.outstanding - 1
      BY <1>2
    <2>2. /\ Counting(b.state, n) \in TargetState
          /\ SoundState(Counting(b.state, n), known)
          /\ Counting(b.state, n).outstanding = n
      BY <1>2, StateOps
    <2>3. Counting(b.state, n).changes = b.state.changes
      BY <1>2, StateFields
    <2> QED  BY <1>2, <2>1, <2>2, <2>3
  <1>4. PICK z : z = TargetAdded(a)
    OBVIOUS
  <1>5. CASE s.outstanding # 0
    <2>1. z = Put(b, s)
      BY <1>1, <1>3, <1>4, <1>5 DEF TargetAdded, Put, Counting
    <2>2. z.state = s /\ Beside(a, z) /\ s # NoState
      BY <1>2, <2>1, StateSet, NoStateAssumption DEF Beside
    <2>3. ChangesFit(z, known)
      BY <1>2, <1>3, <2>2 DEF ChangesFit
    <2>4. Outstanding(a) # 1
      BY <1>2, <1>3, <1>5
    <2> QED  BY <1>4, <2>2, <2>3, <2>4
  <1>6. CASE s.outstanding = 0
    <2>1. PICK c \in TargetState :
            /\ c = ClearPendingChanges(s) /\ c.changes = NoChanges
            /\ c.current = s.current /\ SoundState(c, known)
      BY <1>3, StateOps, StateFields
    <2>2. PICK t \in TargetState :
            /\ t = Carrying(c, s.current) /\ t.changes = NoChanges
            /\ t.current = s.current /\ t.carried = s.current
      <3>1. s.current \in BOOLEAN
        BY StateFields
      <3>2. Carrying(c, s.current) \in TargetState
        BY <2>1, <3>1, StateOps
      <3>3. /\ Carrying(c, s.current).changes = c.changes
            /\ Carrying(c, s.current).current = c.current
            /\ Carrying(c, s.current).carried = s.current
        BY StateFields
      <3> QED  BY <2>1, <3>2, <3>3
    <2>3. z = Put(b, t)
      BY <1>1, <1>3, <1>4, <1>6, <2>1, <2>2 DEF TargetAdded, Put, Counting, Carrying
    <2>4. z.state = t /\ Beside(a, z) /\ t # NoState
      BY <1>2, <2>3, StateSet, NoStateAssumption DEF Beside
    <2>5. ChangesFit(z, known)
      BY <2>2, <2>4, NoChangesType DEF ChangesFit
    <2> QED  BY <1>4, <2>2, <2>4, <2>5
  <1> QED  BY <1>5, <1>6

(* HandleTargetChange(), Removed.                                          *)
LEMMA RemovedFits ==
    ASSUME NEW a, NEW known, Sound(a, known), ChangesFit(a, known)
    PROVE  LET z == TargetRemoved(a) IN
           /\ Beside(a, z) /\ ChangesFit(z, known)
           /\ Outstanding(a) # 1 => z.state # NoState
  <1>1. PICK b : b = Ensure(a)
    OBVIOUS
  <1>2. /\ Beside(a, b) /\ ChangesFit(b, known) /\ b \in Aggregator
        /\ b.state # NoState /\ b.state \in TargetState
        /\ SoundState(b.state, known) /\ b.state.outstanding \in Int
        /\ b.state.outstanding = Outstanding(a)
    BY <1>1, EnsureFits, EnsureKeeps
  <1>3. PICK s \in TargetState :
            /\ s = Counting(b.state, b.state.outstanding - 1)
            /\ s.changes = b.state.changes /\ s.outstanding = Outstanding(a) - 1
    <2>1. PICK n \in Int : n = b.state.outstanding - 1
      BY <1>2
    <2>2. /\ Counting(b.state, n) \in TargetState
          /\ SoundState(Counting(b.state, n), known)
          /\ Counting(b.state, n).outstanding = n
      BY <1>2, StateOps
    <2>3. Counting(b.state, n).changes = b.state.changes
      BY <1>2, StateFields
    <2> QED  BY <1>2, <2>1, <2>2, <2>3
  <1>4. PICK z : z = TargetRemoved(a)
    OBVIOUS
  <1>5. CASE s.outstanding # 0
    <2>1. z = Put(b, s)
      BY <1>1, <1>3, <1>4, <1>5 DEF TargetRemoved, Put, Counting
    <2>2. z.state = s /\ Beside(a, z) /\ s # NoState
      BY <1>2, <2>1, StateSet, NoStateAssumption DEF Beside
    <2>3. ChangesFit(z, known)
      BY <1>2, <1>3, <2>2 DEF ChangesFit
    <2> QED  BY <1>4, <2>2, <2>3
  <1>6. CASE s.outstanding = 0
    <2>1. z = Put(b, NoState)
      BY <1>1, <1>3, <1>4, <1>6 DEF TargetRemoved, Put, Counting
    <2>2. z.state = NoState /\ Beside(a, z)
      BY <1>2, <2>1, StateSet DEF Beside
    <2>3. ChangesFit(z, known) /\ Outstanding(a) = 1
      BY <1>2, <1>3, <1>6, <2>2 DEF ChangesFit
    <2> QED  BY <1>4, <2>2, <2>3
  <1> QED  BY <1>5, <1>6

(* HandleTargetChange(), Current.                                          *)
LEMMA CurrentFits ==
    ASSUME NEW a, Sound(a, keys), ChangesFit(a, keys), NEW x \in Token
    PROVE  LET z == TargetCurrent(a, x) IN
           /\ Beside(a, z) /\ ChangesFit(z, keys) /\ z.state # NoState
           /\ a.state # NoState => z.state.changes = a.state.changes
  <1>1. PICK b : b = Ensure(a)
    OBVIOUS
  <1>2. /\ Beside(a, b) /\ ChangesFit(b, keys) /\ b \in Aggregator
        /\ b.state # NoState /\ b.state \in TargetState /\ SoundState(b.state, keys)
        /\ a.state # NoState => b = a
    BY <1>1, EnsureFits, EnsureKeeps
  <1>3. PICK z : z = TargetCurrent(a, x)
    OBVIOUS
  <1>4. CASE ~IsActive(b)
    <2>1. z = b
      BY <1>1, <1>3, <1>4 DEF TargetCurrent
    <2> QED  BY <1>2, <1>3, <2>1
  <1>5. CASE IsActive(b)
    <2>1. PICK s \in TargetState :
            /\ s = [b.state EXCEPT !.current = TRUE, !.carried = FALSE,
                                   !.pending = TRUE]
            /\ s.changes = b.state.changes /\ SoundState(s, keys)
      <3>1. LET y == [b.state EXCEPT !.current = TRUE, !.carried = FALSE,
                                     !.pending = TRUE]
            IN  y \in TargetState /\ y.changes = b.state.changes /\ y.pending
        BY <1>2 DEF TargetState
      <3>2. LET y == [b.state EXCEPT !.current = TRUE, !.carried = FALSE,
                                     !.pending = TRUE]
            IN  SoundState(y, keys)
        BY <1>2, <3>1 DEF SoundState
      <3> QED  BY <3>1, <3>2
    <2>2. PICK r \in TargetState :
            r = UpdateResumeToken(s, x) /\ r.changes = b.state.changes
      <3>1. SoundState(s, keys)
        BY <2>1
      <3>2. /\ UpdateResumeToken(s, x) \in TargetState
            /\ UpdateResumeToken(s, x).changes = s.changes
        BY <3>1, StateOps
      <3> QED  BY <2>1, <3>2
    <2>3. z = Put(b, r)
      BY <1>1, <1>3, <1>5, <2>1, <2>2 DEF TargetCurrent, Put
    <2>4. z.state = r /\ Beside(a, z) /\ r # NoState
      BY <1>2, <2>3, StateSet, NoStateAssumption DEF Beside
    <2>5. ChangesFit(z, keys)
      BY <1>2, <2>2, <2>4 DEF ChangesFit
    <2> QED  BY <1>2, <1>3, <2>2, <2>4, <2>5
  <1> QED  BY <1>4, <1>5

Mismatched(a) == [ResetTarget(a) EXCEPT !.reset = TRUE]

(* ResetTarget(): what the view has is to be removed.                      *)
LEMMA ResetFits ==
    ASSUME NEW a, Sound(a, keys), a.state # NoState,
           NEW z, z = ResetTarget(a) \/ z = Mismatched(a)
    PROVE  /\ z.updates = a.updates /\ z.state # NoState /\ ~z.state.current
           /\ \A k \in Keys : z.state.changes[k] = IF k \in keys THEN "Removed"
                                                                 ELSE "None"
           /\ ChangesFit(z, keys)
           /\ z = ResetTarget(a) => z.reset = a.reset
           /\ z # ResetTarget(a) => z.reset
  <1>1. a \in Aggregator /\ a.ok
    BY DEF Sound
  <1>2. PICK g \in [Keys -> Change] :
            g = [k \in Keys |-> IF k \in keys THEN "Removed" ELSE "None"]
    <2>1. [k \in Keys |-> IF k \in keys THEN "Removed" ELSE "None"] \in [Keys -> Change]
      BY DEF Change
    <2> QED  BY <2>1
  <1>3. PICK s \in TargetState :
            s = [NewState EXCEPT !.changes = g] /\ s.changes = g /\ ~s.current
    <2>1. LET y == [NewState EXCEPT !.changes = g]
          IN  y \in TargetState /\ y.changes = g /\ ~y.current
      BY NewStateType DEF NewState, TargetState
    <2> QED  BY <2>1
  <1>4. s # NoState
    BY NoStateAssumption
  <1>5. PICK n \in Aggregator : /\ n = ResetTarget(a) /\ n.state = s
                                /\ n.updates = a.updates /\ n.reset = a.reset
    <2>1. PICK y \in BOOLEAN : y = (a.ok /\ a.state # NoState /\ a.state.outstanding = 0)
      OBVIOUS
    <2>2. ResetTarget(a) = [a EXCEPT !.ok = y, !.state = s]
      BY <1>1, <1>2, <1>3, <2>1 DEF ResetTarget
    <2>3. LET w == [a EXCEPT !.ok = y, !.state = s]
          IN  /\ w \in Aggregator /\ w.state = s
              /\ w.updates = a.updates /\ w.reset = a.reset
      BY <1>1 DEF Aggregator
    <2> QED  BY <2>2, <2>3
  <1>6. PICK m : /\ m = [n EXCEPT !.reset = TRUE] /\ m.state = s
                 /\ m.updates = a.updates /\ m.reset
    <2>1. LET w == [n EXCEPT !.reset = TRUE]
          IN  w.state = n.state /\ w.updates = n.updates /\ w.reset
      BY DEF Aggregator
    <2> QED  BY <1>5, <2>1
  <1>7. z = n \/ z = m
    BY <1>5, <1>6 DEF Mismatched
  <1>8. /\ z.state = s /\ z.updates = a.updates
        /\ z = ResetTarget(a) => z.reset = a.reset
        /\ z # ResetTarget(a) => z.reset
    BY <1>5, <1>6, <1>7
  <1>9. \A k \in Keys : s.changes[k] = IF k \in keys THEN "Removed" ELSE "None"
    BY <1>2, <1>3
  <1>10. ChangesFit(z, keys)
    BY <1>8, <1>9 DEF ChangesFit
  <1> QED  BY <1>3, <1>4, <1>8, <1>9, <1>10

(* One document changes.                                                   *)
LEMMA NotedFields ==
    ASSUME NEW a \in Aggregator, a.state \in TargetState, NEW k \in Keys,
           NEW c \in Change, NEW v \in Versions \cup {-1},
           NEW z, z = Noted(a, Changed(a.state, k, c), k, v)
    PROVE  /\ z.reset = a.reset /\ z.state # NoState
           /\ z.state.current = a.state.current /\ z.state.carried = a.state.carried
           /\ z.state.changes[k] = c /\ z.updates[k] = v
           /\ \A j \in Keys : j # k => /\ z.state.changes[j] = a.state.changes[j]
                                       /\ z.updates[j] = a.updates[j]
  <1>1. /\ a.updates \in [Keys -> Versions \cup {-1}]
        /\ a.state.changes \in [Keys -> Change]
    BY DEF Aggregator, TargetState
  <1>2. PICK g : /\ g = [a.updates EXCEPT ![k] = v] /\ g[k] = v
                 /\ \A j \in Keys : j # k => g[j] = a.updates[j]
    <2>1. LET y == [a.updates EXCEPT ![k] = v]
          IN  y[k] = v /\ \A j \in Keys : j # k => y[j] = a.updates[j]
      BY <1>1
    <2> QED  BY <2>1
  <1>h. PICK h \in [Keys -> Change] :
            /\ h = [a.state.changes EXCEPT ![k] = c] /\ h[k] = c
            /\ \A j \in Keys : j # k => h[j] = a.state.changes[j]
    <2>1. LET y == [a.state.changes EXCEPT ![k] = c]
          IN  /\ y[k] = c /\ y \in [Keys -> Change]
              /\ \A j \in Keys : j # k => y[j] = a.state.changes[j]
      BY <1>1
    <2> QED  BY <2>1
  <1>3. PICK s : s = Changed(a.state, k, c)
    OBVIOUS
  <1>4. /\ s.changes = h /\ s.current = a.state.current /\ s.carried = a.state.carried
    BY <1>h, <1>3, StateFields
  <1>5. s \in TargetState /\ s # NoState
    <2>1. s = [a.state EXCEPT !.changes = h, !.pending = TRUE]
      BY <1>h, <1>3 DEF Changed, TargetState
    <2>2. s \in TargetState
      BY <1>h, <2>1 DEF TargetState
    <2> QED  BY <2>2, NoStateAssumption
  <1>6. z = [a EXCEPT !.state = s, !.updates = g]
    BY <1>2, <1>3 DEF Noted, Aggregator
  <1>7. z.state = s /\ z.updates = g /\ z.reset = a.reset
    BY <1>6 DEF Aggregator
  <1> QED  BY <1>2, <1>h, <1>4, <1>5, <1>7

(* AddDocumentToTarget() and RemoveDocumentFromTarget(): nothing changes of   *)
(* a target that is not active.                                            *)
Touched(a, z, k, c, w) ==
    LET b == Ensure(a) IN
    /\ z.reset = a.reset /\ z.state # NoState
    /\ z.state.current = b.state.current /\ z.state.carried = b.state.carried
    /\ z.state.changes[k] = c /\ z.updates[k] = w
    /\ \A j \in Keys : j # k => /\ z.state.changes[j] = b.state.changes[j]
                                /\ z.updates[j] = a.updates[j]

(* A document of the target touches what is collected about it alone: it is *)
(* modified if the view has it and added if not, at the version sent.       *)
LEMMA DocumentFits ==
    ASSUME NEW a, Sound(a, keys), ChangesFit(a, keys), NEW k \in Keys,
           NEW v \in Versions, NEW z, z = AddDocumentToTarget(a, k, v)
    PROVE  /\ ~IsActive(a) => z = a
           /\ IsActive(a) => Touched(a, z, k, IF k \in keys THEN "Modified"
                                                            ELSE "Added", v)
           /\ ChangesFit(z, keys)
  <1>1. PICK b : b = Ensure(a)
    OBVIOUS
  <1>2. /\ Beside(a, b) /\ ChangesFit(b, keys) /\ b \in Aggregator
        /\ b.state # NoState /\ b.state \in TargetState
    BY <1>1, EnsureFits
  <1>3. CASE ~IsActive(a)
    BY <1>3 DEF AddDocumentToTarget
  <1>4. CASE IsActive(a)
    <2>1. PICK c \in Change : c = IF k \in keys THEN "Modified" ELSE "Added"
      BY DEF Change
    <2>2. z = Noted(b, Changed(b.state, k, c), k, v)
      BY <1>1, <1>2, <1>4, <2>1
      DEF AddDocumentToTarget, Noted, Changed, Aggregator, TargetState
    <2>3. v \in Versions \cup {-1}
      OBVIOUS
    <2>4. Touched(a, z, k, c, v)
      <3>1. /\ z.reset = b.reset /\ z.state # NoState
            /\ z.state.current = b.state.current /\ z.state.carried = b.state.carried
            /\ z.state.changes[k] = c /\ z.updates[k] = v
            /\ \A j \in Keys : j # k => /\ z.state.changes[j] = b.state.changes[j]
                                        /\ z.updates[j] = b.updates[j]
        BY <1>2, <2>2, <2>3, NotedFields
      <3> QED  BY <1>1, <1>2, <3>1 DEF Touched, Beside
    <2>5. ChangesFit(z, keys)
      BY <1>1, <1>2, <2>1, <2>4 DEF ChangesFit, Touched
    <2> QED  BY <1>4, <2>1, <2>4, <2>5
  <1> QED  BY <1>3, <1>4

(* So does a document that leaves the target: it is removed if the view has *)
(* it, and else nothing is left of an earlier change.                       *)
LEMMA RemovalFits ==
    ASSUME NEW a, Sound(a, keys), ChangesFit(a, keys), NEW k \in Keys,
           NEW u \in Versions \cup {-1}, NEW z, z = RemoveDocumentFromTarget(a, k, u)
    PROVE  /\ ~IsActive(a) => z = a
           /\ IsActive(a) => Touched(a, z, k, IF k \in keys THEN "Removed" ELSE "None",
                                     IF u = -1 THEN a.updates[k] ELSE u)
           /\ ChangesFit(z, keys)
  <1>1. PICK b : b = Ensure(a)
    OBVIOUS
  <1>2. /\ Beside(a, b) /\ ChangesFit(b, keys) /\ b \in Aggregator
        /\ b.state # NoState /\ b.state \in TargetState
    BY <1>1, EnsureFits
  <1>3. CASE ~IsActive(a)
    BY <1>3 DEF RemoveDocumentFromTarget
  <1>4. CASE IsActive(a)
    <2>1. PICK c \in Change : c = IF k \in keys THEN "Removed" ELSE "None"
      BY DEF Change
    <2>2. PICK w \in Versions \cup {-1} : w = IF u = -1 THEN b.updates[k] ELSE u
      BY <1>2, StateIs
    <2>3. z = Noted(b, Changed(b.state, k, c), k, w)
      BY <1>1, <1>2, <1>4, <2>1, <2>2
      DEF RemoveDocumentFromTarget, Noted, Changed, Aggregator, TargetState
    <2>4. Touched(a, z, k, c, w)
      <3>1. /\ z.reset = b.reset /\ z.state # NoState
            /\ z.state.current = b.state.current /\ z.state.carried = b.state.carried
            /\ z.state.changes[k] = c /\ z.updates[k] = w
            /\ \A j \in Keys : j # k => /\ z.state.changes[j] = b.state.changes[j]
                                        /\ z.updates[j] = b.updates[j]
        BY <1>2, <2>3, NotedFields
      <3> QED  BY <1>1, <1>2, <3>1 DEF Touched, Beside
    <2>5. ChangesFit(z, keys)
      BY <1>1, <1>2, <2>1, <2>4 DEF ChangesFit, Touched
    <2>6. w = IF u = -1 THEN a.updates[k] ELSE u
      BY <1>2, <2>2 DEF Beside
    <2> QED  BY <1>4, <2>1, <2>4, <2>5, <2>6
  <1> QED  BY <1>3, <1>4

Gone(a, k) == [a EXCEPT !.updates[k] = 0]

(* A document in limbo is gone.                                            *)
LEMMA LookupFits ==
    ASSUME NEW a, Sound(a, keys), ChangesFit(a, keys), NEW k \in Keys,
           NEW z, z = Gone(a, k)
    PROVE  /\ z.state = a.state /\ z.reset = a.reset /\ ChangesFit(z, keys)
           /\ z.updates[k] = 0
           /\ \A j \in Keys : j # k => z.updates[j] = a.updates[j]
  <1>1. a \in Aggregator /\ a.updates \in [Keys -> Versions \cup {-1}]
    BY StateIs DEF Sound
  <1>2. PICK g : /\ g = [a.updates EXCEPT ![k] = 0] /\ g[k] = 0
                 /\ \A j \in Keys : j # k => g[j] = a.updates[j]
    <2>1. LET y == [a.updates EXCEPT ![k] = 0]
          IN  y[k] = 0 /\ \A j \in Keys : j # k => y[j] = a.updates[j]
      BY <1>1
    <2> QED  BY <2>1
  <1>3. z = [a EXCEPT !.updates = g]
    BY <1>2 DEF Gone
  <1>4. z.state = a.state /\ z.updates = g /\ z.reset = a.reset
    BY <1>1, <1>3 DEF Aggregator
  <1> QED  BY <1>2, <1>4 DEF ChangesFit

(* HandleExistenceFilter(): the count is right, or the target is reset.    *)
LEMMA FilterFits ==
    ASSUME NEW a, Sound(a, keys), ChangesFit(a, keys), NEW n,
           NEW z, z = HandleExistenceFilter(a, n)
    PROVE  /\ z.updates = a.updates /\ ChangesFit(z, keys)
           /\ ~IsActive(a) => z = a
           /\ IsActive(a) => z.state # NoState
           /\ IsActive(a) /\ a.state # NoState =>
                    \/ z = a /\ Count(a) = n
                    \/ z.reset /\ ~z.state.current
  <1>1. PICK b : b = Ensure(a)
    OBVIOUS
  <1>2. /\ Beside(a, b) /\ ChangesFit(b, keys) /\ b.state # NoState
        /\ Sound(b, keys)
        /\ a.state # NoState => b = a
    BY <1>1, EnsureFits, EnsureKeeps
  <1>3. CASE ~IsActive(a)
    BY <1>3 DEF HandleExistenceFilter
  <1>4. CASE IsActive(a) /\ Count(b) = n
    <2>1. z = b
      BY <1>1, <1>4 DEF HandleExistenceFilter
    <2> QED  BY <1>2, <1>4, <2>1 DEF Beside
  <1>5. CASE IsActive(a) /\ Count(b) # n
    <2>1. PICK w : w = Mismatched(b)
      OBVIOUS
    <2>2. z = w
      BY <1>1, <1>5, <2>1 DEF HandleExistenceFilter, Mismatched
    <2>3. /\ w.updates = b.updates /\ w.state # NoState /\ ~w.state.current
          /\ ChangesFit(w, keys)
      BY <1>2, <2>1, ResetFits
    <2>4. w.reset
      <3>1. ResetTarget(b) \in Aggregator
        <4>1. IsActive(a) => b.state.outstanding = 0
          BY <1>1, ActiveFacts
        <4> QED  BY <1>2, <1>5, <4>1, ResetKeeps DEF Sound
      <3> QED  BY <2>1, <3>1 DEF Aggregator, Mismatched
    <2> QED  BY <1>2, <1>5, <2>2, <2>3, <2>4 DEF Beside
  <1> QED  BY <1>3, <1>4, <1>5

-----------------------------------------------------------------------------
(* The answers due.                                                        *)

(* An answer under way is due.                                             *)
LEMMA AnswerDue ==
    ASSUME NEW m, Len(m) \in Nat, NEW i \in 1..Len(m), m[i].type \in {"Added", "Removed"}
    PROVE  Cardinality(Answers(m)) >= 1
  <1>1. IsFiniteSet(Answers(m)) /\ Cardinality(Answers(m)) \in Nat
    BY AnswersFinite
  <1>2. i \in Answers(m)
    BY DEF Answers
  <1>3. Cardinality(Answers(m)) # 0
    BY <1>1, <1>2, FS_EmptySet
  <1> QED  BY <1>1, <1>3

(* The only answer under way is the first response.                        *)
LEMMA LastAnswer ==
    ASSUME NEW m, Len(m) \in Nat, Len(m) >= 1, m[1].type = "Added",
           \A j \in 1..Len(m) : j > 1 => m[j].type \notin {"Added", "Removed"}
    PROVE  Cardinality(Answers(m)) = 1
  <1>1. Answers(m) = {1}
    BY DEF Answers
  <1> QED  BY <1>1, FS_Singleton

(* Nothing is asked of an active target.                                   *)
LEMMA ActiveQuiet ==
    ASSUME BooksInv, ~early, IsActive(agg)
    PROVE  /\ requests = <<>>
           /\ \A i \in 1..Len(responses) : responses[i].type \notin {"Added", "Removed"}
  <1>1. Outstanding(agg) = 0
    BY ActiveFacts DEF BooksInv
  <1>2. /\ Len(requests) \in Nat /\ Len(responses) \in Nat
        /\ requests \in Seq(Request)
    BY DEF BooksInv, TypeOK
  <1>3. Cardinality(Answers(responses)) \in Nat
    BY <1>2, AnswersFinite
  <1>4. Len(requests) + Cardinality(Answers(responses)) = 0
    BY <1>1 DEF BooksInv
  <1>5. Len(requests) = 0 /\ Cardinality(Answers(responses)) = 0
    BY <1>2, <1>3, <1>4
  <1>6. requests = <<>>
    BY <1>2, <1>5
  <1>7. ASSUME NEW i \in 1..Len(responses), responses[i].type \in {"Added", "Removed"}
        PROVE  FALSE
    <2>1. Cardinality(Answers(responses)) >= 1
      BY <1>2, <1>7, AnswerDue
    <2> QED  BY <1>5, <2>1
  <1> QED  BY <1>6, <1>7

(* A target with something outstanding is not active.                      *)
LEMMA DueNotActive ==
    ASSUME NEW a, a.state # NoState, Outstanding(a) >= 1
    PROVE  ~IsActive(a)
  BY DEF IsActive, Outstanding

(* The answer that the view waits for comes nearer while the client takes      *)
(* responses, until it is the one taken.                                   *)
LEMMA AwaitingTakes ==
    ASSUME BooksInv, BooksInv', Takes, ~early', requests' = requests,
           NEW t \in Seq(Documents), Len(t) = Len(responses) + 1, Awaiting(t),
           view.token' = view.token,
           view'.current => view.current,
           view'.current => ~agg'.reset /\ \A k \in Keys : agg'.updates[k] \in {-1, 0},
           \A k \in Keys, j \in Nat, i \in Nat : \A v :
                v = Base(view.token)[k] /\ j - 1 <= i /\ Held(k, v, j) => Held(k, v, i)',
           NEW s, s = Tail(t), ~(requests = <<>> /\ Coming(t, 1))
    PROVE  Awaiting(s)' /\ Outstanding(agg') >= 1
  <1>1. /\ Len(requests') \in Nat /\ Len(responses') \in Nat
        /\ requests' \in Seq(Request)
        /\ Cardinality(Answers(responses')) \in Nat
        /\ Outstanding(agg') = Len(requests') + Cardinality(Answers(responses'))
    <2>1. /\ Len(requests') \in Nat /\ Len(responses') \in Nat
          /\ requests' \in Seq(Request)
      BY DEF BooksInv, TypeOK
    <2>2. Outstanding(agg') = Len(requests') + Cardinality(Answers(responses'))
      BY DEF BooksInv, Outstanding, Answers
    <2> QED  BY <2>1, <2>2, AnswersFinite
  <1>2. CASE requests # <<>>
    <2>1. Len(requests') >= 1
      BY <1>1, <1>2
    <2>2. requests' # <<>> /\ requests'[Len(requests')] = Watch(view'.token)
      BY <1>2 DEF Awaiting, Watch
    <2>3. Awaiting(s)'
      BY <2>2 DEF Awaiting, Watch
    <2> QED  BY <1>1, <2>1, <2>3
  <1>3. CASE requests = <<>>
    <2>1. PICK i \in 1..Len(responses) : Coming(t, i) /\ i # 1
      BY <1>3 DEF Awaiting
    <2>2. /\ Len(responses') = Len(responses) - 1 /\ Len(responses) \in Nat
          /\ \A n \in 1..Len(responses') : responses'[n] = responses[n + 1]
      BY TakesIs
    <2>s. \A n \in 1..Len(responses') + 1 : s[n] = t[n + 1]
      BY TailIs, ZenonT(30)
    <2>3. PICK n \in 1..Len(responses') : n + 1 = i /\ n \in Nat
      <3>1. i - 1 \in 1..Len(responses') /\ (i - 1) + 1 = i /\ i - 1 \in Nat
        BY <2>1, <2>2
      <3> QED  BY <3>1
    <2>4. responses'[n] = responses[i] /\ s[n + 1] = t[i + 1]
      <3>1. n + 1 \in 1..Len(responses') + 1
        BY <1>1
      <3> QED  BY <2>2, <2>3, <2>s, <3>1
    <2>5. responses'[n].type = "Added" /\ s[n + 1] = Base(view'.token)
      BY <2>1, <2>4 DEF Coming
    <2>6. ASSUME NEW j \in 1..Len(responses'), j > n
          PROVE  responses'[j].type \notin {"Added", "Removed"}
      <3>1. j + 1 \in 1..Len(responses) /\ j + 1 > i /\ responses'[j] = responses[j + 1]
        BY <2>2, <2>3, <2>6
      <3> QED  BY <2>1, <3>1 DEF Coming
    <2>7. ASSUME NEW k \in Keys PROVE Held(k, s[n + 1][k], n)'
      <3>1. PICK v : v = s[n + 1][k]
        OBVIOUS
      <3>2. v = Base(view.token)[k] /\ Held(k, v, i)
        BY <2>1, <2>4, <3>1 DEF Coming
      <3>3. i \in Nat /\ n \in Nat /\ i - 1 <= n
        BY <2>2, <2>3
      <3>4. Held(k, v, n)'
        BY <3>2, <3>3
      <3> QED  BY <3>1, <3>4
    <2>8. Coming(s, n)'
      BY <2>5, <2>6, <2>7 DEF Coming
    <2>9. Awaiting(s)'
      BY <1>3, <2>8 DEF Awaiting
    <2>10. Cardinality(Answers(responses')) >= 1
      BY <1>1, <2>5, AnswerDue
    <2> QED  BY <1>1, <2>9, <2>10
  <1> QED  BY <1>2, <1>3

(* It is the one taken: nothing else is due.                               *)
LEMMA ComingFirst ==
    ASSUME BooksInv, Takes, ~early, NEW t, requests = <<>>, Coming(t, 1)
    PROVE  Outstanding(agg) = 1
  <1>1. Len(responses) \in Nat /\ Len(responses) >= 1
    BY TakesIs
  <1>2. Cardinality(Answers(responses)) = 1
    BY <1>1, LastAnswer DEF Coming
  <1>3. Len(requests) = 0
    OBVIOUS
  <1> QED  BY <1>2, <1>3 DEF BooksInv

-----------------------------------------------------------------------------
(* The count of an existence filter.                                       *)

(* GetCurrentDocumentCountForTarget() counts the documents that the view      *)
(* will have.                                                              *)
LEMMA CountIs ==
    ASSUME BooksInv, ChangesFit(agg, keys), agg.state # NoState
    PROVE  /\ IsFiniteSet({k \in Keys : Will(k)})
           /\ Count(agg) = Cardinality({k \in Keys : Will(k)})
  <1> DEFINE A == {k \in Keys : agg.state.changes[k] = "Added"}
             R == {k \in Keys : agg.state.changes[k] = "Removed"}
  <1>1. keys \subseteq Keys /\ IsFiniteSet(Keys)
    BY WatchAggregatorAssumption DEF BooksInv, TypeOK
  <1>2. IsFiniteSet(keys) /\ IsFiniteSet(A) /\ IsFiniteSet(R)
    BY <1>1, FS_Subset
  <1>3. keys \cap A = {} /\ (keys \cup A) \cap R = R
    BY <1>1 DEF ChangesFit
  <1>4. {k \in Keys : Will(k)} = (keys \cup A) \ R
    BY <1>1 DEF Will
  <1>5. Count(agg) = Cardinality(keys) + Cardinality(A) - Cardinality(R)
    BY DEF Count
  <1> HIDE DEF A, R
  <1>6. /\ Cardinality(keys) \in Nat /\ Cardinality(A) \in Nat /\ Cardinality(R) \in Nat
    BY <1>2, FS_CardinalityType
  <1>7. Cardinality(keys \cap A) = 0
    BY <1>3, FS_EmptySet
  <1>8. /\ IsFiniteSet(keys \cup A)
        /\ Cardinality(keys \cup A) = Cardinality(keys) + Cardinality(A)
    <2>1. /\ IsFiniteSet(keys \cup A)
          /\ Cardinality(keys \cup A) =
                Cardinality(keys) + Cardinality(A) - Cardinality(keys \cap A)
      BY <1>2, FS_Union
    <2> QED  BY <1>6, <1>7, <2>1
  <1>9. /\ IsFiniteSet((keys \cup A) \ R)
        /\ Cardinality((keys \cup A) \ R) = Cardinality(keys \cup A) - Cardinality(R)
    <2>1. /\ IsFiniteSet((keys \cup A) \ R)
          /\ Cardinality((keys \cup A) \ R) =
                Cardinality(keys \cup A) - Cardinality((keys \cup A) \cap R)
      BY <1>8, FS_Difference
    <2> QED  BY <1>3, <2>1
  <1>10. Count(agg) = Cardinality((keys \cup A) \ R)
    BY <1>5, <1>6, <1>8, <1>9
  <1> QED  BY <1>4, <1>9, <1>10, ZenonT(30)

(* An existence filter is sent when something is to be removed, and says so.  *)
LEMMA FilterCounts ==
    ASSUME BooksInv, ChangesFit(agg, keys), agg.state # NoState,
           NEW t0 \in Documents, NEW t1 \in Documents, t1 # t0,
           \A k \in Keys : t1[k] \in {0, t0[k]},
           \A k \in Keys : t0[k] # 0 => Will(k)
    PROVE  Count(agg) # Cardinality(Present(t1))
  <1>1. PICK W : W = {k \in Keys : Will(k)}
    OBVIOUS
  <1>2. IsFiniteSet(W) /\ Count(agg) = Cardinality(W)
    BY <1>1, CountIs
  <1>3. Present(t1) \subseteq Present(t0) /\ Present(t0) \subseteq W
    BY <1>1 DEF Present
  <1>4. PICK k \in Keys : t1[k] # t0[k]
    <2>1. t0 \in [Keys -> Versions] /\ t1 \in [Keys -> Versions]
      BY DEF Documents
    <2> QED  BY <2>1
  <1>5. k \in Present(t0) /\ k \notin Present(t1)
    BY <1>4 DEF Present
  <1>6. Present(t1) \in SUBSET W /\ Present(t1) # W
    BY <1>3, <1>5
  <1>7. Cardinality(W) = Cardinality(Present(t1)) => W = Present(t1)
    BY <1>2, <1>6, FS_Subset
  <1> QED  BY <1>2, <1>6, <1>7

-----------------------------------------------------------------------------
(* The client takes a response that only the aggregator handles.           *)

(* The document as it will be stored is what the backend told, or outdated.   *)
LEMMA NowTakes ==
    ASSUME Takes, cached' = cached, NEW r \in Response, r = responses[1], Learns(r),
           NEW k \in Keys, NEW t0 \in Documents, NEW t1 \in Documents, NEW p0, NEW p1,
           Link(r, t0, p0, t1, p1), r.type \notin {"Added", "Removed", "Failed"},
           t0[k] # 0 => Now(k) = t0[k] \/ Outdated(k, t0[k], 0),
           Tells(r) /\ r.key = k => Spent(1, t0[k]),
           r.type = "Document" /\ r.key = k => agg'.updates[k] = r.version,
           NEW v, v = t1[k], v # 0
    PROVE  Now(k)' = v \/ Outdated(k, v, 0)'
  <1>1. CASE r.type = "Document" /\ r.key = k
    <2>1. v = r.version /\ r.version \in Nat
      BY <1>1, ResponseHas, DocumentsAre DEF Link, Documents
    <2> QED  BY <1>1, <2>1 DEF Now
  <1>2. CASE ~(r.type = "Document" /\ r.key = k)
    <2>1. v = t0[k] /\ ~(r.type \in {"Deleted", "Left"} /\ r.key = k)
      <3>1. r.type \in {"Document", "Deleted", "Left", "Filter", "Reset", "Current",
                        "Lookup", "Snapshot"}
        BY DEF Response
      <3>2. CASE r.type \in {"Document", "Deleted", "Left"}
        BY <1>2, <3>2, ResponseHas DEF Link, Documents
      <3>3. CASE r.type \in {"Filter", "Reset", "Current", "Lookup", "Snapshot"}
        BY <3>3, DocumentsAre DEF Link
      <3> QED  BY <3>1, <3>2, <3>3
    <2>2. Outdated(k, v, 0) => Outdated(k, v, 0)'
      BY OutdatedTakes
    <2>3. Outdated(k, v, 1) => Outdated(k, v, 0)'
      BY OutdatedTakes
    <2>4. CASE agg'.updates[k] = agg.updates[k]
      BY <2>1, <2>2, <2>4 DEF Now
    <2>5. CASE Tells(r) /\ r.key = k
      <3>1. Value(r) = 0 /\ Spent(1, v)
        BY <1>2, <2>1, <2>5 DEF Tells, Value
      <3>2. Outdated(k, v, 1)
        BY <2>5, <3>1 DEF Spent
      <3> QED  BY <2>3, <3>2
    <2> QED  BY <2>4, <2>5 DEF Learns
  <1> QED  BY <1>1, <1>2

(* A target stays active: what is left to show of each message.            *)
LEMMA ActiveTakes ==
    ASSUME Takes, UNCHANGED <<cached, view, keys, unfounded>>,
           NEW r \in Response, r = responses[1], Learns(r),
           r.type \notin {"Added", "Removed", "Failed"},
           NEW t \in Seq(Documents),
           NEW p \in Seq(Phase), Chain(t, p), Settled(t),
           Active(t[1], p[1]),
           \A k \in Keys : r.type = "Document" /\ r.key = k => agg'.updates[k] = r.version,
           ~agg'.reset => \A k \in Keys :
                /\ t[2][k] # 0 => Will(k)'
                /\ Will(k)' => \/ t[2][k] # 0
                               \/ k \in unfounded /\ agg'.state.changes[k] = "None",
           agg'.state.current /\ ~agg'.state.carried => p[2] = "Current"
    PROVE  Active(t[2], p[2])'
  <1>1. Len(responses) \in Nat /\ Len(responses) >= 1
    BY TakesIs
  <1>2. 1 \in 1..Len(t) /\ 2 \in 1..Len(t) /\ 1 \in 1..Len(p) /\ 2 \in 1..Len(p)
        /\ 1 \in 1..Len(responses) /\ 1 + 1 = 2
    BY <1>1 DEF Chain
  <1>3. PICK t0 \in Documents, t1 \in Documents, p0 \in Phase, p1 \in Phase :
            t0 = t[1] /\ t1 = t[2] /\ p0 = p[1] /\ p1 = p[2]
    BY <1>2
  <1>4. Link(r, t0, p0, t1, p1)
    <2>1. Link(responses[1], t[1], p[1], t[1 + 1], p[1 + 1])
      BY <1>2 DEF Chain
    <2> QED  BY <1>2, <1>3, <2>1
  <1>5. ASSUME NEW k \in Keys, t1[k] # 0
        PROVE  Now(k)' = t1[k] \/ Outdated(k, t1[k], 0)'
    <2>1. t0[k] # 0 => Now(k) = t0[k] \/ Outdated(k, t0[k], 0)
      BY <1>3 DEF Active, Stands
    <2>2. Tells(r) /\ r.key = k => Spent(1, t0[k])
      <3>1. 1 \in 1..1 + 1
        OBVIOUS
      <3> QED  BY <1>2, <1>3, <3>1 DEF Settled
    <2> QED  BY <1>4, <1>5, <2>1, <2>2, NowTakes
  <1>6. \A k \in Keys : Stands(k, t1[k])'
    BY <1>3, <1>5 DEF Stands
  <1> QED  BY <1>3, <1>6 DEF Active

(* The tokens and the keys stay; what remains is the client's position.    *)
LEMMA HandleTruth ==
    ASSUME BooksInv, TruthInv, responses # <<>>, NEW a, Handle(a), ChangesFit(a, keys),
           Learns(responses[1]),
           ~early => \A t \in Seq(Documents),
                        p \in Seq(Phase) : \A s, q :
                Traced(t, p) /\ s = Tail(t) /\ q = Tail(p) => Position(s, q)'
    PROVE  TruthInv'
  <1>1. /\ agg' = a /\ responses' = Tail(responses)
        /\ UNCHANGED <<view, keys, cached, disk, truth, unfounded, open, requests,
                       backend, result, changes, errors, early>>
    BY DEF Handle, client, failures
  <1>2. Takes
    BY <1>1 DEF Takes, BooksInv, TypeOK
  <1>3. ChangesFit(agg, keys)' /\ Bounded'
    BY <1>1 DEF ChangesFit, TruthInv, Bounded
  <1>4. Tokens' = Tokens
    BY <1>1 DEF Tokens, Listening
  <1>5. ASSUME ~early'
        PROVE  /\ \A x \in Tokens' : TokenFits(x)'
               /\ Viewed'
               /\ \E t \in Seq(Documents),
                     p \in Seq(Phase) : Traced(t, p)'
    <2>1. /\ \A x \in Tokens : TokenFits(x)
          /\ Viewed
          /\ \E t \in Seq(Documents),
                p \in Seq(Phase) : Traced(t, p)
      BY <1>1, <1>5 DEF TruthInv
    <2>2. PICK t \in Seq(Documents),
               p \in Seq(Phase) : Traced(t, p)
      BY <2>1
    <2>3. Chain(t, p) /\ Settled(t)
      BY <2>2 DEF Traced
    <2>4. \A x \in Tokens' : TokenFits(x)'
      <3>1. ASSUME NEW x \in Tokens PROVE TokenFits(x)'
        BY <1>1, <1>2, <2>1, <2>3, TokenTakes
      <3> QED  BY <1>4, <3>1
    <2>5. Viewed'
      BY <1>1, <2>1 DEF Viewed, Listening
    <2>6. PICK s \in Seq(Documents),
               q \in Seq(Phase) : s = Tail(t) /\ q = Tail(p)
      <3>1. Len(t) = Len(responses) + 1 /\ Len(p) = Len(responses) + 1
        BY <2>3 DEF Chain
      <3> QED  BY <1>2, <3>1, TailIs
    <2>7. Chain(s, q)'
      BY <1>1, <1>2, <2>3, <2>6, ChainTakes
    <2>8. Settled(s)'
      <3>1. TokensFrom(t[1])
        BY <1>4 DEF TokensFrom
      <3>2. Len(t) = Len(responses) + 1
        BY <2>3 DEF Chain
      <3> QED  BY <1>2, <2>3, <2>6, <3>1, <3>2, SettledTakes
    <2>9. Position(s, q)'
      BY <1>1, <1>5, <2>2, <2>6
    <2>10. Traced(s, q)'
      BY <2>7, <2>8, <2>9 DEF Traced
    <2> QED  BY <2>4, <2>5, <2>6, <2>10
  <1> QED  BY <1>3, <1>5 DEF TruthInv

(* A target that is not active stays so until the answer comes.            *)
LEMMA PositionAwaits ==
    ASSUME BooksInv, BooksInv', ~early, responses # <<>>, NEW a, Handle(a),
           Learns(responses[1]), \A x \in Tokens : TokenFits(x),
           NEW t \in Seq(Documents),
           NEW p, Traced(t, p), open, Listening, ~IsActive(agg),
           a.reset = agg.reset,
           \A k \in Keys : a.updates[k] \in {agg.updates[k], 0},
           NEW s, s = Tail(t), NEW q, ~(requests = <<>> /\ Coming(t, 1))
    PROVE  Position(s, q)'
  <1>1. /\ agg' = a /\ responses' = Tail(responses)
        /\ UNCHANGED <<view, keys, cached, disk, truth, unfounded, open, requests,
                       backend, result, changes, errors, early>>
    BY DEF Handle, client, failures
  <1>2. Takes
    BY <1>1 DEF Takes, BooksInv, TypeOK
  <1>3. Awaiting(t) /\ Settled(t) /\ Len(t) = Len(responses) + 1
    BY DEF Traced, Position, Chain
  <1>4. ASSUME NEW k \in Keys, NEW j \in Nat, NEW i \in Nat, NEW v,
               v = Base(view.token)[k], j - 1 <= i, Held(k, v, j)
        PROVE  Held(k, v, i)'
    <2>1. Tells(responses[1]) /\ responses[1].key = k => Spent(1, v)
      <3>1. 1 \in 1..Len(responses)
        BY <1>2, TakesIs
      <3>2. view.token \in Tokens
        BY DEF Tokens
      <3> QED  BY <1>3, <1>4, <3>1, <3>2 DEF Settled
    <2> QED  BY <1>1, <1>2, <1>4, <2>1, HeldTakes
  <1>5. view.current => ~agg'.reset /\ \A k \in Keys : agg'.updates[k] \in {-1, 0}
    BY <1>1, <1>3 DEF Awaiting
  <1>6. Awaiting(s)' /\ Outstanding(agg') >= 1
    <2>1. /\ view.token' = view.token /\ requests' = requests /\ ~early'
          /\ view'.current => view.current
          /\ view'.current => ~agg'.reset /\ \A k \in Keys : agg'.updates[k] \in {-1, 0}
      BY <1>1, <1>5
    <2> QED  BY <1>2, <1>3, <1>4, <2>1, AwaitingTakes
  <1>7. ~IsActive(agg)' /\ agg'.state # NoState
    BY <1>1, <1>6 DEF IsActive, Outstanding
  <1> QED  BY <1>6, <1>7 DEF Position


-----------------------------------------------------------------------------
(* One response after the other.                                           *)

(* What a response must do to an active target.                            *)
Follows(r) ==
    \A t0, t1 \in Documents, p0, p1 \in Phase :
        Link(r, t0, p0, t1, p1) /\ Active(t0, p0) =>
            /\ ~agg'.reset => \A k \in Keys :
                    /\ t1[k] # 0 => Will(k)'
                    /\ Will(k)' => \/ t1[k] # 0
                                   \/ k \in unfounded /\ agg'.state.changes[k] = "None"
            /\ agg'.state.current /\ ~agg'.state.carried => p1 = "Current"

(* A response that is no answer leaves the target active or not.           *)
LEMMA PositionTakes ==
    ASSUME BooksInv, BooksInv', TruthInv, ~early, responses # <<>>, NEW a, Handle(a),
           Learns(responses[1]), NEW r \in Response, r = responses[1],
           r.type \notin {"Added", "Removed", "Failed"},
           agg.state # NoState => a.state # NoState,
           ~IsActive(agg) => /\ a.reset = agg.reset
                             /\ \A k \in Keys : a.updates[k] \in {agg.updates[k], 0},
           IsActive(agg) /\ agg.state # NoState =>
                /\ \A k \in Keys : r.type = "Document" /\ r.key = k =>
                        agg'.updates[k] = r.version
                /\ Follows(r),
           NEW t \in Seq(Documents), NEW p \in Seq(Phase), Traced(t, p),
           NEW s, s = Tail(t), NEW q, q = Tail(p)
    PROVE  Position(s, q)'
  <1>1. /\ agg' = a /\ responses' = Tail(responses)
        /\ UNCHANGED <<view, keys, cached, disk, truth, unfounded, open, requests,
                       backend, result, changes, errors, early>>
    BY DEF Handle, client, failures
  <1>2. Takes
    BY <1>1 DEF Takes, BooksInv, TypeOK
  <1>3. Chain(t, p) /\ Settled(t) /\ Position(t, p)
    BY DEF Traced
  <1>4. s[1] = t[2] /\ q[1] = p[2]
    <2>1. Len(t) = Len(responses) + 1 /\ Len(p) = Len(responses) + 1
      BY <1>3 DEF Chain
    <2> QED  BY <1>2, <2>1, TailIs, ZenonT(30)
  <1>5. CASE ~(open /\ Listening)
    BY <1>1, <1>5 DEF Position, Listening
  <1>6. CASE open /\ Listening /\ ~IsActive(agg)
    <2>2. ~(requests = <<>> /\ Coming(t, 1))
      BY DEF Coming
    <2>3. \A x \in Tokens : TokenFits(x)
      BY DEF TruthInv
    <2> QED  BY <1>6, <2>2, <2>3, PositionAwaits
  <1>7. CASE open /\ Listening /\ IsActive(agg)
    <2>1. agg.state # NoState /\ Active(t[1], p[1])
      BY <1>3, <1>7 DEF Position
    <2>2. Outstanding(agg') = 0
      <3>1. Outstanding(agg) = 0
        BY <1>7, ActiveFacts DEF BooksInv
      <3>2. /\ Outstanding(agg) = Len(requests) + Cardinality(Answers(responses))
            /\ Outstanding(agg') = Len(requests) + Cardinality(Answers(responses'))
        BY <1>1 DEF BooksInv, Outstanding, Answers
      <3>3. Head(responses) = r
        BY <1>2, TakesIs
      <3>4. Cardinality(Answers(responses)) = Cardinality(Answers(responses'))
        BY <1>1, <3>3, ReadsFacts
      <3> QED  BY <3>1, <3>2, <3>4
    <2>3. agg'.state # NoState
      BY <1>1, <2>1
    <2>4. IsActive(agg)'
      BY <1>1, <1>7, <2>2, <2>3 DEF IsActive, Outstanding, Listening
    <2>5. PICK t0 \in Documents, t1 \in Documents, p0 \in Phase, p1 \in Phase :
            t0 = t[1] /\ t1 = t[2] /\ p0 = p[1] /\ p1 = p[2]
      <3>1. Len(t) = Len(responses) + 1 /\ Len(p) = Len(responses) + 1
        BY <1>3 DEF Chain
      <3> QED  BY <1>2, <3>1, TailIs
    <2>6. Link(r, t0, p0, t1, p1)
      <3>1. 1 \in 1..Len(responses)
        BY <1>2, TakesIs
      <3>2. Link(responses[1], t[1], p[1], t[1 + 1], p[1 + 1])
        BY <1>3, <3>1 DEF Chain
      <3>3. 1 + 1 = 2
        OBVIOUS
      <3> QED  BY <2>5, <3>2, <3>3
    <2>7. Active(t0, p0)
      BY <2>1, <2>5
    <2>8. /\ ~agg'.reset => \A k \in Keys :
                    /\ t1[k] # 0 => Will(k)'
                    /\ Will(k)' => \/ t1[k] # 0
                                   \/ k \in unfounded /\ agg'.state.changes[k] = "None"
          /\ agg'.state.current /\ ~agg'.state.carried => p1 = "Current"
      <3>1. Follows(r)
        BY <1>7, <2>1
      <3> QED  BY <2>6, <2>7, <3>1 DEF Follows
    <2>9. Active(t[2], p[2])'
      <3>1. \A k \in Keys : r.type = "Document" /\ r.key = k => agg'.updates[k] = r.version
        BY <1>7, <2>1
      <3> QED  BY <1>1, <1>2, <1>3, <2>1, <2>5, <2>8, <3>1, ActiveTakes
    <2>10. Active(s[1], q[1])'
      BY <1>4, <2>9
    <2> QED  BY <2>3, <2>4, <2>10 DEF Position
  <1> QED  BY <1>5, <1>6, <1>7

(* Of messages that only the aggregator handles, this is left to show.     *)
LEMMA MessageTruth ==
    ASSUME BooksInv, BooksInv', TruthInv, responses # <<>>, NEW a, Handle(a),
           ChangesFit(a, keys),
           NEW r \in Response, r = responses[1], Learns(r),
           r.type \notin {"Added", "Removed", "Failed"},
           agg.state # NoState => a.state # NoState,
           ~IsActive(agg) => /\ a.reset = agg.reset
                             /\ \A k \in Keys : a.updates[k] \in {agg.updates[k], 0},
           IsActive(agg) /\ agg.state # NoState =>
                /\ \A k \in Keys : r.type = "Document" /\ r.key = k =>
                        agg'.updates[k] = r.version
                /\ Follows(r)
    PROVE  TruthInv'
  <1>1. ASSUME ~early, NEW t \in Seq(Documents), NEW p \in Seq(Phase),
               NEW s, NEW q, Traced(t, p), s = Tail(t), q = Tail(p)
        PROVE  Position(s, q)'
    BY <1>1, PositionTakes
  <1> QED  BY <1>1, HandleTruth

(* The first response, when it is of a type.                               *)
LEMMA FirstIs ==
    ASSUME BooksInv, NEW type, Reads(type)
    PROVE  /\ responses # <<>> /\ responses[1] = Head(responses)
           /\ responses[1] \in Response /\ responses[1].type = type
  <1>1. responses # <<>> /\ Head(responses).type = type /\ responses \in Seq(Response)
    BY DEF Reads, BooksInv, TypeOK
  <1>2. Head(responses) = responses[1] /\ Head(responses) \in Response
    BY <1>1, HeadTailProperties
  <1> QED  BY <1>1, <1>2

(* One document of an active target changes, to x.                         *)
LEMMA TouchedFollows ==
    ASSUME BooksInv, agg.state # NoState, keys' = keys, NEW k \in Keys, NEW c, NEW w, NEW x,
           Touched(agg, agg', k, c, w), NEW r,
           \A t0, t1 \in Documents, p0, p1 \in Phase : Link(r, t0, p0, t1, p1) =>
                t1 = [t0 EXCEPT ![k] = x] /\ p1 = p0,
           \/ x # 0 /\ c = IF k \in keys THEN "Modified" ELSE "Added"
           \/ x = 0 /\ c = IF k \in keys THEN "Removed" ELSE "None"
    PROVE  Follows(r)
  <1>1. /\ agg'.reset = agg.reset
        /\ agg'.state.current = agg.state.current
        /\ agg'.state.carried = agg.state.carried
        /\ agg'.state.changes[k] = c
        /\ \A j \in Keys : j # k => agg'.state.changes[j] = agg.state.changes[j]
    BY DEF Touched, Ensure
  <1> SUFFICES ASSUME NEW t0 \in Documents, NEW t1 \in Documents,
                      NEW p0 \in Phase, NEW p1 \in Phase,
                      Link(r, t0, p0, t1, p1), Active(t0, p0)
               PROVE  /\ ~agg'.reset => \A j \in Keys :
                            /\ t1[j] # 0 => Will(j)'
                            /\ Will(j)' =>
                                \/ t1[j] # 0
                                \/ j \in unfounded /\ agg'.state.changes[j] = "None"
                      /\ agg'.state.current /\ ~agg'.state.carried => p1 = "Current"
    BY DEF Follows
  <1>2. t1 = [t0 EXCEPT ![k] = x] /\ p1 = p0
    OBVIOUS
  <1>3. t1[k] = x /\ \A j \in Keys : j # k => t1[j] = t0[j]
    BY <1>2 DEF Documents
  <1>4. Will(k)' <=> x # 0
    BY <1>1 DEF Will
  <1>5. \A j \in Keys : j # k => (Will(j)' <=> Will(j))
    BY <1>1 DEF Will
  <1>6. ASSUME ~agg'.reset, NEW j \in Keys
        PROVE  /\ t1[j] # 0 => Will(j)'
               /\ Will(j)' => \/ t1[j] # 0
                              \/ j \in unfounded /\ agg'.state.changes[j] = "None"
    <2>1. CASE j = k
      BY <1>3, <1>4, <2>1
    <2>2. CASE j # k
      <3>1. Stands(j, t0[j]) /\ ~agg.reset
        BY <1>1, <1>6 DEF Active
      <3> QED  BY <1>1, <1>3, <1>5, <2>2, <3>1 DEF Stands
    <2> QED  BY <2>1, <2>2
  <1>7. agg'.state.current /\ ~agg'.state.carried => p1 = "Current"
    BY <1>1, <1>2 DEF Active
  <1> QED  BY <1>6, <1>7

(* A document comes, or changes.                                           *)
LEMMA DocumentTruth == BooksInv /\ BooksInv' /\ TruthInv /\ ReadDocument => TruthInv'
  <1> SUFFICES ASSUME BooksInv, BooksInv', TruthInv, ReadDocument PROVE TruthInv'
    OBVIOUS
  <1>1. PICK r \in Response : /\ r = responses[1] /\ r = Head(responses)
                              /\ r.type = "Document" /\ responses # <<>>
    BY FirstIs DEF ReadDocument
  <1>2. PICK k \in Keys, v \in Versions : k = r.key /\ v = r.version
    BY <1>1, ResponseHas
  <1>3. PICK a : a = AddDocumentToTarget(agg, k, v)
    OBVIOUS
  <1>4. Handle(a)
    BY <1>1, <1>2, <1>3 DEF ReadDocument
  <1>5. agg' = a /\ keys' = keys
    BY <1>4 DEF Handle, client
  <1>6. /\ ~IsActive(agg) => a = agg
        /\ IsActive(agg) => Touched(agg, a, k, IF k \in keys THEN "Modified"
                                                             ELSE "Added", v)
        /\ ChangesFit(a, keys)
    BY <1>3, DocumentFits DEF BooksInv, TruthInv
  <1>7. Learns(r)
    BY <1>1, <1>2, <1>5, <1>6 DEF Learns, Touched, Tells, Value
  <1>8. ASSUME IsActive(agg), agg.state # NoState
        PROVE  /\ \A j \in Keys : r.type = "Document" /\ r.key = j =>
                        agg'.updates[j] = r.version
               /\ Follows(r)
    <2>1. Touched(agg, agg', k, IF k \in keys THEN "Modified" ELSE "Added", v)
      BY <1>5, <1>6, <1>8
    <2>2. agg'.updates[k] = v
      BY <2>1 DEF Touched
    <2>3. Follows(r)
      <3>1. CASE v = 0
        BY <1>1, <1>2, <3>1 DEF Follows, Link
      <3>2. CASE v # 0
        <4>1. \A t0, t1 \in Documents, p0, p1 \in Phase : Link(r, t0, p0, t1, p1) =>
                t1 = [t0 EXCEPT ![k] = v] /\ p1 = p0
          BY <1>1, <1>2 DEF Link
        <4>2. PICK c : c = IF k \in keys THEN "Modified" ELSE "Added"
          OBVIOUS
        <4>3. Touched(agg, agg', k, c, v)
          BY <2>1, <4>2
        <4> QED  BY <1>5, <1>8, <3>2, <4>1, <4>2, <4>3, TouchedFollows
      <3> QED  BY <3>1, <3>2
    <2> QED  BY <1>2, <2>2, <2>3
  <1>9. agg.state # NoState => a.state # NoState
    BY <1>6 DEF Touched
  <1>10. ~IsActive(agg) => /\ a.reset = agg.reset
                           /\ \A j \in Keys : a.updates[j] \in {agg.updates[j], 0}
    BY <1>6
  <1>11. r.type \notin {"Added", "Removed", "Failed"}
    BY <1>1
  <1> QED  BY <1>1, <1>4, <1>6, <1>7, <1>8, <1>9, <1>10, <1>11, MessageTruth

(* A document goes.                                                        *)
LEMMA RemovalTruth ==
    BooksInv /\ BooksInv' /\ TruthInv /\ (ReadDeleted \/ ReadLeft) => TruthInv'
  <1> SUFFICES ASSUME BooksInv, BooksInv', TruthInv, ReadDeleted \/ ReadLeft
               PROVE  TruthInv'
    OBVIOUS
  <1>1. PICK r \in Response : /\ r = responses[1] /\ r = Head(responses)
                              /\ r.type \in {"Deleted", "Left"} /\ responses # <<>>
    BY FirstIs DEF ReadDeleted, ReadLeft
  <1>2. PICK k \in Keys : k = r.key
    BY <1>1, ResponseHas
  <1>3. PICK u \in Versions \cup {-1} : u = IF r.type = "Deleted" THEN 0 ELSE -1
    BY DocumentsAre
  <1>4. PICK a : a = RemoveDocumentFromTarget(agg, k, u)
    OBVIOUS
  <1>5. Handle(a)
    BY <1>1, <1>2, <1>3, <1>4 DEF ReadDeleted, ReadLeft, Reads
  <1>6. agg' = a /\ keys' = keys
    BY <1>5 DEF Handle, client
  <1>7. /\ ~IsActive(agg) => a = agg
        /\ IsActive(agg) => Touched(agg, a, k, IF k \in keys THEN "Removed" ELSE "None",
                                    IF u = -1 THEN agg.updates[k] ELSE u)
        /\ ChangesFit(a, keys)
    BY <1>4, RemovalFits DEF BooksInv, TruthInv
  <1>8. Learns(r)
    BY <1>1, <1>2, <1>3, <1>6, <1>7 DEF Learns, Touched, Tells, Value
  <1>9. ASSUME IsActive(agg), agg.state # NoState PROVE Follows(r)
    <2>1. PICK w : Touched(agg, agg', k, IF k \in keys THEN "Removed" ELSE "None", w)
      BY <1>6, <1>7, <1>9
    <2>2. \A t0, t1 \in Documents, p0, p1 \in Phase : Link(r, t0, p0, t1, p1) =>
                t1 = [t0 EXCEPT ![k] = 0] /\ p1 = p0
      BY <1>1, <1>2 DEF Link
    <2> QED  BY <1>6, <1>9, <2>1, <2>2, TouchedFollows
  <1>10. agg.state # NoState => a.state # NoState
    BY <1>7 DEF Touched
  <1>11. ~IsActive(agg) => /\ a.reset = agg.reset
                           /\ \A j \in Keys : a.updates[j] \in {agg.updates[j], 0}
    BY <1>7
  <1>12. r.type \notin {"Added", "Removed", "Failed", "Document"}
    BY <1>1
  <1> QED  BY <1>1, <1>5, <1>7, <1>8, <1>9, <1>10, <1>11, <1>12, MessageTruth

(* A document in limbo is gone.                                            *)
LEMMA LookupTruth == BooksInv /\ BooksInv' /\ TruthInv /\ ReadLookup => TruthInv'
  <1> SUFFICES ASSUME BooksInv, BooksInv', TruthInv, ReadLookup PROVE TruthInv'
    OBVIOUS
  <1>1. PICK r \in Response : /\ r = responses[1] /\ r = Head(responses)
                              /\ r.type = "Lookup" /\ responses # <<>>
    BY FirstIs DEF ReadLookup
  <1>2. PICK k \in Keys : k = r.key
    BY <1>1, ResponseHas
  <1>3. PICK a : a = Gone(agg, k)
    OBVIOUS
  <1>4. Handle(a)
    BY <1>1, <1>2, <1>3 DEF ReadLookup, Gone
  <1>5. agg' = a /\ keys' = keys
    BY <1>4 DEF Handle, client
  <1>6. /\ a.state = agg.state /\ a.reset = agg.reset /\ ChangesFit(a, keys)
        /\ a.updates[k] = 0
        /\ \A j \in Keys : j # k => a.updates[j] = agg.updates[j]
    <2>1. Sound(agg, keys) /\ ChangesFit(agg, keys)
      BY DEF BooksInv, TruthInv
    <2> QED  BY <1>3, <2>1, LookupFits
  <1>7. Learns(r)
    BY <1>1, <1>2, <1>5, <1>6 DEF Learns, Tells, Value
  <1>8. Follows(r)
    <2> SUFFICES ASSUME NEW t0 \in Documents, NEW t1 \in Documents,
                        NEW p0 \in Phase, NEW p1 \in Phase,
                        Link(r, t0, p0, t1, p1), Active(t0, p0)
                 PROVE  /\ ~agg'.reset => \A j \in Keys :
                            /\ t1[j] # 0 => Will(j)'
                            /\ Will(j)' =>
                                \/ t1[j] # 0
                                \/ j \in unfounded /\ agg'.state.changes[j] = "None"
                        /\ agg'.state.current /\ ~agg'.state.carried => p1 = "Current"
      BY DEF Follows
    <2>1. t1 = t0 /\ p1 = p0
      BY <1>1 DEF Link
    <2>2. \A j \in Keys : Will(j)' <=> Will(j)
      BY <1>5, <1>6 DEF Will
    <2> QED  BY <1>5, <1>6, <2>1, <2>2 DEF Active, Stands
  <1>9. \A j \in Keys : a.updates[j] \in {agg.updates[j], 0}
    BY <1>6
  <1>10. r.type \notin {"Added", "Removed", "Failed", "Document"}
    BY <1>1
  <1> QED  BY <1>1, <1>4, <1>6, <1>7, <1>8, <1>9, <1>10, MessageTruth

(* The target is reset.                                                    *)
LEMMA ResetTruth == BooksInv /\ BooksInv' /\ TruthInv /\ ReadReset => TruthInv'
  <1> SUFFICES ASSUME BooksInv, BooksInv', TruthInv, ReadReset PROVE TruthInv'
    OBVIOUS
  <1>1. PICK r \in Response : /\ r = responses[1] /\ r = Head(responses)
                              /\ r.type = "Reset" /\ responses # <<>>
    BY FirstIs DEF ReadReset
  <1>2. PICK b : b = Ensure(agg)
    OBVIOUS
  <1>3. PICK n : n = ResetTarget(b)
    OBVIOUS
  <1>4. PICK a : a = IF IsActive(agg) THEN n ELSE b
    OBVIOUS
  <1>5. Handle(a)
    BY <1>2, <1>3, <1>4 DEF ReadReset
  <1>6. agg' = a /\ keys' = keys
    BY <1>5 DEF Handle, client
  <1>7. /\ Beside(agg, b) /\ ChangesFit(b, keys) /\ b.state # NoState
        /\ agg.state # NoState => b = agg
    BY <1>2, EnsureFits DEF BooksInv, TruthInv
  <1>8. Sound(b, keys)
    BY <1>2, EnsureKeeps DEF BooksInv
  <1>9. /\ n.updates = b.updates /\ n.state # NoState /\ ~n.state.current
        /\ \A k \in Keys : n.state.changes[k] = IF k \in keys THEN "Removed"
                                                              ELSE "None"
        /\ ChangesFit(n, keys)
    BY <1>3, <1>7, <1>8, ResetFits
  <1>10. /\ a.updates = agg.updates /\ a.state # NoState /\ ChangesFit(a, keys)
         /\ ~IsActive(agg) => a.reset = agg.reset
    BY <1>4, <1>7, <1>9 DEF Beside
  <1>11. Learns(r)
    BY <1>6, <1>10 DEF Learns
  <1>12. ASSUME IsActive(agg) PROVE Follows(r)
    <2>1. ~agg'.state.current /\ \A k \in Keys : ~Will(k)'
      BY <1>4, <1>6, <1>9, <1>12 DEF Will
    <2>2. \A t0, t1 \in Documents, p0, p1 \in Phase : Link(r, t0, p0, t1, p1) =>
                \A k \in Keys : t1[k] = 0
      BY <1>1, DocumentsAre DEF Link
    <2> QED  BY <2>1, <2>2 DEF Follows
  <1>13. r.type \notin {"Added", "Removed", "Failed", "Document"}
    BY <1>1
  <1> QED  BY <1>1, <1>5, <1>10, <1>11, <1>12, <1>13, MessageTruth

(* The target is current.                                                  *)
LEMMA CurrentTruth == BooksInv /\ BooksInv' /\ TruthInv /\ ReadCurrent => TruthInv'
  <1> SUFFICES ASSUME BooksInv, BooksInv', TruthInv, ReadCurrent PROVE TruthInv'
    OBVIOUS
  <1>1. PICK r \in Response : /\ r = responses[1] /\ r = Head(responses)
                              /\ r.type = "Current" /\ responses # <<>>
    BY FirstIs DEF ReadCurrent
  <1>2. PICK x \in Token : x = r.token
    BY <1>1, ResponseHas
  <1>3. PICK a : a = TargetCurrent(agg, x)
    OBVIOUS
  <1>4. Handle(a)
    BY <1>1, <1>2, <1>3 DEF ReadCurrent
  <1>5. agg' = a /\ keys' = keys
    BY <1>4 DEF Handle, client
  <1>6. /\ Beside(agg, a) /\ ChangesFit(a, keys) /\ a.state # NoState
        /\ agg.state # NoState => a.state.changes = agg.state.changes
    BY <1>3, CurrentFits DEF BooksInv, TruthInv
  <1>7. Learns(r)
    BY <1>5, <1>6 DEF Learns, Beside
  <1>8. ASSUME agg.state # NoState PROVE Follows(r)
    <2>1. \A k \in Keys : /\ agg'.state.changes[k] = agg.state.changes[k]
                          /\ Will(k)' <=> Will(k)
      BY <1>5, <1>6, <1>8 DEF Will
    <2>2. agg'.reset = agg.reset
      BY <1>5, <1>6 DEF Beside
    <2> SUFFICES ASSUME NEW t0 \in Documents, NEW t1 \in Documents,
                        NEW p0 \in Phase, NEW p1 \in Phase,
                        Link(r, t0, p0, t1, p1), Active(t0, p0)
                 PROVE  /\ ~agg'.reset => \A j \in Keys :
                            /\ t1[j] # 0 => Will(j)'
                            /\ Will(j)' =>
                                \/ t1[j] # 0
                                \/ j \in unfounded /\ agg'.state.changes[j] = "None"
                        /\ agg'.state.current /\ ~agg'.state.carried => p1 = "Current"
      BY DEF Follows
    <2>3. t1 = t0 /\ p1 = "Current"
      BY <1>1 DEF Link
    <2> QED  BY <2>1, <2>2, <2>3 DEF Active, Stands
  <1>9. a.reset = agg.reset /\ \A k \in Keys : a.updates[k] \in {agg.updates[k], 0}
    BY <1>6 DEF Beside
  <1>10. r.type \notin {"Added", "Removed", "Failed", "Document"}
    BY <1>1
  <1> QED  BY <1>1, <1>4, <1>6, <1>7, <1>8, <1>9, <1>10, MessageTruth

(* An existence filter.                                                    *)
LEMMA FilterTruth == BooksInv /\ BooksInv' /\ TruthInv /\ ReadFilter => TruthInv'
  <1> SUFFICES ASSUME BooksInv, BooksInv', TruthInv, ReadFilter PROVE TruthInv'
    OBVIOUS
  <1>1. PICK r \in Response : /\ r = responses[1] /\ r = Head(responses)
                              /\ r.type = "Filter" /\ responses # <<>>
    BY FirstIs DEF ReadFilter
  <1>2. PICK a : a = HandleExistenceFilter(agg, r.count)
    OBVIOUS
  <1>3. Handle(a)
    BY <1>1, <1>2 DEF ReadFilter
  <1>4. agg' = a /\ keys' = keys
    BY <1>3 DEF Handle, client
  <1>5. ChangesFit(agg, keys)
    BY DEF TruthInv
  <1>6. /\ a.updates = agg.updates /\ ChangesFit(a, keys)
        /\ ~IsActive(agg) => a = agg
        /\ IsActive(agg) => a.state # NoState
        /\ IsActive(agg) /\ agg.state # NoState =>
                \/ a = agg /\ Count(agg) = r.count
                \/ a.reset /\ ~a.state.current
    BY <1>2, <1>5, FilterFits DEF BooksInv
  <1>7. Learns(r)
    BY <1>4, <1>6 DEF Learns
  <1>8. ASSUME IsActive(agg), agg.state # NoState PROVE Follows(r)
    <2> SUFFICES ASSUME NEW t0 \in Documents, NEW t1 \in Documents,
                        NEW p0 \in Phase, NEW p1 \in Phase,
                        Link(r, t0, p0, t1, p1), Active(t0, p0)
                 PROVE  /\ ~agg'.reset => \A j \in Keys :
                            /\ t1[j] # 0 => Will(j)'
                            /\ Will(j)' =>
                                \/ t1[j] # 0
                                \/ j \in unfounded /\ agg'.state.changes[j] = "None"
                        /\ agg'.state.current /\ ~agg'.state.carried => p1 = "Current"
      BY DEF Follows
    <2>1. CASE a.reset /\ ~a.state.current
      BY <1>4, <2>1
    <2>2. CASE a = agg /\ Count(agg) = r.count
      <3>1. /\ p1 = p0 /\ t1 # t0
            /\ \A k \in Keys : t1[k] \in {0, t0[k]}
            /\ Cardinality(Present(t1)) = r.count
        BY <1>1 DEF Link
      <3>2. ~agg.reset => \A k \in Keys : t0[k] # 0 => Will(k)
        BY DEF Active, Stands
      <3>3. agg.reset
        BY <1>5, <1>8, <2>2, <3>1, <3>2, FilterCounts DEF Aggregator
      <3> QED  BY <1>4, <2>2, <3>1, <3>3 DEF Active
    <2> QED  BY <1>6, <1>8, <2>1, <2>2
  <1>9. /\ agg.state # NoState => a.state # NoState
        /\ ~IsActive(agg) => a.reset = agg.reset
        /\ \A k \in Keys : a.updates[k] \in {agg.updates[k], 0}
    BY <1>6
  <1>10. r.type \notin {"Added", "Removed", "Failed", "Document"}
    BY <1>1
  <1> QED  BY <1>1, <1>3, <1>6, <1>7, <1>8, <1>9, <1>10, MessageTruth

(* The answer to an Unwatch.                                               *)
LEMMA RemovedTruth == BooksInv /\ BooksInv' /\ TruthInv /\ ReadRemoved => TruthInv'
  <1> SUFFICES ASSUME BooksInv, BooksInv', TruthInv, ReadRemoved PROVE TruthInv'
    OBVIOUS
  <1>1. PICK r \in Response : /\ r = responses[1] /\ r = Head(responses)
                              /\ r.type = "Removed" /\ responses # <<>>
    BY FirstIs DEF ReadRemoved
  <1>2. PICK a : a = TargetRemoved(agg)
    OBVIOUS
  <1>3. Handle(a)
    BY <1>2 DEF ReadRemoved
  <1>4. /\ agg' = a /\ responses' = Tail(responses)
        /\ UNCHANGED <<view, open>>
    BY <1>3 DEF Handle, client
  <1>5. Beside(agg, a) /\ ChangesFit(a, keys)
    BY <1>2, RemovedFits DEF BooksInv, TruthInv
  <1>6. Learns(responses[1])
    BY <1>4, <1>5 DEF Learns, Beside
  <1>7. ASSUME ~early, NEW t \in Seq(Documents), NEW p \in Seq(Phase),
               NEW s, NEW q, Traced(t, p), s = Tail(t), q = Tail(p)
        PROVE  Position(s, q)'
    <2>1. CASE ~(open /\ Listening)
      BY <1>4, <2>1 DEF Position, Listening
    <2>2. CASE open /\ Listening
      <3>1. ~IsActive(agg)
        <4>1. 1 \in 1..Len(responses)
          BY <1>1 DEF BooksInv, TypeOK
        <4> QED  BY <1>1, <1>7, <4>1, ActiveQuiet
      <3>2. ~(requests = <<>> /\ Coming(t, 1))
        BY <1>1 DEF Coming
      <3>3. \A x \in Tokens : TokenFits(x)
        BY <1>7 DEF TruthInv
      <3>4. a.reset = agg.reset /\ \A k \in Keys : a.updates[k] \in {agg.updates[k], 0}
        BY <1>5 DEF Beside
      <3> QED  BY <1>1, <1>3, <1>6, <1>7, <2>2, <3>1, <3>2, <3>3, <3>4, PositionAwaits
    <2> QED  BY <2>1, <2>2
  <1> QED  BY <1>1, <1>3, <1>5, <1>6, <1>7, HandleTruth

(* The answer that the view waits for: what it has is what the token says.    *)
LEMMA AddedActive ==
    ASSUME BooksInv, BooksInv', ~early, responses # <<>>, NEW a, Handle(a),
           a = TargetAdded(agg), ChangesFit(agg, keys),
           \A x \in Tokens : TokenFits(x), open, Listening,
           NEW t \in Seq(Documents), NEW p \in Seq(Phase),
           Traced(t, p), requests = <<>>, Coming(t, 1),
           NEW s, s = Tail(t), NEW q, q = Tail(p)
    PROVE  Position(s, q)'
  <1>1. /\ agg' = a /\ responses' = Tail(responses)
        /\ UNCHANGED <<view, keys, cached, disk, truth, unfounded, open, requests,
                       backend, result, changes, errors, early>>
    BY DEF Handle, client, failures
  <1>2. Takes
    BY <1>1 DEF Takes, BooksInv, TypeOK
  <1>3. Outstanding(agg) = 1
    BY <1>2, ComingFirst
  <1>4. /\ Beside(agg, a) /\ a.state # NoState /\ a.state.changes = NoChanges
        /\ a.state.carried = a.state.current
    BY <1>3, AddedFits DEF BooksInv
  <1>5. Outstanding(agg') = 0
    <2>1. Head(responses).type = "Added"
      BY <1>2, TakesIs DEF Coming
    <2>2. /\ Outstanding(agg) = Len(requests) + Cardinality(Answers(responses))
          /\ Outstanding(agg') = Len(requests) + Cardinality(Answers(responses'))
      BY <1>1 DEF BooksInv, Outstanding, Answers
    <2>3. /\ Cardinality(Answers(responses)) = Cardinality(Answers(responses')) + 1
          /\ Cardinality(Answers(responses')) \in Nat
      BY <1>1, <2>1, ReadsFacts
    <2>4. Len(requests) = 0
      OBVIOUS
    <2> QED  BY <1>3, <2>2, <2>3, <2>4
  <1>6. IsActive(agg)' /\ agg'.state # NoState
    BY <1>1, <1>4, <1>5 DEF IsActive, Outstanding, Listening
  <1>7. s[1] = t[2] /\ q[1] = p[2]
    <2>1. Len(t) = Len(responses) + 1 /\ Len(p) = Len(responses) + 1
      BY DEF Traced, Chain
    <2> QED  BY <1>2, <2>1, TailIs, ZenonT(30)
  <1>8. ASSUME NEW k \in Keys PROVE Stands(k, t[2][k])'
    <2>1. PICK v : v = t[2][k]
      OBVIOUS
    <2>2. v = Base(view.token)[k] /\ Held(k, v, 1)
      <3>1. 1 + 1 = 2
        OBVIOUS
      <3> QED  BY <2>1, <3>1 DEF Coming
    <2>3. (v # 0 => k \in keys) /\ (k \in keys => v # 0 \/ k \in unfounded)
      BY <2>2 DEF Tokens, TokenFits
    <2>4. agg'.state.changes[k] = "None" /\ agg'.updates[k] = agg.updates[k]
      BY <1>1, <1>4, NoChangesType DEF Beside
    <2>5. Will(k)' <=> k \in keys
      BY <1>1, <2>4 DEF Will
    <2>6. v # 0 => Now(k)' = v \/ Outdated(k, v, 0)'
      <3>1. Outdated(k, v, 1) => Outdated(k, v, 0)'
        BY <1>2, OutdatedTakes
      <3> QED  BY <1>1, <2>2, <2>4, <3>1 DEF Held, Now
    <2>7. Stands(k, v)'
      BY <1>1, <2>3, <2>4, <2>5, <2>6 DEF Stands
    <2> QED  BY <2>1, <2>7
  <1>9. Active(t[2], p[2])'
    BY <1>1, <1>4, <1>8 DEF Active
  <1>10. Active(s[1], q[1])'
    BY <1>7, <1>9
  <1> QED  BY <1>6, <1>10 DEF Position

(* The answer to a Watch.                                                  *)
LEMMA AddedTruth == BooksInv /\ BooksInv' /\ TruthInv /\ ReadAdded => TruthInv'
  <1> SUFFICES ASSUME BooksInv, BooksInv', TruthInv, ReadAdded PROVE TruthInv'
    OBVIOUS
  <1>1. PICK r \in Response : /\ r = responses[1] /\ r = Head(responses)
                              /\ r.type = "Added" /\ responses # <<>>
    BY FirstIs DEF ReadAdded
  <1>2. PICK a : a = TargetAdded(agg)
    OBVIOUS
  <1>3. Handle(a)
    BY <1>2 DEF ReadAdded
  <1>4. /\ agg' = a /\ responses' = Tail(responses)
        /\ UNCHANGED <<view, open>>
    BY <1>3 DEF Handle, client
  <1>5. Beside(agg, a) /\ ChangesFit(a, keys)
    BY <1>2, AddedFits DEF BooksInv, TruthInv
  <1>6. Learns(responses[1])
    BY <1>4, <1>5 DEF Learns, Beside
  <1>7. ASSUME ~early, NEW t \in Seq(Documents), NEW p \in Seq(Phase),
               NEW s, NEW q, Traced(t, p), s = Tail(t), q = Tail(p)
        PROVE  Position(s, q)'
    <2>1. CASE ~(open /\ Listening)
      BY <1>4, <2>1 DEF Position, Listening
    <2>2. CASE open /\ Listening
      <3>1. ~IsActive(agg)
        <4>1. 1 \in 1..Len(responses)
          BY <1>1 DEF BooksInv, TypeOK
        <4> QED  BY <1>1, <1>7, <4>1, ActiveQuiet
      <3>2. \A x \in Tokens : TokenFits(x)
        BY <1>7 DEF TruthInv
      <3>3. a.reset = agg.reset /\ \A k \in Keys : a.updates[k] \in {agg.updates[k], 0}
        BY <1>5 DEF Beside
      <3>4. CASE ~(requests = <<>> /\ Coming(t, 1))
        BY <1>1, <1>3, <1>6, <1>7, <2>2, <3>1, <3>2, <3>3, <3>4, PositionAwaits
      <3>5. CASE requests = <<>> /\ Coming(t, 1)
        <4>1. ChangesFit(agg, keys)
          BY DEF TruthInv
        <4> QED  BY <1>1, <1>2, <1>3, <1>7, <2>2, <3>2, <3>5, <4>1, AddedActive
      <3> QED  BY <3>4, <3>5
    <2> QED  BY <2>1, <2>2
  <1> QED  BY <1>1, <1>3, <1>5, <1>6, <1>7, HandleTruth

(* The target has failed.                                                  *)
LEMMA FailedTruth == BooksInv /\ TruthInv /\ ReadFailed => TruthInv'
  <1> SUFFICES ASSUME BooksInv, TruthInv, ReadFailed PROVE TruthInv'
    OBVIOUS
  <1>1. /\ responses # <<>> /\ responses' = Tail(responses)
        /\ UNCHANGED <<keys, cached, truth, unfounded, open, requests, backend, result,
                       changes, errors>>
        /\ ~early' => ~early
    BY DEF ReadFailed, Reads
  <1>2. Takes
    BY <1>1 DEF Takes, BooksInv, TypeOK
  <1>3. /\ ~Listening' /\ (agg' = agg \/ agg'.state = NoState)
        /\ agg'.updates = agg.updates /\ disk' \in Tokens
    <2>1. CASE Listening
      <3>1. /\ view' = NoView /\ disk' = view.kept
            /\ agg' = [agg EXCEPT !.state = NoState]
        BY <2>1 DEF ReadFailed
      <3>2. agg \in Aggregator
        BY DEF BooksInv, Sound
      <3>3. agg'.state = NoState /\ agg'.updates = agg.updates
        BY <3>1, <3>2 DEF Aggregator
      <3> QED  BY <2>1, <3>1, <3>3 DEF Listening, Tokens
    <2>2. CASE ~Listening
      BY <2>2 DEF ReadFailed, Listening, Tokens
    <2> QED  BY <2>1, <2>2
  <1>4. ChangesFit(agg, keys)' /\ Bounded'
    BY <1>1, <1>3 DEF ChangesFit, TruthInv, Bounded
  <1>5. Tokens' \subseteq Tokens
    BY <1>3 DEF Tokens
  <1>6. ASSUME ~early'
        PROVE  /\ \A x \in Tokens' : TokenFits(x)'
               /\ Viewed'
               /\ \E t \in Seq(Documents), p \in Seq(Phase) : Traced(t, p)'
    <2>1. PICK t \in Seq(Documents), p \in Seq(Phase) :
            /\ Chain(t, p) /\ Settled(t)
            /\ \A x \in Tokens : TokenFits(x)
      BY <1>1, <1>6 DEF TruthInv, Traced
    <2>2. Learns(responses[1])
      BY <1>3 DEF Learns
    <2>3. ASSUME NEW x \in Tokens PROVE TokenFits(x)'
      BY <1>1, <1>2, <2>1, <2>2, TokenTakes
    <2>4. PICK s \in Seq(Documents), q \in Seq(Phase) :
            s = Tail(t) /\ q = Tail(p)
      <3>1. Len(t) = Len(responses) + 1 /\ Len(p) = Len(responses) + 1
        BY <2>1 DEF Chain
      <3> QED  BY <1>2, <3>1, TailIs
    <2>5. Chain(s, q)'
      BY <1>1, <1>2, <2>1, <2>4, ChainTakes
    <2>6. Settled(s)'
      <3>1. TokensFrom(t[1])
        BY <1>5 DEF TokensFrom
      <3>2. Len(t) = Len(responses) + 1
        BY <2>1 DEF Chain
      <3> QED  BY <1>2, <2>1, <2>4, <3>1, <3>2, SettledTakes
    <2>7. Position(s, q)' /\ Viewed'
      BY <1>3 DEF Position, Viewed
    <2>8. Traced(s, q)'
      BY <2>5, <2>6, <2>7 DEF Traced
    <2> QED  BY <1>5, <2>3, <2>4, <2>7, <2>8
  <1> QED  BY <1>4, <1>6 DEF TruthInv

-----------------------------------------------------------------------------
(* A snapshot.                                                             *)

(* The target's state with the snapshot's token, whether there is anything to *)
(* tell of the target, and the aggregator afterwards.                      *)
Fed(x) == IF IsActive(agg) /\ agg.state # NoState THEN UpdateResumeToken(agg.state, x)
                                                  ELSE agg.state

Raised(x) == IsActive(agg) /\ agg.state # NoState /\ Fed(x).pending

After(x) ==
    [NewAggregator EXCEPT
        !.ok = agg.ok /\ {k \in Keys : Raised(x) /\ Fed(x).changes[k] = "Modified"}
                            \subseteq keys,
        !.state = IF Raised(x) THEN ClearPendingChanges(Fed(x)) ELSE Fed(x)]

(* The documents are stored.                                               *)
Stores == \A k \in Keys : cached'[k] = Now(k) /\ agg'.updates[k] = -1

(* The step in these terms.                                                *)
Snapped(x, s, event, mismatch) ==
    /\ cached' = [k \in Keys |-> Now(k)]
    /\ keys' = (keys \cup {k \in Keys : event /\ s.changes[k] = "Added"})
                 \ {k \in Keys : event /\ s.changes[k] = "Removed"}
    /\ view' =
         IF ~Listening THEN NoView
         ELSE [current |-> IF event THEN s.current ELSE view.current,
               carried |-> IF event THEN s.carried ELSE view.carried,
               token |-> NextToken(view.token, IF event THEN s.token ELSE NoToken,
                                   mismatch),
               kept |-> IF event THEN NextToken(view.kept, s.token, mismatch)
                                 ELSE view.kept]
    /\ event => disk' \in Persisted(view.kept, view'.kept, s.changes # NoChanges)
    /\ ~event => disk' = disk
    /\ truth' = IF IsActive(agg) THEN Head(responses).result
                ELSE [k \in Keys |-> IF agg.updates[k] = 0 THEN 0 ELSE truth[k]]
    /\ unfounded' = IF mismatch THEN keys'
                    ELSE unfounded \ {k \in Keys : event /\ s.changes[k] # "None"}
    /\ agg' = IF mismatch
              THEN RecordPendingTargetRequest(RecordPendingTargetRequest(After(x)))
              ELSE After(x)
    /\ requests' = IF mismatch THEN requests \o <<Unwatch, Watch(NoToken)>>
                               ELSE requests
    /\ responses' = Tail(responses)
    /\ UNCHANGED <<open, backend, result, changes, errors, early>>

(* That is what it does.                                                   *)
LEMMA SnapshotIs ==
    ASSUME BooksInv, ReadSnapshot, NEW x, x = Head(responses).token,
           NEW s, s = Fed(x), NEW event, event = Raised(x),
           NEW mismatch, mismatch = (agg.reset /\ Listening)
    PROVE  Snapped(x, s, event, mismatch)
  <1>1. PICK active, known :
            /\ active = IsActive(agg)
            /\ known = (active /\ agg.state # NoState)
    OBVIOUS
  <1>2. s = IF known THEN UpdateResumeToken(agg.state, x) ELSE agg.state
    BY <1>1 DEF Fed
  <1>3. event = (known /\ s.pending)
    BY <1>1 DEF Raised
  <1> DEFINE Is(c) == {k \in Keys : event /\ s.changes[k] = c}
             after == [NewAggregator EXCEPT
                        !.ok = agg.ok /\ Is("Modified") \subseteq keys,
                        !.state = IF event THEN ClearPendingChanges(s) ELSE s]
  <1>4. /\ cached' = [k \in Keys |-> IF agg.updates[k] = -1 THEN cached[k]
                                                            ELSE agg.updates[k]]
        /\ keys' = (keys \cup Is("Added")) \ Is("Removed")
        /\ view' =
            IF ~Listening THEN NoView
            ELSE [current |-> IF event THEN s.current ELSE view.current,
                  carried |-> IF event THEN s.carried ELSE view.carried,
                  token |-> NextToken(view.token, IF event THEN s.token ELSE NoToken,
                                      mismatch),
                  kept |-> IF event THEN NextToken(view.kept, s.token, mismatch)
                                    ELSE view.kept]
        /\ IF event
           THEN disk' \in Persisted(view.kept, view'.kept, s.changes # NoChanges)
           ELSE UNCHANGED disk
        /\ truth' = IF active THEN Head(responses).result
                    ELSE [k \in Keys |-> IF agg.updates[k] = 0 THEN 0 ELSE truth[k]]
        /\ unfounded' = IF mismatch THEN keys'
                        ELSE unfounded \ {k \in Keys : event /\ s.changes[k] # "None"}
        /\ agg' = IF mismatch
                  THEN RecordPendingTargetRequest(RecordPendingTargetRequest(after))
                  ELSE after
        /\ requests' = IF mismatch THEN requests \o <<Unwatch, Watch(NoToken)>>
                                   ELSE requests
        /\ responses' = Tail(responses)
        /\ UNCHANGED <<open, backend, result, changes, errors, early>>
    BY <1>1, <1>2, <1>3 DEF ReadSnapshot, failures
  <1>5. After(x) = after
    BY DEF After
  <1>6. cached' = [k \in Keys |-> Now(k)]
    BY <1>4 DEF Now
  <1>7. /\ event => disk' \in Persisted(view.kept, view'.kept, s.changes # NoChanges)
        /\ ~event => disk' = disk
    BY <1>4
  <1>8. truth' = IF IsActive(agg) THEN Head(responses).result
                 ELSE [k \in Keys |-> IF agg.updates[k] = 0 THEN 0 ELSE truth[k]]
    BY <1>1, <1>4
  <1> HIDE DEF after
  <1> QED  BY <1>4, <1>5, <1>6, <1>7, <1>8 DEF Snapped

(* The target's state with the token.                                      *)
LEMMA FedIs ==
    ASSUME BooksInv, ChangesFit(agg, keys), NEW x \in Token, NEW s, s = Fed(x),
           NEW event, event = Raised(x)
    PROVE  /\ s \in TargetState \cup {NoState} /\ (s # NoState => SoundState(s, keys))
           /\ s = NoState <=> agg.state = NoState
           /\ event => s # NoState
           /\ (IF s = NoState THEN 0 ELSE s.outstanding) = Outstanding(agg)
           /\ s # NoState => /\ s.changes = agg.state.changes
                             /\ s.current = agg.state.current
                             /\ s.carried = agg.state.carried
           /\ IsActive(agg) /\ s # NoState /\ x # NoToken => event /\ s.token = x
  <1>1. /\ agg.state \in TargetState \cup {NoState}
        /\ agg.state # NoState => SoundState(agg.state, keys)
    BY StateIs DEF BooksInv, Sound, ChangesSound
  <1>2. CASE IsActive(agg) /\ agg.state # NoState
    <2>1. agg.state \in TargetState /\ SoundState(agg.state, keys)
      BY <1>1, <1>2
    <2>2. s = UpdateResumeToken(agg.state, x) /\ (s.pending => event)
      BY <1>2 DEF Fed, Raised
    <2>3. s \in TargetState /\ SoundState(s, keys) /\ s.outstanding = agg.state.outstanding
      BY <2>1, <2>2, StateOps
    <2>4. /\ s.changes = agg.state.changes /\ s.current = agg.state.current
          /\ s.carried = agg.state.carried
          /\ x # NoToken => s.pending /\ s.token = x
      BY <2>1, <2>2, StateFields
    <2>5. s # NoState
      BY <2>3, NoStateAssumption
    <2> QED  BY <1>2, <2>2, <2>3, <2>4, <2>5 DEF Outstanding
  <1>3. CASE ~(IsActive(agg) /\ agg.state # NoState)
    <2>1. s = agg.state /\ event = FALSE
      BY <1>3 DEF Fed, Raised
    <2> QED  BY <1>1, <1>3, <2>1 DEF Outstanding
  <1> QED  BY <1>2, <1>3

(* The aggregator after the snapshot.                                      *)
LEMMA AfterIs ==
    ASSUME BooksInv, ChangesFit(agg, keys), NEW x \in Token, NEW s, s = Fed(x),
           NEW event, event = Raised(x),
           NEW known, ~event => known = keys, NEW n, n = After(x)
    PROVE  /\ Sound(n, known) /\ ChangesFit(n, known)
           /\ ~n.reset /\ \A k \in Keys : n.updates[k] = -1
           /\ n.state = IF event THEN ClearPendingChanges(s) ELSE s
           /\ s # NoState => /\ n.state # NoState
                             /\ n.state.current = agg.state.current
                             /\ n.state.carried = agg.state.carried
           /\ event => n.state.changes = NoChanges
  <1>1. /\ s \in TargetState \cup {NoState} /\ (s # NoState => SoundState(s, keys))
        /\ s = NoState <=> agg.state = NoState
        /\ event => s # NoState
        /\ s # NoState => /\ s.changes = agg.state.changes
                          /\ s.current = agg.state.current
                          /\ s.carried = agg.state.carried
    BY FedIs
  <1>2. PICK t \in TargetState \cup {NoState} :
            /\ t = IF event THEN ClearPendingChanges(s) ELSE s
            /\ t # NoState => SoundState(t, known)
            /\ s # NoState => /\ t # NoState /\ t.current = s.current
                              /\ t.carried = s.carried
            /\ event => t.changes = NoChanges
            /\ ~event => t = s
    <2>1. CASE event
      <3>1. s \in TargetState /\ SoundState(s, keys)
        BY <1>1, <2>1
      <3>2. PICK z : z = ClearPendingChanges(s)
        OBVIOUS
      <3>3. z \in TargetState /\ SoundState(z, known)
        BY <3>1, <3>2, StateOps
      <3>4. z.changes = NoChanges /\ z.current = s.current /\ z.carried = s.carried
        BY <3>1, <3>2, StateFields
      <3>5. z # NoState
        BY <3>3, NoStateAssumption
      <3> QED  BY <2>1, <3>2, <3>3, <3>4, <3>5
    <2>2. CASE ~event
      BY <1>1, <2>2
    <2> QED  BY <2>1, <2>2
  <1>3. PICK ok \in BOOLEAN :
            ok = (agg.ok /\ {k \in Keys : event /\ s.changes[k] = "Modified"} \subseteq keys)
    OBVIOUS
  <1>4. ok
    <2>1. agg.ok
      BY DEF BooksInv, Sound
    <2>2. {k \in Keys : event /\ s.changes[k] = "Modified"} \subseteq keys
      BY <1>1 DEF SoundState
    <2> QED  BY <1>3, <2>1, <2>2
  <1>5. n = [NewAggregator EXCEPT !.ok = TRUE, !.state = t]
    BY <1>2, <1>3, <1>4 DEF After
  <1>6. /\ n \in Aggregator /\ n.state = t /\ n.ok
        /\ n.updates = NewAggregator.updates /\ n.reset = NewAggregator.reset
    BY <1>5, NewAggregatorType DEF NewAggregator, Aggregator, Sound
  <1>7. ~n.reset /\ \A k \in Keys : n.updates[k] = -1
    BY <1>6 DEF NewAggregator
  <1>8. Sound(n, known)
    BY <1>2, <1>6 DEF Sound, ChangesSound
  <1>9. ChangesFit(n, known)
    <2>1. CASE event
      BY <1>2, <1>6, <2>1, NoChangesType DEF ChangesFit
    <2>2. CASE ~event
      BY <1>1, <1>2, <1>6, <2>2 DEF ChangesFit
    <2> QED  BY <2>1, <2>2
  <1> QED  BY <1>1, <1>2, <1>6, <1>7, <1>8, <1>9

(* What holds after every snapshot.                                        *)
LEMMA SnapshotStores ==
    ASSUME BooksInv, ChangesFit(agg, keys), Bounded, ReadSnapshot
    PROVE  /\ Takes /\ Stores /\ ~agg'.reset
           /\ ChangesFit(agg, keys)' /\ Bounded'
           /\ UNCHANGED <<open, backend, result, changes, early>>
           /\ Head(responses) = responses[1] /\ responses[1] \in Response
           /\ responses[1].type = "Snapshot" /\ open
  <1>1. /\ responses # <<>> /\ responses[1] = Head(responses)
        /\ responses[1] \in Response /\ responses[1].type = "Snapshot"
    BY FirstIs DEF ReadSnapshot
  <1>2. open
    BY <1>1, ReadsFacts
  <1>3. PICK x \in Token : x = Head(responses).token
    BY <1>1, ResponseHas
  <1>4. PICK s, event, mismatch, n : /\ s = Fed(x) /\ event = Raised(x)
                                     /\ mismatch = (agg.reset /\ Listening)
                                     /\ n = After(x)
    OBVIOUS
  <1>5. /\ cached' = [k \in Keys |-> Now(k)]
        /\ keys' = (keys \cup {k \in Keys : event /\ s.changes[k] = "Added"})
                        \ {k \in Keys : event /\ s.changes[k] = "Removed"}
        /\ agg' = IF mismatch
                  THEN RecordPendingTargetRequest(RecordPendingTargetRequest(n))
                  ELSE n
        /\ responses' = Tail(responses)
        /\ UNCHANGED <<open, backend, result, changes, early>>
    BY <1>3, <1>4, SnapshotIs DEF Snapped
  <1>6. Takes /\ Bounded'
    BY <1>1, <1>5 DEF Takes, BooksInv, TypeOK, Bounded
  <1>7. /\ Sound(n, keys') /\ ChangesFit(n, keys') /\ ~n.reset
        /\ \A k \in Keys : n.updates[k] = -1
    <2>1. ~event => keys' = keys
      BY <1>5
    <2> QED  BY <1>4, <2>1, AfterIs
  <1>8. ~agg'.reset /\ (\A k \in Keys : agg'.updates[k] = -1) /\ ChangesFit(agg', keys')
    <2>1. CASE ~mismatch
      BY <1>5, <1>7, <2>1
    <2>2. CASE mismatch
      <3>1. PICK z : z = RecordPendingTargetRequest(n)
        OBVIOUS
      <3>2. Beside(n, z) /\ ChangesFit(z, keys') /\ Sound(z, keys')
        BY <1>7, <3>1, RecordFits, RecordKeeps
      <3>3. agg' = RecordPendingTargetRequest(z)
        BY <1>5, <2>2, <3>1
      <3>4. Beside(z, agg') /\ ChangesFit(agg', keys')
        BY <3>2, <3>3, RecordFits
      <3> QED  BY <1>7, <3>2, <3>4 DEF Beside
    <2> QED  BY <2>1, <2>2
  <1>9. Stores
    BY <1>5, <1>8 DEF Stores
  <1>10. ChangesFit(agg, keys)'
    BY <1>8 DEF ChangesFit
  <1> QED  BY <1>1, <1>2, <1>5, <1>6, <1>8, <1>9, <1>10

(* An empty token goes with keys that the backend does not know of.        *)
LEMMA EmptyFits ==
    ASSUME changes' \in Nat, \A k \in Keys : k \in keys' => k \in unfounded'
    PROVE  TokenFits(NoToken)'
  <1>1. \A k \in Keys : Base(NoToken)[k] = 0
    BY BaseIs, DocumentsAre
  <1> QED  BY <1>1 DEF TokenFits, Held

(* A token that is kept while the keys stay.                               *)
LEMMA TokenKept ==
    ASSUME Takes, Stores, NEW x, TokenFits(x), keys' = keys,
           \A k \in Keys : k \in keys /\ k \in unfounded => k \in unfounded'
    PROVE  TokenFits(x)'
  <1>1. \A k \in Keys : /\ k \in keys => k \in keys'
                        /\ k \in keys' => Base(x)[k] # 0 \/ k \in unfounded'
    BY DEF TokenFits
  <1>2. \A k \in Keys : cached'[k] = Now(k) /\ agg'.updates[k] = -1
    BY DEF Stores
  <1> QED  BY <1>1, <1>2, TokenStores

(* The target in mismatch is watched again, without a token.               *)
LEMMA AsksAgain ==
    ASSUME BooksInv, BooksInv', ~early', Stores, ~agg'.reset,
           requests' = requests \o <<Unwatch, Watch(NoToken)>>,
           view'.token = NoToken, NEW s, NEW q
    PROVE  Position(s, q)'
  <1>1. /\ Len(requests') \in Nat /\ Len(requests') >= 1
        /\ requests' # <<>> /\ requests'[Len(requests')] = Watch(NoToken)
    <2>1. PICK u, w \in Request : u = Unwatch /\ w = Watch(NoToken)
      <3>1. NoToken \in Token
        BY DEF Token
      <3> QED  BY <3>1, RequestHas
    <2>2. PICK z : z = <<u, w>>
      OBVIOUS
    <2>3. z \in Seq(Request) /\ Len(z) = 2 /\ z[2] = w
      BY <2>2
    <2>4. requests \in Seq(Request) /\ Len(requests) \in Nat /\ requests' = requests \o z
      BY <2>1, <2>2 DEF BooksInv, TypeOK
    <2>5. /\ Len(requests') = Len(requests) + 2
          /\ \A i \in 1..Len(requests') :
                requests'[i] = IF i <= Len(requests) THEN requests[i]
                                                     ELSE z[i - Len(requests)]
      BY <2>3, <2>4, ConcatProperties
    <2>6. Len(requests') \in 1..Len(requests') /\ Len(requests') - Len(requests) = 2
          /\ ~(Len(requests') <= Len(requests))
      BY <2>4, <2>5
    <2>7. requests'[Len(requests')] = w
      BY <2>3, <2>5, <2>6
    <2> QED  BY <2>1, <2>4, <2>5, <2>7
  <1>2. Outstanding(agg') >= 1
    <2>1. Len(responses') \in Nat
      BY DEF BooksInv, TypeOK
    <2>2. Cardinality(Answers(responses')) \in Nat
      BY <2>1, AnswersFinite
    <2>3. Outstanding(agg') = Len(requests') + Cardinality(Answers(responses'))
      BY DEF BooksInv, Outstanding, Answers
    <2> QED  BY <1>1, <2>2, <2>3
  <1>3. agg'.state # NoState /\ ~IsActive(agg)'
    BY <1>2 DEF Outstanding, IsActive
  <1>4. requests'[Len(requests')] = Watch(view'.token)
    BY <1>1 DEF Watch
  <1>5. Awaiting(s)'
    BY <1>1, <1>4 DEF Awaiting, Stores, Watch
  <1> QED  BY <1>3, <1>5 DEF Position

(* What is to be shown of a snapshot: s and q are what is under way then.  *)
Settles(t0, s, q) ==
    /\ \A x \in Tokens' : TokenFits(x)'
    /\ Viewed' /\ TokensFrom(t0) /\ Position(s, q)'

(* Nobody listens.                                                         *)
LEMMA SnapshotUnheard ==
    ASSUME BooksInv, TruthInv, ~early, ReadSnapshot, ~Listening, NEW t0, NEW s, NEW q
    PROVE  Settles(t0, s, q)
  <1>1. Takes /\ Stores
    BY SnapshotStores DEF TruthInv
  <1>2. PICK x : x = Head(responses).token
    OBVIOUS
  <1>3. ~Raised(x)
    BY DEF Raised, IsActive
  <1>4. PICK f, event, mismatch : /\ f = Fed(x) /\ event = FALSE /\ event = Raised(x)
                                  /\ mismatch = (agg.reset /\ Listening)
    BY <1>3 DEF Raised
  <1>5. view' = NoView /\ disk' = disk /\ keys' = keys /\ unfounded' = unfounded
    <2>1. /\ keys' = (keys \cup {k \in Keys : event /\ f.changes[k] = "Added"})
                        \ {k \in Keys : event /\ f.changes[k] = "Removed"}
          /\ view' = NoView
          /\ ~event => disk' = disk
          /\ unfounded' = IF mismatch THEN keys'
                          ELSE unfounded \ {k \in Keys : event /\ f.changes[k] # "None"}
      BY <1>2, <1>4, SnapshotIs DEF Snapped
    <2> QED  BY <1>4, <2>1
  <1>6. Tokens' = Tokens
    BY <1>5 DEF Tokens, Listening
  <1>7. ASSUME NEW y \in Tokens' PROVE TokenFits(y)'
    <2>1. TokenFits(y)
      BY <1>6 DEF TruthInv
    <2> QED  BY <1>1, <1>5, <2>1, TokenKept
  <1> QED  BY <1>5, <1>6, <1>7 DEF Settles, Viewed, TokensFrom, Position, Listening

(* The view waits for an answer.                                           *)
LEMMA SnapshotWaits ==
    ASSUME BooksInv, BooksInv', TruthInv, ~early, ReadSnapshot, Listening, ~IsActive(agg),
           NEW t \in Seq(Documents), NEW p, Traced(t, p),
           NEW s, s = Tail(t), NEW q
    PROVE  Settles(t[1], s, q)
  <1>1. /\ Takes /\ Stores /\ ~agg'.reset /\ open
        /\ UNCHANGED <<open, backend, result, changes, early>>
        /\ responses[1].type = "Snapshot"
    BY SnapshotStores DEF TruthInv
  <1>2. Awaiting(t) /\ agg.state # NoState /\ Len(t) = Len(responses) + 1
    BY <1>1 DEF Traced, Position, Chain
  <1>3. (\A x \in Tokens : TokenFits(x)) /\ Viewed
    BY DEF TruthInv
  <1>4. PICK x : x = Head(responses).token
    OBVIOUS
  <1>5. PICK f, event, mismatch : /\ f = Fed(x) /\ event = FALSE /\ event = Raised(x)
                                  /\ mismatch = (agg.reset /\ Listening)
    BY DEF Raised
  <1>6. /\ keys' = keys /\ disk' = disk
        /\ view' = [current |-> view.current, carried |-> view.carried,
                    token |-> NextToken(view.token, NoToken, mismatch),
                    kept |-> view.kept]
        /\ truth' = [k \in Keys |-> IF agg.updates[k] = 0 THEN 0 ELSE truth[k]]
        /\ unfounded' = IF mismatch THEN keys' ELSE unfounded
        /\ requests' = IF mismatch THEN requests \o <<Unwatch, Watch(NoToken)>>
                                   ELSE requests
    <2>1. /\ keys' = (keys \cup {k \in Keys : event /\ f.changes[k] = "Added"})
                        \ {k \in Keys : event /\ f.changes[k] = "Removed"}
          /\ view' =
                IF ~Listening THEN NoView
                ELSE [current |-> IF event THEN f.current ELSE view.current,
                      carried |-> IF event THEN f.carried ELSE view.carried,
                      token |-> NextToken(view.token, IF event THEN f.token ELSE NoToken,
                                          mismatch),
                      kept |-> IF event THEN NextToken(view.kept, f.token, mismatch)
                                        ELSE view.kept]
          /\ ~event => disk' = disk
          /\ truth' = IF IsActive(agg) THEN Head(responses).result
                      ELSE [k \in Keys |-> IF agg.updates[k] = 0 THEN 0 ELSE truth[k]]
          /\ unfounded' = IF mismatch THEN keys'
                          ELSE unfounded \ {k \in Keys : event /\ f.changes[k] # "None"}
          /\ requests' = IF mismatch THEN requests \o <<Unwatch, Watch(NoToken)>>
                                     ELSE requests
      BY <1>4, <1>5, SnapshotIs DEF Snapped
    <2> QED  BY <1>5, <2>1
  <1>7. /\ view'.current = view.current /\ view'.carried = view.carried
        /\ view'.token = (IF mismatch THEN NoToken ELSE view.token)
        /\ view'.kept = view.kept
    BY <1>6 DEF NextToken
  <1>8. CASE ~mismatch
    <2>1. /\ unfounded' = unfounded /\ view'.token = view.token /\ requests' = requests
      BY <1>6, <1>7, <1>8
    <2>2. Tokens' \subseteq Tokens
      BY <1>6, <1>7, <2>1 DEF Tokens
    <2>3. ASSUME NEW y \in Tokens' PROVE TokenFits(y)'
      <3>1. TokenFits(y)
        BY <1>3, <2>2
      <3> QED  BY <1>1, <1>6, <2>1, <3>1, TokenKept
    <2>4. Viewed'
      <3> SUFFICES ASSUME view'.current, ~view'.carried, unfounded' = {}, NEW k \in Keys,
                          truth'[k] # 0 \/ k \in keys'
                   PROVE  cached'[k] = truth'[k]
        BY DEF Viewed
      <3>1. truth[k] # 0 \/ k \in keys => cached[k] = truth[k]
        BY <1>3, <1>7, <2>1 DEF Viewed
      <3>2. agg.updates[k] \in {-1, 0}
        BY <1>2, <1>7 DEF Awaiting
      <3>3. truth'[k] = IF agg.updates[k] = 0 THEN 0 ELSE truth[k]
        BY <1>6
      <3> QED  BY <1>1, <1>6, <3>1, <3>2, <3>3 DEF Stores, Now
    <2>5. Position(s, q)'
      <3>1. \A k \in Keys : cached'[k] = Now(k) /\ agg'.updates[k] = -1
        BY <1>1 DEF Stores
      <3>2. ASSUME NEW k \in Keys, NEW j \in Nat, NEW i \in Nat, NEW v, j - 1 <= i,
                   Held(k, v, j)
            PROVE  Held(k, v, i)'
        BY <1>1, <3>1, <3>2, HeldStores
      <3>3. ~(requests = <<>> /\ Coming(t, 1))
        BY <1>1 DEF Coming
      <3>4. Awaiting(s)' /\ Outstanding(agg') >= 1
        BY <1>1, <1>2, <1>7, <2>1, <3>1, <3>2, <3>3, AwaitingTakes
      <3>5. ~IsActive(agg)' /\ agg'.state # NoState
        BY <3>4 DEF IsActive, Outstanding
      <3> QED  BY <3>4, <3>5 DEF Position
    <2>6. TokensFrom(t[1])
      BY <2>2 DEF TokensFrom
    <2> QED  BY <2>3, <2>4, <2>5, <2>6 DEF Settles
  <1>9. CASE mismatch
    <2>1. ~view'.current
      BY <1>2, <1>5, <1>7, <1>9 DEF Awaiting
    <2>2. unfounded' = keys' /\ view'.token = NoToken
      BY <1>6, <1>7, <1>9
    <2>3. \A y \in Tokens' : y \in Tokens \/ y = NoToken
      BY <1>6, <1>7, <2>2 DEF Tokens
    <2>4. ASSUME NEW y \in Tokens' PROVE TokenFits(y)'
      <3>1. CASE y = NoToken
        <4>1. changes' \in Nat
          BY DEF BooksInv, TypeOK
        <4> QED  BY <2>2, <3>1, <4>1, EmptyFits
      <3>2. CASE y \in Tokens
        <4>1. \A k \in Keys : k \in keys /\ k \in unfounded => k \in unfounded'
          BY <1>6, <2>2
        <4> QED  BY <1>1, <1>3, <1>6, <3>2, <4>1, TokenKept
      <3> QED  BY <2>3, <3>1, <3>2
    <2>5. Viewed'
      BY <2>1 DEF Viewed
    <2>6. Position(s, q)'
      <3>1. requests' = requests \o <<Unwatch, Watch(NoToken)>>
        BY <1>6, <1>9
      <3> QED  BY <1>1, <2>2, <3>1, AsksAgain
    <2>7. TokensFrom(t[1])
      BY <2>3, BaseIs DEF TokensFrom
    <2> QED  BY <2>4, <2>5, <2>6, <2>7 DEF Settles
  <1> QED  BY <1>8, <1>9

(* The snapshot of an active target.                                       *)
LEMMA SnapshotActive ==
    ASSUME BooksInv, BooksInv', TruthInv, ~early, ReadSnapshot, Listening, IsActive(agg),
           NEW t \in Seq(Documents), NEW p \in Seq(Phase), Traced(t, p),
           NEW s, s = Tail(t), NEW q, q = Tail(p)
    PROVE  Settles(t[1], s, q)
  <1>1. /\ Takes /\ Stores /\ ~agg'.reset /\ open
        /\ UNCHANGED <<open, backend, result, changes, early>>
        /\ responses[1].type = "Snapshot" /\ responses[1] \in Response
        /\ Head(responses) = responses[1]
    BY SnapshotStores DEF TruthInv
  <1>2. agg.state # NoState /\ Active(t[1], p[1]) /\ Chain(t, p)
    BY <1>1 DEF Traced, Position
  <1>3. (\A x \in Tokens : TokenFits(x)) /\ ChangesFit(agg, keys)
    BY DEF TruthInv
  <1>4. PICK t0 \in Documents, p0 \in Phase : t0 = t[1] /\ p0 = p[1]
    <2>1. Len(t) = Len(responses) + 1 /\ Len(p) = Len(responses) + 1
      BY <1>2 DEF Chain
    <2> QED  BY <1>1, <2>1, TailIs
  <1>5. /\ t[2] = t0 /\ p[2] = p0 /\ responses[1].token = t0
        /\ p0 = "Current" => responses[1].result = t0
        /\ \A k \in Keys : t0[k] <= changes + 1
    <2>1. 1 \in 1..Len(responses) /\ 1 \in 1..Len(responses) + 1
      BY <1>1, TakesIs
    <2>2. Link(responses[1], t[1], p[1], t[1 + 1], p[1 + 1])
      BY <1>2, <2>1 DEF Chain
    <2>3. 1 + 1 = 2
      OBVIOUS
    <2>4. Link(responses[1], t0, p0, t[2], p[2])
      BY <1>4, <2>2, <2>3
    <2>5. \A k \in Keys : t0[k] <= changes + 1
      BY <1>2, <1>4, <2>1 DEF Chain
    <2> QED  BY <1>1, <2>4, <2>5 DEF Link
  <1>6. t0 \in Token /\ t0 # NoToken /\ Base(t0) = t0
    BY BaseIs DEF Token
  <1>7. PICK f, event, mismatch, n, c :
            /\ f = Fed(t0) /\ event = Raised(t0) /\ n = After(t0)
            /\ mismatch = (agg.reset /\ Listening) /\ c = agg.state.changes
    OBVIOUS
  <1>8. /\ event /\ f # NoState /\ f.token = t0 /\ f.changes = c
        /\ f.current = agg.state.current /\ f.carried = agg.state.carried
    <2>1. /\ f = NoState <=> agg.state = NoState
          /\ f # NoState => /\ f.changes = agg.state.changes
                            /\ f.current = agg.state.current
                            /\ f.carried = agg.state.carried
          /\ IsActive(agg) /\ f # NoState /\ t0 # NoToken => event /\ f.token = t0
      BY <1>3, <1>6, <1>7, FedIs
    <2> QED  BY <1>2, <1>6, <1>7, <2>1
  <1>9. /\ keys' = (keys \cup {k \in Keys : c[k] = "Added"})
                        \ {k \in Keys : c[k] = "Removed"}
        /\ view' = [current |-> agg.state.current, carried |-> agg.state.carried,
                    token |-> NextToken(view.token, t0, mismatch),
                    kept |-> NextToken(view.kept, t0, mismatch)]
        /\ disk' \in Persisted(view.kept, view'.kept, c # NoChanges)
        /\ truth' = responses[1].result
        /\ unfounded' = IF mismatch THEN keys'
                        ELSE unfounded \ {k \in Keys : c[k] # "None"}
        /\ ~mismatch => agg' = n
        /\ mismatch => requests' = requests \o <<Unwatch, Watch(NoToken)>>
    <2>1. t0 = Head(responses).token
      BY <1>1, <1>5
    <2>2. /\ keys' = (keys \cup {k \in Keys : event /\ f.changes[k] = "Added"})
                        \ {k \in Keys : event /\ f.changes[k] = "Removed"}
          /\ view' =
                IF ~Listening THEN NoView
                ELSE [current |-> IF event THEN f.current ELSE view.current,
                      carried |-> IF event THEN f.carried ELSE view.carried,
                      token |-> NextToken(view.token, IF event THEN f.token ELSE NoToken,
                                          mismatch),
                      kept |-> IF event THEN NextToken(view.kept, f.token, mismatch)
                                        ELSE view.kept]
          /\ event => disk' \in Persisted(view.kept, view'.kept, f.changes # NoChanges)
          /\ truth' = IF IsActive(agg) THEN Head(responses).result
                      ELSE [k \in Keys |-> IF agg.updates[k] = 0 THEN 0 ELSE truth[k]]
          /\ unfounded' = IF mismatch THEN keys'
                          ELSE unfounded \ {k \in Keys : event /\ f.changes[k] # "None"}
          /\ agg' = IF mismatch
                    THEN RecordPendingTargetRequest(RecordPendingTargetRequest(After(t0)))
                    ELSE After(t0)
          /\ requests' = IF mismatch THEN requests \o <<Unwatch, Watch(NoToken)>>
                                     ELSE requests
      <3>1. Snapped(t0, f, event, mismatch)
        BY <1>7, <2>1, SnapshotIs
      <3> QED  BY <3>1 DEF Snapped
    <2> QED  BY <1>1, <1>7, <1>8, <2>2
  <1>10. \A k \in Keys : k \in keys' <=> Will(k)
    BY <1>7, <1>9 DEF Will
  <1>11. PICK y : y = IF mismatch THEN NoToken ELSE t0
    OBVIOUS
  <1>12. /\ view'.token = y /\ view'.kept = y
         /\ view'.current = agg.state.current /\ view'.carried = agg.state.carried
    BY <1>6, <1>9, <1>11 DEF NextToken
  <1>13. \A z \in Tokens' : z = y \/ (z = disk /\ c = NoChanges)
    <2>1. disk' = y \/ (disk' = disk /\ c = NoChanges)
      BY <1>9, <1>12 DEF Persisted
    <2> QED  BY <1>12, <2>1 DEF Tokens
  <1>14. c = NoChanges =>
            /\ keys' = keys
            /\ \A k \in Keys : k \in keys /\ k \in unfounded => k \in unfounded'
    BY <1>9, NoChangesType
  <1>15. ASSUME NEW k \in Keys, NEW v, v = t0[k]
         PROVE  /\ ~agg.reset => /\ v # 0 => k \in keys'
                                 /\ k \in keys' => v # 0 \/ (k \in unfounded /\ c[k] = "None")
                /\ v # 0 => cached'[k] = v \/ Outdated(k, v, 0)
    <2>1. Stands(k, v)
      BY <1>2, <1>4, <1>15 DEF Active
    <2>2. cached'[k] = Now(k)
      BY <1>1 DEF Stores
    <2> QED  BY <1>7, <1>10, <2>1, <2>2 DEF Stands
  <1>16. ASSUME NEW k \in Keys, NEW v, NEW i \in Nat, Outdated(k, v, 0)
         PROVE  Outdated(k, v, i)'
    BY <1>1, <1>16, OutdatedTakes
  <1>17. TokenFits(y)'
    <2>1. CASE mismatch
      <3>1. changes' \in Nat
        BY DEF BooksInv, TypeOK
      <3>2. y = NoToken /\ \A k \in Keys : k \in keys' => k \in unfounded'
        BY <1>9, <1>11, <2>1
      <3> QED  BY <3>1, <3>2, EmptyFits
    <2>2. CASE ~mismatch
      <3>1. ~agg.reset /\ y = t0 /\ unfounded' = unfounded \ {k \in Keys : c[k] # "None"}
        BY <1>7, <1>9, <1>11, <2>2
      <3>2. PICK i \in Nat : i = Len(responses')
        BY <1>1, TakesIs
      <3> SUFFICES ASSUME NEW k \in Keys, NEW v, v = Base(y)[k]
                   PROVE  /\ v <= changes' + 1
                          /\ v # 0 => k \in keys'
                          /\ k \in keys' => v # 0 \/ k \in unfounded'
                          /\ Held(k, v, Len(responses))'
        BY DEF TokenFits, Held, Outdated
      <3>3. v = t0[k]
        BY <1>6, <3>1
      <3>4. /\ v # 0 => k \in keys'
            /\ k \in keys' => v # 0 \/ (k \in unfounded /\ c[k] = "None")
            /\ v # 0 => cached'[k] = v \/ Outdated(k, v, 0)
        BY <1>15, <3>1, <3>3
      <3>5. Outdated(k, v, 0) => Outdated(k, v, i)'
        BY <1>16
      <3>6. Held(k, v, i)'
        BY <1>1, <3>4, <3>5 DEF Held, Stores
      <3>7. Held(k, v, Len(responses))'
        BY <3>2, <3>6 DEF Held, Outdated
      <3>8. v <= changes' + 1
        BY <1>1, <1>5, <3>3
      <3> QED  BY <3>1, <3>4, <3>7, <3>8
    <2> QED  BY <2>1, <2>2
  <1>18. ASSUME NEW z \in Tokens' PROVE TokenFits(z)'
    <2>1. CASE z = y
      BY <1>17, <2>1
    <2>2. CASE z = disk /\ c = NoChanges
      <3>1. TokenFits(z)
        BY <1>3, <2>2 DEF Tokens
      <3> QED  BY <1>1, <1>14, <2>2, <3>1, TokenKept
    <2> QED  BY <1>13, <2>1, <2>2
  <1>19. Viewed'
    <2> SUFFICES ASSUME view'.current, ~view'.carried, unfounded' = {}, NEW k \in Keys,
                        truth'[k] # 0 \/ k \in keys'
                 PROVE  cached'[k] = truth'[k]
      BY DEF Viewed
    <2>1. responses[1].result = t0
      <3>1. p0 = "Current"
        BY <1>2, <1>4, <1>12 DEF Active
      <3> QED  BY <1>5, <3>1
    <2>2. PICK v : v = t0[k]
      OBVIOUS
    <2>3. truth'[k] = v
      BY <1>9, <2>1, <2>2
    <2>4. v # 0
      <3>1. CASE mismatch
        BY <1>9, <2>3, <3>1
      <3>2. CASE ~mismatch
        <4>1. ~agg.reset
          BY <1>7, <3>2
        <4>2. k \in keys' => v # 0 \/ (k \in unfounded /\ c[k] = "None")
          BY <1>15, <2>2, <4>1
        <4> QED  BY <1>9, <2>3, <3>2, <4>2
      <3> QED  BY <3>1, <3>2
    <2>5. ~Outdated(k, v, 0)
      <3>1. 1 \in 1..Len(responses) /\ 1 > 0
        BY <1>1, TakesIs
      <3> QED  BY <1>1, <2>1, <2>2, <3>1 DEF Outdated
    <2>6. cached'[k] = v
      BY <1>15, <2>2, <2>4, <2>5
    <2> QED  BY <2>3, <2>6
  <1>20. TokensFrom(t[1])
    <2>1. Base(y) = Nothing \/ Base(y) = t0
      BY <1>6, <1>11, BaseIs
    <2> QED  BY <1>4, <1>13, <2>1 DEF TokensFrom, Tokens
  <1>21. Position(s, q)'
    <2>1. CASE mismatch
      <3>1. view'.token = NoToken
        BY <1>11, <1>12, <2>1
      <3> QED  BY <1>1, <1>9, <2>1, <3>1, AsksAgain
    <2>2. CASE ~mismatch
      <3>1. /\ agg' = n /\ ~agg.reset
            /\ unfounded' = unfounded \ {k \in Keys : c[k] # "None"}
        BY <1>7, <1>9, <2>2
      <3>2. /\ agg'.state # NoState /\ agg'.state.changes = NoChanges
            /\ agg'.state.current = agg.state.current
            /\ agg'.state.carried = agg.state.carried
        <4>1. ChangesFit(agg, keys) /\ t0 \in Token
          BY <1>3, <1>6
        <4>2. /\ f # NoState => /\ n.state # NoState
                                /\ n.state.current = agg.state.current
                                /\ n.state.carried = agg.state.carried
              /\ event => n.state.changes = NoChanges
          <5>1. PICK known : known = keys
            OBVIOUS
          <5> QED  BY <1>7, <4>1, <5>1, AfterIs
        <4> QED  BY <1>8, <3>1, <4>2
      <3>3. Outstanding(agg') = 0
        <4>1. Outstanding(agg) = 0
          BY ActiveFacts DEF BooksInv
        <4>2. requests' = requests
          <5>1. t0 = Head(responses).token
            BY <1>1, <1>5
          <5>2. requests' = IF mismatch THEN requests \o <<Unwatch, Watch(NoToken)>>
                                        ELSE requests
            BY <1>7, <5>1, SnapshotIs DEF Snapped
          <5> QED  BY <2>2, <5>2
        <4>3. /\ Outstanding(agg) = Len(requests) + Cardinality(Answers(responses))
              /\ Outstanding(agg') = Len(requests) + Cardinality(Answers(responses'))
          BY <1>1, <4>2 DEF BooksInv, Outstanding, Answers
        <4>4. Cardinality(Answers(responses)) = Cardinality(Answers(responses'))
          <5>1. responses # <<>> /\ responses' = Tail(responses)
            BY <1>1 DEF Takes
          <5> QED  BY <1>1, <5>1, ReadsFacts
        <4> QED  BY <4>1, <4>3, <4>4
      <3>4. ASSUME Listening' PROVE IsActive(agg)'
        BY <3>2, <3>3, <3>4 DEF IsActive, Outstanding, Listening
      <3>5. ASSUME NEW k \in Keys PROVE Stands(k, t0[k])'
        <4>1. PICK v : v = t0[k]
          OBVIOUS
        <4>2. /\ v # 0 => k \in keys'
              /\ k \in keys' => v # 0 \/ (k \in unfounded /\ c[k] = "None")
              /\ v # 0 => cached'[k] = v \/ Outdated(k, v, 0)
          BY <1>15, <3>1, <4>1
        <4>3. agg'.state.changes[k] = "None" /\ agg'.updates[k] = -1
          BY <1>1, <3>2, NoChangesType DEF Stores
        <4>4. Will(k)' <=> k \in keys'
          BY <4>3 DEF Will
        <4>5. Outdated(k, v, 0) => Outdated(k, v, 0)'
          BY <1>16
        <4>6. v # 0 => Now(k)' = v \/ Outdated(k, v, 0)'
          BY <4>2, <4>3, <4>5 DEF Now
        <4>7. Stands(k, v)'
          BY <3>1, <4>2, <4>3, <4>4, <4>6 DEF Stands
        <4> QED  BY <4>1, <4>7
      <3>6. Active(t0, p0)'
        BY <1>2, <1>4, <3>2, <3>5 DEF Active
      <3>7. s[1] = t0 /\ q[1] = p0
        <4>1. s[1] = t[2] /\ q[1] = p[2]
          <5>1. Len(t) = Len(responses) + 1 /\ Len(p) = Len(responses) + 1
            BY <1>2 DEF Chain
          <5> QED  BY <1>1, <5>1, TailIs, ZenonT(30)
        <4> QED  BY <1>5, <4>1
      <3>8. Active(s[1], q[1])'
        BY <3>6, <3>7
      <3> QED  BY <3>2, <3>4, <3>8 DEF Position
    <2> QED  BY <2>1, <2>2
  <1> QED  BY <1>4, <1>18, <1>19, <1>20, <1>21 DEF Settles

(* A global snapshot.                                                      *)
LEMMA SnapshotTruth == BooksInv /\ BooksInv' /\ TruthInv /\ ReadSnapshot => TruthInv'
  <1> SUFFICES ASSUME BooksInv, BooksInv', TruthInv, ReadSnapshot PROVE TruthInv'
    OBVIOUS
  <1>1. /\ Takes /\ ChangesFit(agg, keys)' /\ Bounded'
        /\ UNCHANGED <<open, backend, result, changes, early>>
    BY SnapshotStores DEF TruthInv
  <1>2. ASSUME ~early'
        PROVE  /\ \A x \in Tokens' : TokenFits(x)'
               /\ Viewed'
               /\ \E t \in Seq(Documents), p \in Seq(Phase) : Traced(t, p)'
    <2>1. PICK t \in Seq(Documents), p \in Seq(Phase) : Traced(t, p)
      BY <1>1, <1>2 DEF TruthInv
    <2>2. Chain(t, p) /\ Settled(t)
      BY <2>1 DEF Traced
    <2>3. PICK s \in Seq(Documents), q \in Seq(Phase) :
            s = Tail(t) /\ q = Tail(p)
      <3>1. Len(t) = Len(responses) + 1 /\ Len(p) = Len(responses) + 1
        BY <2>2 DEF Chain
      <3> QED  BY <1>1, <3>1, TailIs
    <2>4. ~early
      BY <1>1, <1>2
    <2>5. Settles(t[1], s, q)
      <3>1. CASE ~Listening
        BY <2>4, <3>1, SnapshotUnheard
      <3>2. CASE Listening /\ ~IsActive(agg)
        BY <2>1, <2>3, <2>4, <3>2, SnapshotWaits
      <3>3. CASE Listening /\ IsActive(agg)
        BY <2>1, <2>3, <2>4, <3>3, SnapshotActive
      <3> QED  BY <3>1, <3>2, <3>3
    <2>6. Chain(s, q)'
      BY <1>1, <2>2, <2>3, ChainTakes
    <2>7. Settled(s)'
      <3>1. TokensFrom(t[1])
        BY <2>5 DEF Settles
      <3>2. Len(t) = Len(responses) + 1
        BY <2>2 DEF Chain
      <3> QED  BY <1>1, <2>2, <2>3, <3>1, <3>2, SettledTakes
    <2>8. Traced(s, q)'
      BY <2>5, <2>6, <2>7 DEF Traced, Settles
    <2> QED  BY <2>3, <2>5, <2>8 DEF Settles
  <1> QED  BY <1>1, <1>2 DEF TruthInv

-----------------------------------------------------------------------------
(* Steps that leave the responses under way alone.                         *)

(* What the client has stored stays, updates may be dropped, and what is      *)
(* outdated stays so.                                                      *)
Rests ==
    /\ UNCHANGED <<responses, backend, cached, keys, unfounded, early>>
    /\ changes \in Nat /\ changes' \in Nat /\ changes <= changes'
    /\ \A k \in Keys : agg'.updates[k] \in {agg.updates[k], -1}
    /\ \A k \in Keys, v \in Nat, j \in Nat :
            v # 0 /\ Outdated(k, v, j) => Outdated(k, v, j)'

(* What is held stays so.                                                  *)
LEMMA HeldRests ==
    ASSUME Rests, NEW k \in Keys, NEW v \in Nat, NEW j \in Nat, Held(k, v, j)
    PROVE  Held(k, v, j)'
  <1>1. v # 0 /\ Outdated(k, v, j) => Outdated(k, v, j)'
    BY DEF Rests
  <1>2. cached' = cached /\ agg'.updates[k] \in {agg.updates[k], -1}
    BY DEF Rests
  <1> QED  BY <1>1, <1>2 DEF Held

(* So does what a response confirms or finds outdated.                     *)
LEMMA SpentRests ==
    ASSUME Rests, NEW j \in Nat, responses[j].key \in Keys, NEW v \in Nat, Spent(j, v)
    PROVE  Spent(j, v)'
  <1>1. PICK k \in Keys : k = responses[j].key
    OBVIOUS
  <1>2. v # 0 /\ Outdated(k, v, j) => Outdated(k, v, j)'
    BY DEF Rests
  <1>3. responses' = responses
    BY DEF Rests
  <1>4. v \in {0, Value(responses[j])} \/ Outdated(k, v, j)'
    BY <1>1, <1>2 DEF Spent
  <1> QED  BY <1>1, <1>3, <1>4 DEF Spent, Outdated, Value

(* A token still goes with the keys.                                       *)
LEMMA TokenRests ==
    ASSUME Rests, NEW x \in Token, TokenFits(x), Len(responses) \in Nat
    PROVE  TokenFits(x)'
  <1>1. /\ responses' = responses /\ keys' = keys /\ unfounded' = unfounded
        /\ changes \in Nat /\ changes' \in Nat /\ changes <= changes'
    BY DEF Rests
  <1>2. PICK n \in Nat : n = Len(responses)
    OBVIOUS
  <1> SUFFICES ASSUME NEW k \in Keys, NEW v, v = Base(x)[k]
               PROVE  /\ v <= changes' + 1
                      /\ v # 0 => k \in keys'
                      /\ k \in keys' => v # 0 \/ k \in unfounded'
                      /\ Held(k, v, Len(responses))'
    BY DEF TokenFits, Held, Outdated
  <1>3. /\ v <= changes + 1 /\ (v # 0 => k \in keys)
        /\ k \in keys => v # 0 \/ k \in unfounded
        /\ Held(k, v, n)
    BY <1>2 DEF TokenFits
  <1>4. v \in Nat
    BY BaseIs, DocumentsAre
  <1>5. Held(k, v, n)'
    BY <1>3, <1>4, HeldRests
  <1>6. Held(k, v, Len(responses))'
    BY <1>1, <1>2, <1>5 DEF Held, Outdated
  <1> QED  BY <1>1, <1>3, <1>4, <1>6

(* What was told still explains the responses.                             *)
LEMMA ChainRests ==
    ASSUME Rests, Len(responses) \in Nat, NEW t \in Seq(Documents), NEW p, Chain(t, p)
    PROVE  Chain(t, p)'
  <1>1. /\ responses' = responses /\ backend' = backend
        /\ changes \in Nat /\ changes' \in Nat /\ changes <= changes'
    BY DEF Rests
  <1>2. ASSUME NEW i \in 1..Len(responses) + 1, NEW k \in Keys
        PROVE  t[i][k] <= changes' + 1
    <2>1. t[i][k] <= changes + 1 /\ i \in 1..Len(t)
      BY DEF Chain
    <2>2. t[i][k] \in Nat
      BY <2>1, DocumentsAre
    <2> QED  BY <1>1, <2>1, <2>2
  <1>3. /\ Len(t) = Len(responses) + 1 /\ Len(p) = Len(responses) + 1
        /\ t[Len(responses) + 1] = backend.told /\ p[Len(responses) + 1] = backend.phase
        /\ \A i \in 1..Len(responses) : Link(responses[i], t[i], p[i], t[i + 1], p[i + 1])
    BY DEF Chain
  <1> QED  BY <1>1, <1>2, <1>3 DEF Chain

(* And what they tell is settled.                                          *)
LEMMA SettledRests ==
    ASSUME BooksInv, Rests, Tokens' \subseteq Tokens,
           NEW t \in Seq(Documents), Len(t) = Len(responses) + 1, Settled(t)
    PROVE  Settled(t)'
  <1>1. responses' = responses
    BY DEF Rests
  <1>2. responses \in Seq(Response) /\ Len(responses) \in Nat
    BY DEF BooksInv, TypeOK
  <1> SUFFICES ASSUME NEW j \in 1..Len(responses), Tells(responses[j]),
                      NEW k, k = responses[j].key
               PROVE  /\ \A i \in 1..j + 1 : Spent(j, t[i][k])'
                      /\ \A x \in Tokens' : Spent(j, Base(x)[k])'
    BY <1>1 DEF Settled, Tells
  <1>3. k \in Keys /\ j \in Nat
    <2>1. responses[j] \in Response
      BY <1>2
    <2> QED  BY <1>2, <2>1, ResponseHas DEF Tells
  <1>4. /\ \A i \in 1..j + 1 : Spent(j, t[i][k])
        /\ \A x \in Tokens : Spent(j, Base(x)[k])
    BY DEF Settled
  <1>5. ASSUME NEW v \in Nat, Spent(j, v) PROVE Spent(j, v)'
    BY <1>3, <1>5, SpentRests
  <1>6. ASSUME NEW i \in 1..j + 1 PROVE Spent(j, t[i][k])'
    <2>1. i \in 1..Len(t)
      BY <1>2
    <2>2. PICK v \in Nat : v = t[i][k]
      BY <1>3, <2>1, DocumentsAre
    <2> QED  BY <1>4, <1>5, <2>2
  <1>7. ASSUME NEW x \in Tokens' PROVE Spent(j, Base(x)[k])'
    <2>1. x \in Tokens
      OBVIOUS
    <2>2. PICK v \in Nat : v = Base(x)[k]
      BY <1>3, <2>1, TokensAre, DocumentsAre
    <2> QED  BY <1>4, <1>5, <2>1, <2>2
  <1> QED  BY <1>6, <1>7

(* What remains is the view and the client's position.                     *)
LEMMA RestTruth ==
    ASSUME BooksInv, TruthInv, Rests, Tokens' \subseteq Tokens,
           ChangesFit(agg, keys)', Bounded', ~early /\ Viewed => Viewed',
           ~early => \A t \in Seq(Documents), p \in Seq(Phase) :
                        Traced(t, p) => Position(t, p)'
    PROVE  TruthInv'
  <1>1. early' = early
    BY DEF Rests
  <1>2. Len(responses) \in Nat
    BY DEF BooksInv, TypeOK
  <1>3. ASSUME ~early'
        PROVE  /\ \A x \in Tokens' : TokenFits(x)'
               /\ Viewed'
               /\ \E t \in Seq(Documents), p \in Seq(Phase) : Traced(t, p)'
    <2>1. (\A x \in Tokens : TokenFits(x)) /\ Viewed
      BY <1>1, <1>3 DEF TruthInv
    <2>2. PICK t \in Seq(Documents), p \in Seq(Phase) : Traced(t, p)
      BY <1>1, <1>3 DEF TruthInv
    <2>3. Chain(t, p) /\ Settled(t) /\ Len(t) = Len(responses) + 1
      BY <2>2 DEF Traced, Chain
    <2>4. ASSUME NEW x \in Tokens' PROVE TokenFits(x)'
      BY <1>2, <2>1, TokenRests, TokensAre
    <2>5. Chain(t, p)'
      BY <1>2, <2>3, ChainRests
    <2>6. Settled(t)'
      BY <2>3, SettledRests
    <2>7. Traced(t, p)'
      BY <1>1, <1>3, <2>2, <2>5, <2>6 DEF Traced
    <2> QED  BY <1>1, <1>3, <2>1, <2>4, <2>7
  <1> QED  BY <1>3 DEF TruthInv

(* The backend's result changes: what was outdated is, as versions grow.   *)
LEMMA ResultTruth ==
    ASSUME BooksInv, TruthInv, NEW c \in Keys, ResultChanges(c)
    PROVE  TruthInv'
  <1>1. /\ UNCHANGED <<view, keys, cached, disk, truth, unfounded, open, agg, requests,
                       responses, backend, errors, early>>
        /\ changes' = changes + 1 /\ changes \in Nat /\ result \in Documents
    BY DEF ResultChanges, client, failures, BooksInv, TypeOK
  <1>2. ASSUME NEW k \in Keys, NEW v \in Nat, NEW j \in Nat, v # 0, Outdated(k, v, j)
        PROVE  Outdated(k, v, j)'
    BY <1>2, OutdatedChanges
  <1>3. Rests
    BY <1>1, <1>2 DEF Rests
  <1>4. Tokens' \subseteq Tokens /\ ChangesFit(agg, keys)'
    BY <1>1 DEF Tokens, Listening, ChangesFit, TruthInv
  <1>5. Bounded'
    <2>1. PICK w \in {0, changes + 2} : result' = [result EXCEPT ![c] = w]
      BY DEF ResultChanges
    <2>2. \A k \in Keys : result'[k] \in {result[k], 0, changes + 2}
      BY <1>1, <2>1 DEF Documents
    <2>3. \A k \in Keys : result[k] <= changes + 1 /\ result[k] \in Nat
      BY <1>1, DocumentsAre DEF TruthInv, Bounded
    <2> QED  BY <1>1, <2>2, <2>3 DEF Bounded
  <1>6. Viewed => Viewed'
    BY <1>1 DEF Viewed, Listening
  <1>7. ASSUME ~early, NEW t \in Seq(Documents), NEW p \in Seq(Phase), Traced(t, p)
        PROVE  Position(t, p)'
    <2>1. CASE ~(open /\ Listening)
      BY <1>1, <2>1 DEF Position, Listening
    <2>2. CASE open /\ Listening /\ ~IsActive(agg)
      <3>1. Awaiting(t) /\ agg.state # NoState /\ Len(t) = Len(responses) + 1
        BY <1>7, <2>2 DEF Traced, Position, Chain
      <3>2. ASSUME NEW i \in 1..Len(responses), Coming(t, i) PROVE Coming(t, i)'
        <4>1. ASSUME NEW k \in Keys PROVE Held(k, t[i + 1][k], i)'
          <5>1. i \in Nat /\ i + 1 \in 1..Len(t)
            BY <3>1 DEF BooksInv, TypeOK
          <5>2. PICK v \in Nat : v = t[i + 1][k]
            BY <5>1, DocumentsAre
          <5>3. Held(k, v, i)'
            BY <1>3, <3>2, <5>1, <5>2, HeldRests DEF Coming
          <5> QED  BY <5>2, <5>3
        <4> QED  BY <1>1, <3>2, <4>1 DEF Coming
      <3>3. Awaiting(t)'
        BY <1>1, <3>1, <3>2 DEF Awaiting, Watch
      <3>4. ~IsActive(agg)' /\ agg'.state # NoState
        BY <1>1, <2>2, <3>1 DEF IsActive, Listening
      <3> QED  BY <3>3, <3>4 DEF Position
    <2>3. CASE open /\ Listening /\ IsActive(agg)
      <3>1. Active(t[1], p[1]) /\ agg.state # NoState /\ Len(t) = Len(responses) + 1
        BY <1>7, <2>3 DEF Traced, Position, Chain
      <3>2. ASSUME NEW k \in Keys PROVE Stands(k, t[1][k])'
        <4>1. 0 \in Nat /\ 1 \in 1..Len(t)
          BY <3>1 DEF BooksInv, TypeOK
        <4>2. PICK v \in Nat : v = t[1][k]
          BY <4>1, DocumentsAre
        <4>3. Stands(k, v)
          BY <3>1, <4>2 DEF Active
        <4>4. v # 0 /\ Outdated(k, v, 0) => Outdated(k, v, 0)'
          BY <1>2, <4>1
        <4>5. Stands(k, v)'
          BY <1>1, <4>3, <4>4 DEF Stands, Will, Now
        <4> QED  BY <4>2, <4>5
      <3>3. Active(t[1], p[1])'
        BY <1>1, <3>1, <3>2 DEF Active
      <3>4. IsActive(agg)' /\ agg'.state # NoState
        BY <1>1, <2>3, <3>1 DEF IsActive, Listening
      <3> QED  BY <3>3, <3>4 DEF Position
    <2> QED  BY <2>1, <2>2, <2>3
  <1> QED  BY <1>3, <1>4, <1>5, <1>6, <1>7, RestTruth

(* The view is no longer current, or nothing happens.                      *)
LEMMA OfflineTruth ==
    ASSUME BooksInv, TruthInv, GoOffline \/ UNCHANGED vars
    PROVE  TruthInv'
  <1>1. /\ UNCHANGED <<keys, cached, disk, truth, unfounded, open, agg, requests,
                       responses, backend, result, changes, errors, early>>
        /\ \/ view' = view
           \/ Listening /\ ~open /\ view' = [view EXCEPT !.current = FALSE]
    BY DEF GoOffline, vars, client, failures
  <1>2. \/ view' = view
        \/ /\ Listening /\ ~open /\ ~view'.current
           /\ view'.token = view.token /\ view'.kept = view.kept
    BY <1>1 DEF BooksInv, TypeOK, Listening, View
  <1>3. changes \in Nat
    BY DEF BooksInv, TypeOK
  <1>4. Rests
    BY <1>1, <1>3 DEF Rests, Outdated
  <1>5. /\ Tokens' \subseteq Tokens /\ ChangesFit(agg, keys)' /\ Bounded'
        /\ Viewed => Viewed'
    BY <1>1, <1>2 DEF Tokens, Listening, ChangesFit, Bounded, TruthInv, Viewed
  <1>6. ASSUME ~early, NEW t \in Seq(Documents), NEW p \in Seq(Phase), Traced(t, p)
        PROVE  Position(t, p)'
    <2>1. CASE ~open
      BY <1>1, <2>1 DEF Position
    <2>2. CASE open
      <3>1. view' = view
        BY <1>2, <2>2
      <3>2. Position(t, p)
        BY <1>6 DEF Traced
      <3>3. open' /\ Listening' => open /\ Listening /\ (IsActive(agg)' <=> IsActive(agg))
        BY <1>1, <3>1 DEF Listening, IsActive
      <3>4. Active(t[1], p[1]) => Active(t[1], p[1])'
        BY <1>1, <3>1 DEF Active, Stands, Will, Now, Outdated
      <3>5. Awaiting(t) => Awaiting(t)'
        BY <1>1, <3>1 DEF Awaiting, Coming, Held, Outdated
      <3> QED  BY <1>1, <3>2, <3>3, <3>4, <3>5 DEF Position
    <2> QED  BY <2>1, <2>2
  <1> QED  BY <1>4, <1>5, <1>6, RestTruth

(* The target of a new request is not active, and the view waits for the      *)
(* answer to it.                                                           *)
LEMMA PositionAsks ==
    ASSUME BooksInv', ~early', requests' # <<>>,
           requests'[Len(requests')] = Watch(view'.token),
           view'.current => ~agg'.reset /\ \A k \in Keys : agg'.updates[k] \in {-1, 0},
           NEW t, NEW p
    PROVE  Position(t, p)'
  <1>1. /\ requests' \in Seq(Request) /\ Len(requests') \in Nat /\ Len(requests') >= 1
        /\ Len(responses') \in Nat
    BY DEF BooksInv, TypeOK
  <1>2. Outstanding(agg') = Len(requests') + Cardinality(Answers(responses'))
    BY DEF BooksInv, Outstanding, Answers
  <1>3. Cardinality(Answers(responses')) \in Nat
    BY <1>1, AnswersFinite
  <1>4. Outstanding(agg') >= 1
    BY <1>1, <1>2, <1>3
  <1>5. agg'.state # NoState /\ ~IsActive(agg)'
    BY <1>4 DEF Outstanding, IsActive
  <1>6. Awaiting(t)'
    BY DEF Awaiting, Watch
  <1> QED  BY <1>5, <1>6 DEF Position

(* The target is watched, or no longer.                                    *)
LEMMA AskTruth ==
    ASSUME BooksInv, BooksInv', TruthInv, Listen \/ StopListening
    PROVE  TruthInv'
  <1>1. UNCHANGED <<keys, cached, truth, unfounded, open, responses, backend, result,
                    changes, errors, early>>
    BY DEF Listen, StopListening, failures
  <1>2. changes \in Nat /\ Sound(agg, keys) /\ ChangesFit(agg, keys)
    BY DEF BooksInv, TypeOK, TruthInv
  <1>3. Beside(agg, agg') /\ ChangesFit(agg', keys)
    <2>1. CASE open
      <3>1. agg' = RecordPendingTargetRequest(agg)
        BY <2>1 DEF Listen, StopListening
      <3> QED  BY <1>2, <3>1, RecordFits
    <2>2. CASE ~open
      <3>1. agg' = agg
        BY <2>2 DEF Listen, StopListening
      <3> QED  BY <1>2, <3>1 DEF Beside
    <2> QED  BY <2>1, <2>2
  <1>4. Rests
    BY <1>1, <1>2, <1>3 DEF Rests, Outdated, Beside
  <1>5. Tokens' \subseteq Tokens /\ Viewed'
    <2>1. CASE Listen
      <3>1. view' = [current |-> FALSE, token |-> disk, kept |-> disk, carried |-> FALSE]
            /\ disk' = disk
        BY <2>1 DEF Listen
      <3>2. view'.token = disk /\ view'.kept = disk /\ ~view'.current
        BY <3>1
      <3> QED  BY <3>1, <3>2 DEF Tokens, Viewed
    <2>2. CASE StopListening
      BY <2>2 DEF StopListening, Tokens, Viewed, Listening
    <2> QED  BY <2>1, <2>2
  <1>6. ChangesFit(agg, keys)' /\ Bounded'
    BY <1>1, <1>3 DEF ChangesFit, Bounded, TruthInv
  <1>7. ASSUME ~early, NEW t \in Seq(Documents), NEW p \in Seq(Phase), Traced(t, p)
        PROVE  Position(t, p)'
    <2>1. CASE StopListening
      BY <2>1 DEF StopListening, Listening, Position
    <2>2. CASE ~open
      BY <1>1, <2>2 DEF Position
    <2>3. CASE Listen /\ open
      <3>1. /\ requests' = Append(requests, Watch(disk))
            /\ view' = [current |-> FALSE, token |-> disk, kept |-> disk, carried |-> FALSE]
        BY <2>3 DEF Listen
      <3>2. requests \in Seq(Request) /\ disk \in Token
        BY DEF BooksInv, TypeOK
      <3>3. PICK w \in Request : w = Watch(disk)
        BY <3>2, RequestHas
      <3>4. requests' # <<>> /\ requests'[Len(requests')] = w
        BY <3>1, <3>2, <3>3, AppendProperties
      <3>5. requests'[Len(requests')] = Watch(view'.token) /\ ~view'.current
        BY <3>1, <3>3, <3>4 DEF Watch
      <3> QED  BY <1>1, <1>7, <3>4, <3>5, PositionAsks
    <2> QED  BY <2>1, <2>2, <2>3
  <1> QED  BY <1>4, <1>5, <1>6, <1>7, RestTruth

(* A stream opens, and the target is watched again.                        *)
LEMMA OpensTruth ==
    ASSUME BooksInv, BooksInv', TruthInv, StreamOpens
    PROVE  TruthInv'
  <1>1. UNCHANGED <<view, keys, cached, disk, truth, unfounded, responses, backend,
                    result, changes, errors, early>>
    BY DEF StreamOpens, client, failures
  <1>2. changes \in Nat
    BY DEF BooksInv, TypeOK
  <1>3. /\ ChangesFit(agg', keys) /\ ~agg'.reset
        /\ \A k \in Keys : agg'.updates[k] = -1
    <2>1. Sound(NewAggregator, keys) /\ ChangesFit(NewAggregator, keys)
      BY NewAggregatorType DEF ChangesFit
    <2>2. ~NewAggregator.reset /\ \A k \in Keys : NewAggregator.updates[k] = -1
      BY DEF NewAggregator
    <2>3. CASE Listening
      <3>1. agg' = RecordPendingTargetRequest(NewAggregator)
        BY <2>3 DEF StreamOpens
      <3>2. Beside(NewAggregator, agg') /\ ChangesFit(agg', keys)
        BY <2>1, <3>1, RecordFits
      <3> QED  BY <2>2, <3>2 DEF Beside
    <2>4. CASE ~Listening
      <3>1. agg' = NewAggregator
        BY <2>4 DEF StreamOpens
      <3> QED  BY <2>1, <2>2, <3>1
    <2> QED  BY <2>3, <2>4
  <1>4. Rests
    BY <1>1, <1>2, <1>3 DEF Rests, Outdated
  <1>5. /\ Tokens' \subseteq Tokens /\ ChangesFit(agg, keys)' /\ Bounded'
        /\ Viewed => Viewed'
    BY <1>1, <1>3 DEF Tokens, Listening, ChangesFit, Bounded, TruthInv, Viewed
  <1>6. ASSUME ~early, NEW t \in Seq(Documents), NEW p \in Seq(Phase), Traced(t, p)
        PROVE  Position(t, p)'
    <2>1. CASE ~Listening
      BY <1>1, <2>1 DEF Position, Listening
    <2>2. CASE Listening
      <3>1. requests' = <<Watch(view.token)>>
        BY <2>2 DEF StreamOpens
      <3>2. requests' # <<>> /\ requests'[Len(requests')] = Watch(view'.token)
        <4>1. PICK w : w = Watch(view.token)
          OBVIOUS
        <4>2. requests' # <<>> /\ requests'[Len(requests')] = w
          BY <3>1, <4>1
        <4> QED  BY <1>1, <4>1, <4>2 DEF Watch
      <3> QED  BY <1>1, <1>3, <1>6, <3>2, PositionAsks
    <2> QED  BY <2>1, <2>2
  <1> QED  BY <1>4, <1>5, <1>6, RestTruth

(* Before anything is sent nothing has been told.                          *)
LEMMA NothingTold ==
    /\ <<Nothing>> \in Seq(Documents) /\ <<"Off">> \in Seq(Phase)
    /\ Len(<<Nothing>>) = 1 /\ Len(<<"Off">>) = 1
    /\ <<Nothing>>[1] = Nothing /\ <<"Off">>[1] = "Off"
  BY DocumentsAre DEF Phase

(* At the start nothing is under way.                                      *)
LEMMA TruthInit == Init => TruthInv
  <1> SUFFICES ASSUME Init PROVE TruthInv
    OBVIOUS
  <1>1. /\ view = NoView /\ keys = {} /\ disk = NoToken /\ ~open
        /\ agg = NewAggregator /\ responses = <<>> /\ backend = Silent
        /\ result \in [Keys -> {0, 1}] /\ changes = 0
    BY DEF Init
  <1>2. ChangesFit(agg, keys) /\ Bounded
    BY <1>1 DEF ChangesFit, Bounded, NewAggregator
  <1>3. \A x \in Tokens : TokenFits(x)
    <2>1. \A x \in Tokens : Base(x) = Nothing
      BY <1>1, BaseIs DEF Tokens, Listening
    <2> QED  BY <1>1, <2>1, DocumentsAre DEF TokenFits, Held
  <1>4. Viewed
    BY <1>1 DEF Viewed, Listening
  <1>5. PICK t \in Seq(Documents), p \in Seq(Phase) :
            Len(t) = 1 /\ Len(p) = 1 /\ t[1] = Nothing /\ p[1] = "Off"
    BY NothingTold
  <1>6. Len(responses) = 0
    BY <1>1
  <1>7. Chain(t, p)
    <2>1. t[1] = backend.told /\ p[1] = backend.phase
      BY <1>1, <1>5 DEF Silent
    <2>2. \A k \in Keys : t[1][k] <= changes + 1
      BY <1>1, <1>5, DocumentsAre
    <2> QED  BY <1>5, <1>6, <2>1, <2>2 DEF Chain
  <1>8. Settled(t) /\ Position(t, p)
    BY <1>1, <1>6 DEF Settled, Position
  <1> QED  BY <1>2, <1>3, <1>4, <1>5, <1>7, <1>8 DEF TruthInv, Traced

(* A stream ends, or the app does: whatever was under way is lost.         *)
LEMMA BreaksTruth ==
    ASSUME BooksInv, TruthInv, StreamBreaks \/ AppRestart
    PROVE  TruthInv'
  <1>1. /\ ~open' /\ responses' = <<>> /\ backend' = Silent
        /\ agg' = [NewAggregator EXCEPT !.ok = agg.ok]
        /\ view' \in {view, NoView}
        /\ UNCHANGED <<keys, cached, disk, truth, unfounded, result, changes, errors, early>>
    BY DEF StreamBreaks, AppRestart, client, failures
  <1>2. agg'.state = NoState /\ \A k \in Keys : agg'.updates[k] = -1
    BY <1>1 DEF NewAggregator
  <1>3. ChangesFit(agg, keys)' /\ Bounded' /\ Tokens' \subseteq Tokens
    BY <1>1, <1>2 DEF ChangesFit, Bounded, TruthInv, Tokens, Listening
  <1>4. Len(responses') = 0 /\ changes' \in Nat
    BY <1>1 DEF BooksInv, TypeOK
  <1>5. ASSUME ~early'
        PROVE  /\ \A x \in Tokens' : TokenFits(x)'
               /\ Viewed'
               /\ \E t \in Seq(Documents), p \in Seq(Phase) : Traced(t, p)'
    <2>1. (\A x \in Tokens : TokenFits(x)) /\ Viewed
      BY <1>1, <1>5 DEF TruthInv
    <2>2. ASSUME NEW x \in Tokens PROVE TokenFits(x)'
      <3> SUFFICES ASSUME NEW k \in Keys, NEW v, v = Base(x)[k]
                   PROVE  /\ v <= changes' + 1
                          /\ v # 0 => k \in keys'
                          /\ k \in keys' => v # 0 \/ k \in unfounded'
                          /\ Held(k, v, Len(responses))'
        BY DEF TokenFits, Held, Outdated
      <3>1. /\ v <= changes + 1 /\ (v # 0 => k \in keys)
            /\ k \in keys => v # 0 \/ k \in unfounded
            /\ Held(k, v, Len(responses))
        BY <2>1 DEF TokenFits
      <3>2. Outdated(k, v, Len(responses)) => Outdated(k, v, Len(responses))'
        BY <1>1, <1>4 DEF Outdated
      <3>3. Held(k, v, Len(responses))'
        BY <1>1, <1>2, <3>1, <3>2 DEF Held
      <3> QED  BY <1>1, <3>1, <3>3
    <2>3. Viewed'
      BY <1>1, <2>1 DEF Viewed, Listening
    <2>4. PICK t \in Seq(Documents), p \in Seq(Phase) :
            Len(t) = 1 /\ Len(p) = 1 /\ t[1] = Nothing /\ p[1] = "Off"
      BY NothingTold
    <2>5. Chain(t, p)'
      <3>1. t[1] = backend'.told /\ p[1] = backend'.phase
        BY <1>1, <2>4 DEF Silent
      <3>2. \A k \in Keys : t[1][k] <= changes' + 1
        BY <1>4, <2>4, DocumentsAre
      <3> QED  BY <1>4, <2>4, <3>1, <3>2 DEF Chain
    <2>6. Settled(t)' /\ Position(t, p)'
      BY <1>1, <1>4 DEF Settled, Position
    <2> QED  BY <1>3, <2>2, <2>3, <2>5, <2>6 DEF Traced
  <1> QED  BY <1>3, <1>5 DEF TruthInv

-----------------------------------------------------------------------------
(* The backend answers and sends.                                          *)

(* The tokens of the requests under way are of versions that there were.   *)
AskedInv ==
    ~early => \A i \in 1..Len(requests), k \in Keys :
                requests[i] # Unwatch => Base(requests[i].token)[k] <= changes + 1

(* So is what the backend has told.                                        *)
LEMMA ToldBounded ==
    ASSUME BooksInv, TruthInv, ~early
    PROVE  \A k \in Keys : backend.told[k] <= changes + 1
  <1>1. PICK t \in Seq(Documents), p \in Seq(Phase) : Chain(t, p)
    BY DEF TruthInv, Traced
  <1>2. Len(responses) + 1 \in 1..Len(responses) + 1
    BY DEF BooksInv, TypeOK
  <1> QED  BY <1>1, <1>2 DEF Chain

(* The backend gives a response: the tokens and the keys stay.             *)
LEMMA GivesTruth ==
    ASSUME BooksInv, TruthInv, NEW r, Gives(r), Tells(r) => Value(r) = result[r.key],
           UNCHANGED <<view, keys, cached, disk, truth, unfounded, agg, early>>,
           NEW d \in Documents, NEW ph \in Phase, backend'.told = d, backend'.phase = ph,
           Link(r, backend.told, backend.phase, d, ph),
           ~early => \A k \in Keys : d[k] <= changes + 1,
           ~early => \A t \in Seq(Documents), p \in Seq(Phase) : \A s, q :
                Traced(t, p) /\ s = Append(t, d) /\ q = Append(p, ph) => Position(s, q)'
    PROVE  TruthInv'
  <1>1. result' = result /\ changes' = changes
    BY DEF Gives
  <1>2. ChangesFit(agg, keys)' /\ Bounded' /\ Tokens' = Tokens
    BY <1>1 DEF ChangesFit, TruthInv, Bounded, Tokens, Listening
  <1>3. ASSUME ~early'
        PROVE  /\ \A x \in Tokens' : TokenFits(x)'
               /\ Viewed'
               /\ \E t \in Seq(Documents), p \in Seq(Phase) : Traced(t, p)'
    <2>1. (\A x \in Tokens : TokenFits(x)) /\ Viewed
      BY <1>3 DEF TruthInv
    <2>2. PICK t \in Seq(Documents), p \in Seq(Phase) : Traced(t, p)
      BY <1>3 DEF TruthInv
    <2>3. /\ Chain(t, p) /\ Settled(t)
          /\ Len(t) = Len(responses) + 1 /\ Len(p) = Len(responses) + 1
      BY <2>2 DEF Traced, Chain
    <2>4. ASSUME NEW x \in Tokens PROVE TokenFits(x)'
      BY <2>1, TokenGives
    <2>5. Viewed'
      BY <2>1 DEF Viewed, Listening
    <2>6. PICK s \in Seq(Documents) : s = Append(t, d)
      BY <2>3, AppendIs
    <2>7. PICK q \in Seq(Phase) : q = Append(p, ph)
      BY <2>3, AppendIs
    <2>8. \A k \in Keys : d[k] <= changes + 1
      BY <1>3
    <2>9. Chain(s, q)'
      BY <2>3, <2>6, <2>7, <2>8, ChainGives
    <2>10. Settled(s)'
      BY <1>2, <2>1, <2>3, <2>6, <2>8, SettledGives
    <2>11. Position(s, q)'
      BY <1>3, <2>2, <2>6, <2>7
    <2> QED  BY <1>2, <2>4, <2>5, <2>6, <2>7, <2>9, <2>10, <2>11 DEF Traced
  <1> QED  BY <1>2, <1>3 DEF TruthInv

(* The answer that the view waits for stays the last one while the backend     *)
(* sends something else.                                                   *)
LEMMA PositionGives ==
    ASSUME BooksInv, NEW r, Gives(r), r.type \notin {"Added", "Removed"},
           UNCHANGED <<view, keys, cached, unfounded, open, agg, requests>>,
           NEW t \in Seq(Documents), NEW p \in Seq(Phase), Traced(t, p),
           NEW d \in Documents, NEW ph \in Phase,
           NEW s, s = Append(t, d), NEW q, q = Append(p, ph)
    PROVE  Position(s, q)'
  <1>1. /\ \A i \in 1..Len(responses) + 1 : s[i] = t[i]
        /\ s[1] = t[1] /\ q[1] = p[1]
    <2>1. Len(t) = Len(responses) + 1 /\ Len(p) = Len(responses) + 1
      BY DEF Traced, Chain
    <2>2. s[1] = t[1] /\ \A i \in 1..Len(responses) + 1 : s[i] = t[i]
      BY <2>1, AppendIs
    <2>3. q[1] = p[1]
      BY <2>1, AppendIs
    <2> QED  BY <2>2, <2>3
  <1>2. /\ Len(responses) \in Nat /\ Len(responses') = Len(responses) + 1
        /\ responses'[Len(responses) + 1] = r
        /\ \A i \in 1..Len(responses) : responses'[i] = responses[i]
    BY GivesIs
  <1>3. CASE ~(open /\ Listening)
    BY <1>3 DEF Position, Listening
  <1>4. CASE open /\ Listening /\ IsActive(agg)
    <2>1. Active(t[1], p[1]) /\ agg.state # NoState
      BY <1>4 DEF Traced, Position
    <2>2. ASSUME NEW k \in Keys PROVE Stands(k, t[1][k])'
      <3>1. PICK v : v = t[1][k]
        OBVIOUS
      <3>2. Stands(k, v)
        BY <2>1, <3>1 DEF Active
      <3>3. Outdated(k, v, 0) => Outdated(k, v, 0)'
        BY OutdatedGives
      <3>4. Stands(k, v)'
        BY <3>2, <3>3 DEF Stands, Will, Now
      <3> QED  BY <3>1, <3>4
    <2>3. Active(t[1], p[1])'
      BY <2>1, <2>2 DEF Active
    <2>4. IsActive(agg)' /\ agg'.state # NoState
      BY <1>4, <2>1 DEF IsActive, Listening
    <2>5. Active(s[1], q[1])'
      BY <1>1, <2>3
    <2> QED  BY <2>4, <2>5 DEF Position
  <1>5. CASE open /\ Listening /\ ~IsActive(agg)
    <2>1. Awaiting(t) /\ agg.state # NoState
      BY <1>5 DEF Traced, Position
    <2>2. ASSUME NEW i \in 1..Len(responses), Coming(t, i)
          PROVE  i \in 1..Len(responses') /\ Coming(s, i)'
      <3>1. /\ i \in 1..Len(responses') /\ i \in Nat /\ responses'[i] = responses[i]
            /\ i + 1 \in 1..Len(responses) + 1
        BY <1>2
      <3>2. s[i + 1] = t[i + 1]
        BY <1>1, <3>1
      <3>3. ASSUME NEW j \in 1..Len(responses'), j > i
            PROVE  responses'[j].type \notin {"Added", "Removed"}
        <4>1. j = Len(responses) + 1 \/ j \in 1..Len(responses)
          <5>1. PICK n \in Nat : n = Len(responses) /\ j \in 1..n + 1
            BY <1>2
          <5>2. j = n + 1 \/ j \in 1..n
            BY <5>1
          <5> QED  BY <5>1, <5>2
        <4> QED  BY <1>2, <2>2, <3>3, <4>1 DEF Coming
      <3>4. ASSUME NEW k \in Keys PROVE Held(k, s[i + 1][k], i)'
        <4>1. PICK v : v = t[i + 1][k]
          OBVIOUS
        <4>2. Held(k, v, i)
          BY <2>2, <4>1 DEF Coming
        <4>3. Held(k, v, i)'
          BY <3>1, <4>2, HeldGives
        <4> QED  BY <3>2, <4>1, <4>3
      <3> QED  BY <2>2, <3>1, <3>2, <3>3, <3>4 DEF Coming
    <2>3. Awaiting(s)'
      BY <2>1, <2>2 DEF Awaiting, Watch
    <2>4. ~IsActive(agg)' /\ agg'.state # NoState
      BY <1>5, <2>1 DEF IsActive, Listening
    <2> QED  BY <2>3, <2>4 DEF Position
  <1> QED  BY <1>3, <1>4, <1>5

(* What the backend sends of its own accord says how it goes on.           *)
LEMMA SendTruth ==
    ASSUME BooksInv, TruthInv, NEW r \in Response, r.type \notin {"Added", "Removed"},
           responses' = Append(responses, r), r.type = "Snapshot" => r.result = result,
           UNCHANGED <<client, open, agg, result, changes, requests, early>>,
           Tells(r) => Value(r) = result[r.key],
           NEW d \in Documents, NEW ph \in Phase, backend'.told = d, backend'.phase = ph,
           Link(r, backend.told, backend.phase, d, ph),
           (\A k \in Keys : backend.told[k] <= changes + 1) =>
                \A k \in Keys : d[k] <= changes + 1
    PROVE  TruthInv'
  <1>1. UNCHANGED <<view, keys, cached, disk, truth, unfounded, open, agg, requests, early>>
    BY DEF client
  <1>2. Gives(r)
    BY DEF Gives, BooksInv, TypeOK
  <1>3. ~early => \A k \in Keys : d[k] <= changes + 1
    BY ToldBounded
  <1>4. ASSUME NEW t \in Seq(Documents), NEW p \in Seq(Phase), NEW s, NEW q,
               Traced(t, p), s = Append(t, d), q = Append(p, ph)
        PROVE  Position(s, q)'
    BY <1>1, <1>2, <1>4, PositionGives
  <1> QED  BY <1>1, <1>2, <1>3, <1>4, GivesTruth

(* What the backend remembers.                                             *)
LEMMA BackendIs ==
    ASSUME NEW b \in Backend
    PROVE  /\ b.told \in Documents /\ b.phase \in Phase
           /\ \A d, n : LET z == [b EXCEPT !.told = d, !.news = n] IN
                z.told = d /\ z.phase = b.phase
           /\ \A k, v, n : LET z == [b EXCEPT !.told[k] = v, !.news = n] IN
                z.told = [b.told EXCEPT ![k] = v] /\ z.phase = b.phase
           /\ \A ph, n : LET z == [b EXCEPT !.phase = ph, !.news = n] IN
                z.told = b.told /\ z.phase = ph
           /\ \A n : LET z == [b EXCEPT !.news = n] IN
                z.told = b.told /\ z.phase = b.phase
  BY DEF Backend, Phase

(* The backend sends, or the target fails.                                 *)
LEMMA SendsTruth ==
    ASSUME BooksInv, TruthInv, BackendSends \/ SendFailure
    PROVE  TruthInv'
  <1>a. /\ backend \in Backend /\ result \in Documents /\ changes \in Nat
        /\ \A k \in Keys : result[k] \in Versions /\ result[k] <= changes + 1
    BY DEF BooksInv, TypeOK, Documents, TruthInv, Bounded
  <1>b. ASSUME NEW r \in Response, NEW b, Sends(r, b)
        PROVE  /\ responses' = Append(responses, r) /\ backend' = b
               /\ UNCHANGED <<client, open, agg, result, changes, requests, early>>
    BY <1>b DEF Sends, Respond, BackendStep, failures
  <1>c. PICK d0 \in Documents, p0 \in Phase : d0 = backend.told /\ p0 = backend.phase
    BY <1>a, BackendIs
  <1>d. \A d \in Documents : d \in Token
    BY DEF Token
  <1>1. ASSUME NEW k \in Keys, SendDocument(k) PROVE TruthInv'
    <2>1. PICK v \in Versions : v = result[k] /\ v # 0 /\ v <= changes + 1
      BY <1>1, <1>a DEF SendDocument
    <2>2. PICK r \in Response : /\ r = [type |-> "Document", key |-> k, version |-> v]
                                /\ r.type = "Document" /\ r.key = k /\ r.version = v
      BY ResponseIs
    <2>3. PICK b : b = [backend EXCEPT !.told[k] = v, !.news = TRUE]
      OBVIOUS
    <2>b. b.told = [d0 EXCEPT ![k] = v] /\ b.phase = p0
      BY <1>a, <1>c, <2>3, BackendIs
    <2>4. Sends(r, b)
      BY <1>1, <2>1, <2>2, <2>3 DEF SendDocument
    <2>5. PICK d \in Documents : d = [d0 EXCEPT ![k] = v]
      BY DEF Documents
    <2>6. Link(r, d0, p0, d, p0)
      BY <2>1, <2>2, <2>5 DEF Link
    <2>7. Tells(r) => Value(r) = result[r.key]
      BY <2>1, <2>2 DEF Value
    <2>8. (\A i \in Keys : d0[i] <= changes + 1) => \A i \in Keys : d[i] <= changes + 1
      BY <2>1, <2>5 DEF Documents
    <2>9. /\ responses' = Append(responses, r)
          /\ backend'.told = d /\ backend'.phase = p0
          /\ UNCHANGED <<client, open, agg, result, changes, requests, early>>
      BY <1>b, <2>b, <2>4, <2>5
    <2> QED  BY <1>c, <2>2, <2>6, <2>7, <2>8, <2>9, SendTruth
  <1>2. ASSUME NEW k \in Keys, SendRemoval(k) PROVE TruthInv'
    <2>1. PICK x \in {"Deleted", "Left"} :
            Sends([type |-> x, key |-> k], [backend EXCEPT !.told[k] = 0, !.news = TRUE])
      BY <1>2 DEF SendRemoval
    <2>2. PICK r \in Response : r = [type |-> x, key |-> k] /\ r.type = x /\ r.key = k
      BY ResponseIs
    <2>3. PICK b : b = [backend EXCEPT !.told[k] = 0, !.news = TRUE]
      OBVIOUS
    <2>b. b.told = [d0 EXCEPT ![k] = 0] /\ b.phase = p0
      BY <1>a, <1>c, <2>3, BackendIs
    <2>4. Sends(r, b)
      BY <2>1, <2>2, <2>3
    <2>5. PICK d \in Documents : d = [d0 EXCEPT ![k] = 0]
      BY DocumentsAre DEF Documents
    <2>6. Link(r, d0, p0, d, p0)
      BY <2>2, <2>5 DEF Link
    <2>7. Tells(r) => Value(r) = result[r.key]
      BY <1>2, <2>2 DEF Value, SendRemoval
    <2>8. (\A i \in Keys : d0[i] <= changes + 1) => \A i \in Keys : d[i] <= changes + 1
      BY <1>a, <2>5 DEF Documents
    <2>9. /\ responses' = Append(responses, r)
          /\ backend'.told = d /\ backend'.phase = p0
          /\ UNCHANGED <<client, open, agg, result, changes, requests, early>>
      BY <1>b, <2>b, <2>4, <2>5
    <2> QED  BY <1>c, <2>2, <2>6, <2>7, <2>8, <2>9, SendTruth
  <1>3. ASSUME NEW k \in Keys, SendLookup(k) PROVE TruthInv'
    <2>1. PICK r \in Response : r = [type |-> "Lookup", key |-> k]
                                /\ r.type = "Lookup" /\ r.key = k
      BY ResponseIs
    <2>2. PICK b : b = [backend EXCEPT !.news = TRUE]
      OBVIOUS
    <2>b. b.told = d0 /\ b.phase = p0
      BY <1>a, <1>c, <2>2, BackendIs
    <2>3. Sends(r, b)
      BY <1>3, <2>1, <2>2 DEF SendLookup
    <2>4. Link(r, d0, p0, d0, p0)
      BY <2>1 DEF Link
    <2>5. Tells(r) => Value(r) = result[r.key]
      BY <1>3, <2>1 DEF Value, SendLookup, Present
    <2> QED  BY <1>b, <1>c, <2>b, <2>1, <2>2, <2>3, <2>4, <2>5, SendTruth
  <1>4. CASE SendFilter
    <2>1. Cardinality(Present(result)) \in 0..Cardinality(Keys)
      <3>1. Present(result) \subseteq Keys
        BY DEF Present
      <3>2. /\ IsFiniteSet(Present(result))
            /\ Cardinality(Present(result)) <= Cardinality(Keys)
        BY <3>1, FS_Subset, WatchAggregatorAssumption
      <3> QED  BY <3>2, FS_CardinalityType, WatchAggregatorAssumption
    <2>2. PICK r \in Response :
            /\ r = [type |-> "Filter", count |-> Cardinality(Present(result))]
            /\ r.type = "Filter" /\ r.count = Cardinality(Present(result))
      BY <2>1, ResponseIs
    <2>3. PICK b : b = [backend EXCEPT !.told = result, !.news = TRUE]
      OBVIOUS
    <2>b. b.told = result /\ b.phase = p0
      BY <1>a, <1>c, <2>3, BackendIs
    <2>4. Sends(r, b)
      BY <1>4, <2>2, <2>3 DEF SendFilter
    <2>5. d0 # result /\ \A k \in Keys : result[k] \in {0, d0[k]}
      BY <1>4, <1>c DEF SendFilter, Present
    <2>6. Link(r, d0, p0, result, p0)
      BY <2>2, <2>5 DEF Link
    <2>7. ~Tells(r)
      BY <2>2 DEF Tells
    <2>8. /\ responses' = Append(responses, r)
          /\ backend'.told = result /\ backend'.phase = p0
          /\ UNCHANGED <<client, open, agg, result, changes, requests, early>>
      BY <1>b, <2>b, <2>4
    <2>9. PICK d \in Documents : d = result /\ \A k \in Keys : d[k] <= changes + 1
      BY <1>a
    <2> QED  BY <1>c, <2>2, <2>6, <2>7, <2>8, <2>9, SendTruth
  <1>5. CASE SendReset
    <2>1. PICK r \in Response : r = [type |-> "Reset"] /\ r.type = "Reset"
      BY ResponseIs
    <2>2. PICK b : b = [phase |-> "Resetting", told |-> Nothing, news |-> TRUE]
      OBVIOUS
    <2>b. b.told = Nothing /\ b.phase = "Resetting"
      BY <2>2
    <2>3. Sends(r, b)
      BY <1>5, <2>1, <2>2 DEF SendReset
    <2>4. Link(r, d0, p0, Nothing, "Resetting")
      BY <2>1 DEF Link
    <2>5. ~Tells(r)
      BY <2>1 DEF Tells
    <2>6. "Resetting" \in Phase /\ \A k \in Keys : Nothing[k] <= changes + 1
      BY <1>a, DocumentsAre DEF Phase
    <2>7. Nothing \in Documents
      BY DocumentsAre
    <2> QED  BY <1>b, <1>c, <2>b, <2>1, <2>2, <2>3, <2>4, <2>5, <2>6, <2>7, SendTruth
  <1>6. CASE SendCurrent
    <2>1. PICK r \in Response : r = [type |-> "Current", token |-> result]
                                /\ r.type = "Current"
      BY <1>a, <1>d, ResponseIs
    <2>2. PICK b : b = [backend EXCEPT !.phase = "Current", !.news = TRUE]
      OBVIOUS
    <2>b. b.told = d0 /\ b.phase = "Current"
      BY <1>a, <1>c, <2>2, BackendIs
    <2>3. Sends(r, b)
      BY <1>6, <2>1, <2>2 DEF SendCurrent
    <2>4. Link(r, d0, p0, d0, "Current") /\ "Current" \in Phase
      BY <2>1 DEF Link, Phase
    <2>5. ~Tells(r)
      BY <2>1 DEF Tells
    <2> QED  BY <1>b, <1>c, <2>b, <2>1, <2>2, <2>3, <2>4, <2>5, SendTruth
  <1>7. CASE SendSnapshot
    <2>1. PICK r \in Response :
            /\ r = [type |-> "Snapshot", token |-> d0, result |-> result]
            /\ r.type = "Snapshot" /\ r.token = d0 /\ r.result = result
      BY <1>a, <1>d, ResponseIs
    <2>2. PICK b : b = [backend EXCEPT !.news = FALSE]
      OBVIOUS
    <2>b. b.told = d0 /\ b.phase = p0
      BY <1>a, <1>c, <2>2, BackendIs
    <2>3. Sends(r, b)
      BY <1>7, <1>c, <2>1, <2>2 DEF SendSnapshot
    <2>4. Link(r, d0, p0, d0, p0)
      BY <1>7, <1>c, <2>1 DEF Link, SendSnapshot
    <2>5. ~Tells(r)
      BY <2>1 DEF Tells
    <2> QED  BY <1>b, <1>c, <2>b, <2>1, <2>2, <2>3, <2>4, <2>5, SendTruth
  <1>8. CASE SendFailure
    <2>1. PICK r \in Response : r = [type |-> "Failed"] /\ r.type = "Failed"
      BY ResponseIs
    <2>2. /\ responses' = Append(responses, r)
          /\ backend'.told = Nothing /\ backend'.phase = "Off"
          /\ UNCHANGED <<client, open, agg, result, changes, requests, early>>
      BY <1>8, <2>1 DEF SendFailure, Respond, BackendStep, Silent
    <2>3. Link(r, d0, p0, Nothing, "Off")
      BY <2>1 DEF Link
    <2>4. ~Tells(r)
      BY <2>1 DEF Tells
    <2>5. "Off" \in Phase /\ \A k \in Keys : Nothing[k] <= changes + 1
      BY <1>a, DocumentsAre DEF Phase
    <2>6. Nothing \in Documents
      BY DocumentsAre
    <2> QED  BY <1>c, <2>1, <2>2, <2>3, <2>4, <2>5, <2>6, SendTruth
  <1> QED  BY <1>1, <1>2, <1>3, <1>4, <1>5, <1>6, <1>7, <1>8 DEF BackendSends

(* The answer to the last request is the one that the view waits for.      *)
LEMMA PositionAnswers ==
    ASSUME BooksInv, ~early, NEW r, Gives(r), requests # <<>>, requests' = Tail(requests),
           UNCHANGED <<view, keys, cached, unfounded, open, agg>>,
           \A x \in Tokens : TokenFits(x),
           NEW d \in Documents, NEW t \in Seq(Documents), NEW p, Traced(t, p),
           Head(requests) = Watch(view.token) => r.type = "Added" /\ d = Base(view.token),
           NEW s, s = Append(t, d), NEW q
    PROVE  Position(s, q)'
  <1> SUFFICES ASSUME open, Listening PROVE Position(s, q)'
    BY DEF Position, Listening
  <1>1. ~IsActive(agg)
    BY ActiveQuiet
  <1>2. Awaiting(t) /\ agg.state # NoState /\ Len(t) = Len(responses) + 1
    BY <1>1 DEF Traced, Position, Chain
  <1>3. requests[Len(requests)] = Watch(view.token)
    BY <1>2 DEF Awaiting
  <1>4. PICK n \in Nat : /\ Len(requests) = n + 1 /\ Len(requests') = n
                         /\ \A i \in 1..n : requests'[i] = requests[i + 1]
                         /\ Head(requests) = requests[1]
                         /\ requests' \in Seq(Request)
    <2>1. requests \in Seq(Request)
      BY DEF BooksInv, TypeOK
    <2>2. /\ Len(requests) \in Nat /\ Len(requests) >= 1
          /\ requests' \in Seq(Request) /\ Len(requests') = Len(requests) - 1
          /\ \A i \in 1..Len(requests) - 1 : requests'[i] = requests[i + 1]
          /\ Head(requests) = requests[1]
      BY <2>1, HeadTailProperties
    <2>3. PICK n \in Nat : n = Len(requests) - 1 /\ Len(requests) = n + 1
      <3>1. Len(requests) - 1 \in Nat /\ Len(requests) = (Len(requests) - 1) + 1
        BY <2>2
      <3> QED  BY <3>1
    <2> QED  BY <2>2, <2>3
  <1>5. CASE n # 0
    <2>1. n \in 1..n
      BY <1>5
    <2>2. requests'[n] = Watch(view.token)
      BY <1>3, <1>4, <2>1
    <2>3. requests' # <<>>
      BY <1>4, <1>5
    <2> QED  BY <1>1, <1>2, <1>4, <2>2, <2>3 DEF Awaiting, Watch, Position, IsActive, Listening
  <1>6. CASE n = 0
    <2>1. requests' = <<>> /\ r.type = "Added" /\ d = Base(view.token)
      BY <1>3, <1>4, <1>6
    <2>2. PICK m \in Nat : m = Len(responses) + 1 /\ Len(responses') = m
                           /\ responses'[m] = r /\ Len(responses) \in Nat
      BY GivesIs
    <2>3. s[m + 1] = d
      BY <1>2, <2>2, AppendIs
    <2>4. ASSUME NEW k \in Keys PROVE Held(k, s[m + 1][k], m)'
      <3>1. PICK v : v = d[k]
        OBVIOUS
      <3>2. Held(k, v, Len(responses))
        BY <2>1, <3>1 DEF TokenFits, Tokens
      <3>3. Held(k, v, m)
        BY <2>2, <3>2, HeldLater
      <3>4. Held(k, v, m)'
        BY <3>3, HeldGives
      <3> QED  BY <2>3, <3>1, <3>4
    <2>5. Coming(s, m)'
      <3>1. \A j \in 1..Len(responses') : ~(j > m)
        BY <2>2
      <3>2. responses'[m].type = "Added" /\ s[m + 1] = Base(view'.token)
        BY <2>1, <2>2, <2>3
      <3> QED  BY <2>4, <3>1, <3>2 DEF Coming
    <2>6. m \in 1..Len(responses')
      BY <2>2
    <2>7. Awaiting(s)'
      BY <1>2, <2>1, <2>5, <2>6 DEF Awaiting
    <2> QED  BY <1>1, <1>2, <2>7 DEF Position, IsActive, Listening
  <1> QED  BY <1>5, <1>6

(* A request is answered.                                                  *)
LEMMA AnswersTruth ==
    ASSUME BooksInv, TruthInv, AskedInv, BackendAnswers
    PROVE  TruthInv'
  <1>1. /\ requests # <<>> /\ requests' = Tail(requests)
        /\ UNCHANGED <<view, keys, cached, disk, truth, unfounded, open, agg, result,
                       changes, early>>
    BY DEF BackendAnswers, BackendStep, client, failures
  <1>2. requests \in Seq(Request) /\ responses \in Seq(Response) /\ changes \in Nat
    BY DEF BooksInv, TypeOK
  <1>3. PICK u \in Request : u = Head(requests) /\ u = requests[1] /\ 1 \in 1..Len(requests)
    BY <1>1, <1>2, HeadTailProperties
  <1>4. PICK r \in Response, d \in Documents, ph \in Phase :
            /\ r.type \in {"Added", "Removed"} /\ responses' = Append(responses, r)
            /\ backend'.told = d /\ backend'.phase = ph
            /\ ~early => \A k \in Keys : d[k] <= changes + 1
            /\ u = Watch(view.token) => r.type = "Added" /\ d = Base(view.token)
    <2>1. CASE u = Unwatch
      <3>1. PICK r \in Response : r = [type |-> "Removed"] /\ r.type = "Removed"
        BY ResponseIs
      <3>2. responses' = Append(responses, r) /\ backend' = Silent
        BY <1>3, <2>1, <3>1 DEF BackendAnswers, Respond
      <3>3. backend'.told = Nothing /\ backend'.phase = "Off"
        BY <3>2 DEF Silent
      <3>4. Nothing \in Documents /\ \A k \in Keys : Nothing[k] <= changes + 1
        BY <1>2, DocumentsAre
      <3>5. u # Watch(view.token) /\ "Off" \in Phase
        BY <2>1 DEF Unwatch, Watch, Phase
      <3> QED  BY <3>1, <3>2, <3>3, <3>4, <3>5
    <2>2. CASE u # Unwatch
      <3>1. PICK r \in Response : r = [type |-> "Added"] /\ r.type = "Added"
        BY ResponseIs
      <3>2. PICK d \in Documents : d = Base(u.token)
        BY <2>2, RequestHas, BaseIs
      <3>3. /\ responses' = Append(responses, r)
            /\ backend' = [phase |-> "Sending", news |-> TRUE, told |-> d]
        BY <1>3, <2>2, <3>1, <3>2 DEF BackendAnswers, Respond, Base
      <3>4. backend'.told = d /\ backend'.phase = "Sending"
        BY <3>3
      <3>5. ~early => \A k \in Keys : d[k] <= changes + 1
        BY <1>3, <2>2, <3>2 DEF AskedInv
      <3>6. "Sending" \in Phase /\ (u = Watch(view.token) => u.token = view.token)
        BY DEF Phase, Watch
      <3> QED  BY <3>1, <3>2, <3>3, <3>4, <3>5, <3>6
    <2> QED  BY <2>1, <2>2
  <1>5. Gives(r)
    BY <1>1, <1>2, <1>4 DEF Gives
  <1>6. Link(r, backend.told, backend.phase, d, ph) /\ ~Tells(r)
    BY <1>4 DEF Link, Tells
  <1>7. ASSUME ~early, NEW t \in Seq(Documents), NEW p \in Seq(Phase), NEW s, NEW q,
               Traced(t, p), s = Append(t, d)
        PROVE  Position(s, q)'
    <2>1. \A x \in Tokens : TokenFits(x)
      BY <1>7 DEF TruthInv
    <2> QED  BY <1>1, <1>3, <1>4, <1>5, <1>7, <2>1, PositionAnswers
  <1> QED  BY <1>1, <1>4, <1>5, <1>6, <1>7, GivesTruth

-----------------------------------------------------------------------------
(* The requests under way.                                                 *)

(* Each was under way, or is an Unwatch, or has a token of the target's      *)
(* data, or none.                                                          *)
RequestsFrom ==
    \A i \in 1..Len(requests') :
        \/ \E j \in 1..Len(requests) : requests'[i] = requests[j]
        \/ requests'[i] = Unwatch
        \/ \E x \in Tokens \cup {NoToken} : requests'[i] = Watch(x)

(* That is all that is to be shown.                                        *)
LEMMA AskedFrom ==
    ASSUME BooksInv, TruthInv, AskedInv, changes' \in {changes, changes + 1},
           ~early' => ~early, RequestsFrom
    PROVE  AskedInv'
  <1>1. changes \in Nat /\ requests \in Seq(Request)
    BY DEF BooksInv, TypeOK
  <1>n. changes' \in Nat /\ changes <= changes'
    BY <1>1
  <1> SUFFICES ASSUME ~early', ~early, NEW i \in 1..Len(requests'), NEW k \in Keys,
                      NEW u, u = requests'[i], u # Unwatch
               PROVE  Base(u.token)[k] <= changes' + 1
    BY DEF AskedInv
  <1>2. CASE \E j \in 1..Len(requests) : u = requests[j]
    <2>1. PICK j \in 1..Len(requests) : u = requests[j]
      BY <1>2
    <2>2. Base(u.token)[k] <= changes + 1
      BY <2>1 DEF AskedInv
    <2>3. u.token \in Token
      BY <1>1, <2>1, RequestHas
    <2>4. Base(u.token)[k] \in Nat
      BY <2>3, BaseIs, DocumentsAre
    <2> QED  BY <1>1, <1>n, <2>2, <2>4
  <1>3. CASE \E x \in Tokens : u = Watch(x)
    <2>1. PICK x \in Tokens : u = Watch(x)
      BY <1>3
    <2>2. u.token = x
      BY <2>1 DEF Watch
    <2>3. Base(x)[k] <= changes + 1
      BY DEF TruthInv, TokenFits
    <2>4. Base(x)[k] \in Nat
      BY TokensAre, DocumentsAre
    <2> QED  BY <1>1, <1>n, <2>2, <2>3, <2>4
  <1>4. CASE u = Watch(NoToken)
    <2>1. u.token = NoToken
      BY <1>4 DEF Watch
    <2>2. Base(u.token)[k] = 0
      BY <2>1, BaseIs, DocumentsAre
    <2>3. PICK c \in Nat : c = changes'
      BY <1>n
    <2>4. 0 <= c + 1
      OBVIOUS
    <2> QED  BY <2>2, <2>3, <2>4
  <1> QED  BY <1>2, <1>3, <1>4 DEF RequestsFrom

(* One more request.                                                       *)
LEMMA OneMore ==
    ASSUME BooksInv, NEW u \in Request, requests' = Append(requests, u),
           u = Unwatch \/ \E x \in Tokens \cup {NoToken} : u = Watch(x)
    PROVE  RequestsFrom
  <1>1. requests \in Seq(Request)
    BY DEF BooksInv, TypeOK
  <1>2. PICK n \in Nat : n = Len(requests) /\ Len(requests') = n + 1 /\ requests'[n + 1] = u
                         /\ \A i \in 1..n : requests'[i] = requests[i]
    <2>1. /\ Len(requests) \in Nat /\ Len(requests') = Len(requests) + 1
          /\ requests'[Len(requests) + 1] = u
          /\ \A i \in 1..Len(requests) : requests'[i] = requests[i]
      BY <1>1, AppendProperties
    <2> QED  BY <2>1
  <1> SUFFICES ASSUME NEW i \in 1..Len(requests')
               PROVE  \/ \E j \in 1..Len(requests) : requests'[i] = requests[j]
                      \/ requests'[i] = Unwatch
                      \/ \E x \in Tokens \cup {NoToken} : requests'[i] = Watch(x)
    BY DEF RequestsFrom
  <1>3. i = n + 1 \/ i \in 1..n
    BY <1>2
  <1>4. CASE i = n + 1
    BY <1>2, <1>4
  <1>5. CASE i \in 1..n
    BY <1>2, <1>5
  <1> QED  BY <1>3, <1>4, <1>5

(* The requests are the same, fewer, or none.                              *)
LEMMA NoMore ==
    ASSUME BooksInv,
           \/ requests' \in {requests, <<>>}
           \/ requests # <<>> /\ requests' = Tail(requests)
    PROVE  RequestsFrom
  <1>1. requests \in Seq(Request)
    BY DEF BooksInv, TypeOK
  <1>2. CASE requests' = requests
    BY <1>2 DEF RequestsFrom
  <1>3. CASE requests' = <<>>
    BY <1>3 DEF RequestsFrom
  <1>4. CASE requests # <<>> /\ requests' = Tail(requests)
    <2>1. /\ Len(requests) \in Nat /\ Len(requests') = Len(requests) - 1
          /\ \A i \in 1..Len(requests) - 1 : requests'[i] = requests[i + 1]
      BY <1>1, <1>4, HeadTailProperties
    <2>2. ASSUME NEW i \in 1..Len(requests')
          PROVE  \E j \in 1..Len(requests) : requests'[i] = requests[j]
      <3>1. i + 1 \in 1..Len(requests) /\ requests'[i] = requests[i + 1]
        BY <2>1
      <3> QED  BY <3>1
    <2> QED  BY <2>2 DEF RequestsFrom
  <1> QED  BY <1>2, <1>3, <1>4

(* Two more: the target in mismatch is watched again without a token.      *)
LEMMA TwoMore ==
    ASSUME BooksInv, requests' = requests \o <<Unwatch, Watch(NoToken)>>
    PROVE  RequestsFrom
  <1>1. PICK u, w \in Request : u = Unwatch /\ w = Watch(NoToken)
    <2>1. NoToken \in Token
      BY DEF Token
    <2> QED  BY <2>1, RequestHas
  <1>2. PICK z : z = <<u, w>>
    OBVIOUS
  <1>3. z \in Seq(Request) /\ Len(z) = 2 /\ z[1] = u /\ z[2] = w
    BY <1>2
  <1>4. requests \in Seq(Request) /\ Len(requests) \in Nat /\ requests' = requests \o z
    BY <1>1, <1>2 DEF BooksInv, TypeOK
  <1>5. /\ Len(requests') = Len(requests) + 2
        /\ \A i \in 1..Len(requests') :
              requests'[i] = IF i <= Len(requests) THEN requests[i]
                                                   ELSE z[i - Len(requests)]
    BY <1>3, <1>4, ConcatProperties
  <1> SUFFICES ASSUME NEW i \in 1..Len(requests')
               PROVE  \/ \E j \in 1..Len(requests) : requests'[i] = requests[j]
                      \/ requests'[i] = Unwatch
                      \/ \E x \in Tokens \cup {NoToken} : requests'[i] = Watch(x)
    BY DEF RequestsFrom
  <1>6. CASE i <= Len(requests)
    <2>1. i \in 1..Len(requests) /\ requests'[i] = requests[i]
      BY <1>4, <1>5, <1>6
    <2> QED  BY <2>1
  <1>7. CASE ~(i <= Len(requests))
    <2>1. requests'[i] = z[i - Len(requests)] /\ i - Len(requests) \in {1, 2}
      BY <1>4, <1>5, <1>7
    <2>2. requests'[i] \in {u, w}
      BY <1>3, <2>1
    <2> QED  BY <1>1, <2>2
  <1> QED  BY <1>6, <1>7

(* Every step asks with such tokens only.                                  *)
LEMMA AskedStep ==
    ASSUME BooksInv, TruthInv, AskedInv, [Next]_vars
    PROVE  AskedInv'
  <1>1. CASE Listen \/ StopListening
    <2>1. UNCHANGED <<changes, early>>
      BY <1>1 DEF Listen, StopListening, failures
    <2>2. CASE ~open
      BY <1>1, <2>1, <2>2, NoMore, AskedFrom DEF Listen, StopListening
    <2>3. CASE Listen /\ open
      <3>1. requests' = Append(requests, Watch(disk)) /\ disk \in Token /\ disk \in Tokens
        BY <2>3 DEF Listen, BooksInv, TypeOK, Tokens
      <3>2. PICK u \in Request : u = Watch(disk)
        BY <3>1, RequestHas
      <3> QED  BY <2>1, <3>1, <3>2, OneMore, AskedFrom
    <2>4. CASE StopListening /\ open
      <3>1. requests' = Append(requests, Unwatch) /\ Unwatch \in Request
        BY <2>4, RequestHas DEF StopListening
      <3> QED  BY <2>1, <3>1, OneMore, AskedFrom
    <2> QED  BY <1>1, <2>2, <2>3, <2>4
  <1>2. CASE GoOffline \/ UNCHANGED vars
    <2>1. UNCHANGED <<requests, changes, early>>
      BY <1>2 DEF GoOffline, vars, failures
    <2> QED  BY <2>1, NoMore, AskedFrom
  <1>3. CASE StreamOpens
    <2>1. UNCHANGED <<changes, early>> /\ requests = <<>>
      BY <1>3 DEF StreamOpens, failures, BooksInv, ClosedIsQuiet
    <2>2. CASE ~Listening
      BY <1>3, <2>1, <2>2, NoMore, AskedFrom DEF StreamOpens
    <2>3. CASE Listening
      <3>1. view.token \in Tokens /\ view.token \in Token
        BY <2>3, TokensAre DEF Tokens
      <3>2. PICK u \in Request : u = Watch(view.token)
        BY <3>1, RequestHas
      <3>3. requests' = Append(requests, u)
        BY <1>3, <2>1, <2>3, <3>2 DEF StreamOpens
      <3> QED  BY <2>1, <3>1, <3>2, <3>3, OneMore, AskedFrom
    <2> QED  BY <2>2, <2>3
  <1>4. CASE StreamBreaks \/ AppRestart
    <2>1. UNCHANGED <<changes, early>> /\ requests' = <<>>
      BY <1>4 DEF StreamBreaks, AppRestart, failures
    <2> QED  BY <2>1, NoMore, AskedFrom
  <1>5. CASE Reading
    <2>1. CASE ReadSnapshot
      <3>1. PICK x, f, event, mismatch :
                /\ x = Head(responses).token /\ f = Fed(x) /\ event = Raised(x)
                /\ mismatch = (agg.reset /\ Listening)
        OBVIOUS
      <3>2. Snapped(x, f, event, mismatch)
        BY <2>1, <3>1, SnapshotIs
      <3>3. /\ UNCHANGED <<changes, early>>
            /\ \/ requests' = requests
               \/ requests' = requests \o <<Unwatch, Watch(NoToken)>>
        BY <3>2 DEF Snapped
      <3> QED  BY <3>3, NoMore, TwoMore, AskedFrom
    <2>2. CASE ReadFailed
      <3>1. UNCHANGED <<changes, requests>> /\ (~early' => ~early)
        BY <2>2 DEF ReadFailed
      <3> QED  BY <3>1, NoMore, AskedFrom
    <2>3. CASE ~(ReadSnapshot \/ ReadFailed)
      <3>1. PICK a : Handle(a)
        BY <1>5, <2>3 DEF Reading, ReadAdded, ReadRemoved, ReadCurrent, ReadReset,
            ReadDocument, ReadDeleted, ReadLeft, ReadLookup, ReadFilter
      <3>2. UNCHANGED <<changes, requests, early>>
        BY <3>1 DEF Handle, failures
      <3> QED  BY <3>2, NoMore, AskedFrom
    <2> QED  BY <2>1, <2>2, <2>3
  <1>6. ASSUME NEW k \in Keys, ResultChanges(k) PROVE AskedInv'
    <2>1. changes' = changes + 1 /\ UNCHANGED <<requests, early>>
      BY <1>6 DEF ResultChanges, failures
    <2> QED  BY <2>1, NoMore, AskedFrom
  <1>7. CASE BackendAnswers
    <2>1. /\ UNCHANGED <<changes, early>>
          /\ requests # <<>> /\ requests' = Tail(requests)
      BY <1>7 DEF BackendAnswers, BackendStep, failures
    <2> QED  BY <2>1, NoMore, AskedFrom
  <1>8. CASE BackendSends \/ SendFailure
    <2>1. UNCHANGED <<changes, requests, early>>
      BY <1>8 DEF BackendSends, SendFailure, SendDocument, SendRemoval, SendLookup,
        SendFilter, SendReset, SendCurrent, SendSnapshot, Sends, BackendStep, failures
    <2> QED  BY <2>1, NoMore, AskedFrom
  <1> QED  BY <1>1, <1>2, <1>3, <1>4, <1>5, <1>6, <1>7, <1>8 DEF Next

-----------------------------------------------------------------------------
(* The theorems.                                                           *)

(* Every step keeps the second invariant.                                  *)
LEMMA TruthStep ==
    ASSUME BooksInv, BooksInv', TruthInv, AskedInv, [Next]_vars
    PROVE  TruthInv'
  <1>1. CASE Listen \/ StopListening
    BY <1>1, AskTruth
  <1>2. CASE GoOffline \/ UNCHANGED vars
    BY <1>2, OfflineTruth
  <1>3. CASE StreamOpens
    BY <1>3, OpensTruth
  <1>4. CASE StreamBreaks \/ AppRestart
    BY <1>4, BreaksTruth
  <1>5. CASE Reading
    BY <1>5, AddedTruth, RemovedTruth, CurrentTruth, ResetTruth, DocumentTruth,
        RemovalTruth, LookupTruth, FilterTruth, FailedTruth, SnapshotTruth DEF Reading
  <1>6. ASSUME NEW k \in Keys, ResultChanges(k) PROVE TruthInv'
    BY <1>6, ResultTruth
  <1>7. CASE BackendAnswers
    BY <1>7, AnswersTruth
  <1>8. CASE BackendSends \/ SendFailure
    BY <1>8, SendsTruth
  <1> QED  BY <1>1, <1>2, <1>3, <1>4, <1>5, <1>6, <1>7, <1>8 DEF Next

(* TruthInv is an invariant.                                               *)
LEMMA TruthHolds == Spec => [](BooksInv /\ TruthInv)
  <1>1. Init => TruthInv /\ AskedInv
    BY TruthInit DEF Init, AskedInv
  <1>2. BooksInv /\ BooksInv' /\ TruthInv /\ AskedInv /\ [Next]_vars
            => TruthInv' /\ AskedInv'
    BY TruthStep, AskedStep
  <1> QED  BY <1>1, <1>2, BooksHold, PTL DEF Spec

(* A stored resume token goes with the stored keys wherever a stream broke,   *)
(* the target was unwatched or the app was killed: ApplyRemoteEvent() and      *)
(* ReleaseTarget() never save a token that promises documents the client does *)
(* not have, or hides some that it has.                                    *)
THEOREM TokensMatch == Spec => []TokenMatchesKeys
  <1>1. BooksInv /\ TruthInv => TokenMatchesKeys
    <2> SUFFICES ASSUME BooksInv, TruthInv, disk # NoToken, ~early
                 PROVE  /\ Present(disk) \subseteq keys
                        /\ keys \subseteq Present(disk) \cup unfounded
      BY DEF TokenMatchesKeys
    <2>1. TokenFits(disk) /\ Base(disk) = disk
      BY DEF TruthInv, Tokens, Base
    <2>2. keys \subseteq Keys
      BY DEF BooksInv, TypeOK
    <2> QED  BY <2>1, <2>2 DEF TokenFits, Present
  <1> QED  BY <1>1, TruthHolds, PTL

(* A view that is in sync shows the result of its query at the snapshot's      *)
(* time, document by document: whatever messages of an earlier life of the     *)
(* target were under way, wherever the stream was resumed, reset, or found in  *)
(* mismatch by an existence filter, and whichever documents in limbo were      *)
(* looked up.                                                              *)
THEOREM SyncedIsRight == Spec => []SyncedIsTrue
  <1>1. BooksInv /\ TruthInv => SyncedIsTrue
    <2> SUFFICES ASSUME BooksInv, TruthInv, Synced, ~view.carried, unfounded = {}, ~early
                 PROVE  cached = truth
      BY DEF SyncedIsTrue
    <2>1. \A k \in Keys : truth[k] # 0 \/ k \in keys => cached[k] = truth[k]
      BY DEF TruthInv, Viewed, Synced
    <2>2. \A k \in Keys : k \notin keys => cached[k] = 0
      BY DEF Synced, Present
    <2>3. cached \in [Keys -> Versions] /\ truth \in [Keys -> Versions]
      BY DEF BooksInv, TypeOK, Documents
    <2>4. \A k \in Keys : cached[k] = truth[k]
      BY <2>1, <2>2
    <2> QED  BY <2>3, <2>4
  <1> QED  BY <1>1, TruthHolds, PTL
=============================================================================
