------------------------- MODULE WritePipelineProofs -------------------------
(***************************************************************************)
(* Proofs about the write path of the Firestore client, for every number    *)
(* of accounts, documents, faults and calls, and every size of the          *)
(* pipeline: the pipeline stays in step with the queue on disk and with the  *)
(* stream, futures and waiters are told the truth, and the write path        *)
(* implements OrderStore, on which the booking flow is built.              *)
(***************************************************************************)
EXTENDS WritePipeline, FiniteSetTheorems, SequenceTheorems,
        WellFoundedInduction, TLAPS

-----------------------------------------------------------------------------
(* The inductive invariant.  What concerns one queue or one RemoteStore is   *)
(* stated of a given one.                                                  *)

(* The rows of a queue are in the order of their ids and of their documents. *)
Ordered(q) ==
    \A i, j \in 1..Len(q) : i < j => q[i].id < q[j].id /\ q[i].doc < q[j].doc

(* The rows of u's queue q hold documents of u; the ids given out next are   *)
(* larger than all of them.                                                *)
Owned(q, u) ==
    \A i \in 1..Len(q) :
        /\ q[i].id < nextBatchId
        /\ q[i].doc \in 1..Len(placed)
        /\ placed[q[i].doc] = u

QueuesSound ==
    /\ nextBatchId <= Len(placed) + 1
    /\ \A u \in Users :
            Ordered(mutationQueue[u]) /\ Owned(mutationQueue[u], u)

(* The pipeline of r holds rows of q from the first one on ...             *)
Begins(r, q) ==
    /\ Len(r.pipeline) <= Len(q)
    /\ Len(r.pipeline) <= MaxPendingWrites
    /\ \A i \in 1..Len(r.pipeline) : r.pipeline[i] = q[i]

(* ... and as many as there are or as it has room for.                     *)
Full(r, q) ==
    r.enabled =>
        /\ Begins(r, q)
        /\ Len(r.pipeline) \in {Len(q), MaxPendingWrites}

(* The answers to be read and the requests to be processed are those of the  *)
(* pipeline.                                                               *)
InStep(pipeline, responses, requests) ==
    /\ Len(pipeline) = Len(responses) + Len(requests)
    /\ \A i \in 1..Len(responses) : responses[i].doc = pipeline[i].doc
    /\ \A i \in 1..Len(requests) :
            requests[i] = pipeline[Len(responses) + i].doc

(* An answer to be read says what the backend did; nothing follows a        *)
(* refusal.  `held' are the documents the backend has.                     *)
Answered(responses, held, refused) ==
    \A i \in 1..Len(responses) :
        \/ responses[i].kind = "result" /\ responses[i].doc \in held
        \/ /\ responses[i].kind = "refusal" /\ responses[i].doc \in refused
           /\ i = Len(responses)

(* All that is left to be read is a refusal, which overtook other answers.  *)
OutOfStep(pipeline, responses) ==
    /\ pipeline # <<>>
    /\ Len(responses) = 1
    /\ responses[1].kind = "refusal"

(* What was sent and what is to be read after the handshake.               *)
Correlated(r, held, refused, late) ==
    \/ /\ InStep(r.pipeline, r.responses, r.requests)
       /\ Answered(r.responses, held, refused)
    \/ late # 0 /\ OutOfStep(r.pipeline, r.responses)

(* The stream of r agrees with the rest of r.                              *)
Wired(r, held, refused, late) ==
    /\ r.ok
    /\ ~r.enabled => r.pipeline = <<>> /\ ~IsStarted(r.stream)
    /\ ~IsOpen(r.stream) =>
            ~r.handshake /\ r.requests = <<>> /\ r.responses = <<>>
    /\ IsStarted(r.stream) /\ ~r.handshake => r.pipeline # <<>>
    /\ IsOpen(r.stream) /\ ~r.handshake =>
            \/ r.requests = <<Handshake>> /\ r.responses = <<>>
            \/ /\ r.requests = <<>>
               /\ r.responses = <<[kind |-> "handshake", doc |-> Handshake]>>
    /\ r.stream.idle => r.handshake /\ r.pipeline = <<>>
    /\ r.handshake => Correlated(r, held, refused, late)

(* A callback is registered for a batch that is on disk.                   *)
CallbacksBacked ==
    \A c \in mutationCallbacks :
        \E i \in 1..Len(mutationQueue[c.user]) :
            /\ mutationQueue[c.user][i].id = c.id
            /\ mutationQueue[c.user][i].doc = c.doc

(* A future waits for a batch on disk, and was told the truth about one     *)
(* that is not.                                                            *)
FuturesSound ==
    \A f \in futures :
        /\ f.order <= Len(placed)
        /\ f.status = "waiting" => \E c \in mutationCallbacks : c.doc = f.order
        /\ f.status # "waiting" => \A u \in Users : ~Pending(u, f.order)
        /\ f.status = "ok" => f.order \in server
        /\ f.status = "error" /\ overtaken = 0 => f.order \in bad

(* A document on neither side was given up.                                *)
NoneLost ==
    \A d \in 1..Len(placed) : Pending(placed[d], d) \/ d \in server \cup rejected

(* A waiter that waits is the current user's, and no document it waits for   *)
(* comes after its batch.                                                  *)
WaitersSound ==
    /\ IsFiniteSet(waiters)
    /\ \A w \in waiters :
        /\ w.docs \subseteq 1..Len(placed)
        /\ w.status = "ok" => \A d \in w.docs : ~Pending(w.user, d)
        /\ w.status = "waiting" =>
            /\ w.user = user
            /\ \A i \in 1..Len(mutationQueue[user]) :
                    mutationQueue[user][i].doc \in w.docs =>
                        mutationQueue[user][i].id <= w.id

PipelineInv ==
    /\ TypeOK
    /\ QueuesSound
    /\ Full(rs, mutationQueue[user])
    /\ Wired(rs, server, bad, overtaken)
    /\ server \cap bad = {}
    /\ CallbacksBacked
    /\ FuturesSound
    /\ NoneLost
    /\ WaitersSound

-----------------------------------------------------------------------------
(* Numbers and sequences.                                                  *)

(* A set of natural numbers has a least one.                               *)
LEMMA NatMin ==
    ASSUME NEW T \in SUBSET Nat, T # {}
    PROVE  \E x \in T : \A y \in T : x <= y
  <1>1. \E x \in T : \A y \in T : ~(<<y, x>> \in OpToRel(<, Nat))
    BY NatLessThanWellFounded, WFMin
  <1>2. \A x, y \in T : ~(<<y, x>> \in OpToRel(<, Nat)) => x <= y
    BY DEF OpToRel
  <1> QED  BY <1>1, <1>2

(* A bounded set of natural numbers has a largest one, which Max finds.    *)
LEMMA NatMax ==
    ASSUME NEW n \in Nat, NEW T \in SUBSET (0..n), T # {}
    PROVE  Max(T) \in T /\ \A y \in T : y <= Max(T)
  <1> DEFINE U == {n - x : x \in T}
  <1>1. U \in SUBSET Nat
    OBVIOUS
  <1>2. U # {}
    <2>1. PICK x : x \in T
      OBVIOUS
    <2>2. n - x \in U
      BY <2>1
    <2> QED  BY <2>2
  <1>3. PICK u \in U : \A v \in U : u <= v
    <2> HIDE DEF U
    <2> QED  BY <1>1, <1>2, NatMin
  <1>4. PICK x \in T : u = n - x
    BY <1>3
  <1>5. ASSUME NEW y \in T PROVE y <= x
    <2>1. n - y \in U
      OBVIOUS
    <2> HIDE DEF U
    <2> QED  BY <1>3, <1>4, <2>1
  <1>6. x \in T /\ \A y \in T : x >= y
    BY <1>5
  <1> QED  BY <1>6 DEF Max

(* Min finds the least element of a set that has one.                      *)
LEMMA MinIs ==
    ASSUME NEW S \in SUBSET Int, NEW m \in S, \A y \in S : m <= y
    PROVE  Min(S) = m
  <1>1. Min(S) \in S /\ \A y \in S : Min(S) <= y
    BY DEF Min
  <1>2. Min(S) \in Int /\ m \in Int /\ Min(S) <= m /\ m <= Min(S)
    BY <1>1
  <1>3. \A a, b \in Int : a <= b /\ b <= a => a = b
    OBVIOUS
  <1> QED  BY <1>2, <1>3

(* The lesser of two numbers.                                              *)
LEMMA MinOfTwo ==
    ASSUME NEW a \in Int, NEW b \in Int
    PROVE  Min({a, b}) = IF a <= b THEN a ELSE b
  <1>1. CASE a <= b
    BY <1>1, MinIs
  <1>2. CASE ~(a <= b)
    BY <1>2, MinIs
  <1> QED  BY <1>1, <1>2

(* The rest of a sequence, named.                                          *)
LEMMA Rest ==
    ASSUME NEW S, NEW s \in Seq(S), s # <<>>
    PROVE  /\ Len(s) \in Nat /\ Len(s) >= 1 /\ Head(s) = s[1] /\ s[1] \in S
           /\ \E t \in Seq(S) :
                /\ t = Tail(s) /\ Len(t) = Len(s) - 1
                /\ \A i \in 1..(Len(s) - 1) : t[i] = s[i + 1]
  <1>1. Len(s) \in Nat /\ Len(s) >= 1 /\ Head(s) = s[1] /\ s[1] \in S
    OBVIOUS
  <1>2. /\ Tail(s) \in Seq(S) /\ Len(Tail(s)) = Len(s) - 1
        /\ \A i \in 1..(Len(s) - 1) : Tail(s)[i] = s[i + 1]
    BY HeadTailProperties
  <1> QED  BY <1>1, <1>2

(* The rows of a queue.                                                    *)
LEMMA RowType ==
    ASSUME NEW q \in Seq(Batch)
    PROVE  /\ Len(q) \in Nat
           /\ \A i \in 1..Len(q) :
                /\ q[i] \in Batch
                /\ q[i].id \in 1..MaxOrders /\ q[i].id \in Nat /\ q[i].id > 0
                /\ q[i].doc \in 1..MaxOrders /\ q[i].doc \in Nat
  <1>1. \A b \in Batch :
            /\ b.id \in 1..MaxOrders /\ b.id \in Nat /\ b.id > 0
            /\ b.doc \in 1..MaxOrders /\ b.doc \in Nat
    BY DEF Batch
  <1>2. Len(q) \in Nat /\ \A i \in 1..Len(q) : q[i] \in Batch
    OBVIOUS
  <1> QED  BY <1>1, <1>2

(* Docs names the documents, in order.                                     *)
LEMMA DocsType ==
    ASSUME NEW q \in Seq(Batch)
    PROVE  /\ Docs(q) \in Seq(1..MaxOrders)
           /\ Len(Docs(q)) = Len(q)
           /\ \A i \in 1..Len(q) : Docs(q)[i] = q[i].doc
           /\ Docs(q) \in Seq(0..MaxOrders)
  <1>1. \A i \in 1..Len(q) : q[i].doc \in 1..MaxOrders
    BY RowType
  <1>2. Len(q) \in Nat
    OBVIOUS
  <1>3. Docs(q) \in Seq(1..MaxOrders) /\ Len(Docs(q)) = Len(q)
    BY <1>1, <1>2 DEF Docs
  <1>4. \A i \in 1..Len(q) : Docs(q)[i] = q[i].doc
    BY DEF Docs
  <1>5. 1..MaxOrders \subseteq 0..MaxOrders
    BY WritePipelineAssumption
  <1>6. Docs(q) \in Seq(0..MaxOrders)
    BY <1>3, <1>5, SeqMonotonic
  <1> QED  BY <1>3, <1>4, <1>6

(* The rows after the n-th one are those that remain.                      *)
LEMMA RestAfter ==
    ASSUME NEW q \in Seq(Batch), Ordered(q), NEW n \in 0..Len(q), NEW id,
           id = IF n = 0 THEN 0 ELSE q[n].id
    PROVE  /\ BatchesAfter(q, id) \in Seq(Batch)
           /\ Len(BatchesAfter(q, id)) = Len(q) - n
           /\ \A i \in 1..(Len(q) - n) : BatchesAfter(q, id)[i] = q[n + i]
  <1> DEFINE after == {i \in 1..Len(q) : q[i].id > id}
  <1>1. /\ Len(q) \in Nat
        /\ \A i \in 1..Len(q) : q[i] \in Batch /\ q[i].id \in Nat /\ q[i].id > 0
    BY RowType
  <1>2. \A i \in 1..Len(q) : q[i].id > id <=> i > n
    BY <1>1 DEF Ordered
  <1>3. CASE n = Len(q)
    <2>1. after = {}
      BY <1>1, <1>2, <1>3
    <2>2. BatchesAfter(q, id) = <<>>
      BY <2>1 DEF BatchesAfter
    <2>3. <<>> \in Seq(Batch) /\ Len(<<>>) = 0
      OBVIOUS
    <2>4. Len(q) - n = 0 /\ 1..(Len(q) - n) = {}
      BY <1>1, <1>3
    <2> HIDE DEF after
    <2> QED  BY <2>2, <2>3, <2>4
  <1>4. CASE n # Len(q)
    <2>1. n + 1 \in after /\ \A i \in after : n + 1 <= i
      BY <1>1, <1>2, <1>4
    <2>2. after \in SUBSET Int
      BY <1>1
    <2>3. Min(after) = n + 1 /\ after # {}
      <3> HIDE DEF after
      <3> QED  BY <2>1, <2>2, MinIs
    <2>4. BatchesAfter(q, id) = SubSeq(q, n + 1, Len(q))
      BY <2>3 DEF BatchesAfter
    <2>5. \A i \in (n + 1)..Len(q) : q[i] \in Batch
      BY <1>1
    <2> HIDE DEF after
    <2>6. /\ SubSeq(q, n + 1, Len(q)) \in Seq(Batch)
          /\ Len(SubSeq(q, n + 1, Len(q))) = Len(q) - n
          /\ \A i \in 1..(Len(q) - n) : SubSeq(q, n + 1, Len(q))[i] = q[n + i]
      BY <1>1, <1>4, <2>5, SubSeqProperties
    <2> QED  BY <2>4, <2>6
  <1> QED  BY <1>3, <1>4

(* Removing the first row.                                                 *)
LEMMA RemoveFirstRow ==
    ASSUME NEW q \in Seq(Batch), Ordered(q), q # <<>>
    PROVE  RemoveMutationBatch(q, q[1]) = Tail(q)
  <1> DEFINE at == {i \in 1..Len(q) : q[i].id = q[1].id}
  <1>1. /\ Len(q) \in Nat /\ Len(q) >= 1
        /\ \A i \in 1..Len(q) : q[i] \in Batch /\ q[i].id \in Nat
    BY RowType
  <1>2. \A i \in 1..Len(q) : q[i].id = q[1].id <=> i = 1
    BY <1>1 DEF Ordered
  <1>3. 1 \in at /\ at \in SUBSET Int /\ \A i \in at : 1 <= i
    BY <1>1, <1>2
  <1>4. Min(at) = 1 /\ at # {}
    <2> HIDE DEF at
    <2> QED  BY <1>3, MinIs
  <1>5. RemoveMutationBatch(q, q[1]) = RemoveAt(q, 1)
    BY <1>4 DEF RemoveMutationBatch
  <1>6. SubSeq(q, 1, 0) = <<>>
    BY <1>1
  <1>7. SubSeq(q, 2, Len(q)) \in Seq(Batch) /\ Tail(q) = SubSeq(q, 2, Len(q))
    BY <1>1
  <1>8. RemoveAt(q, 1) = SubSeq(q, 1, 0) \o SubSeq(q, 2, Len(q))
    BY DEF RemoveAt
  <1> QED  BY <1>5, <1>6, <1>7, <1>8, ConcatEmptySeq

(* Adding a row with a larger id than the others.                          *)
LEMMA AddLastRow ==
    ASSUME NEW q \in Seq(Batch), NEW b \in Batch,
           \A i \in 1..Len(q) : q[i].id < b.id
    PROVE  AddMutationBatch(q, b) = Append(q, b)
  <1>1. \A i \in 1..Len(q) : q[i].id \in Int
    BY RowType
  <1>3. b.id \in Int
    BY DEF Batch
  <1>2. {i \in 1..Len(q) : q[i].id = b.id} = {}
    BY <1>1, <1>3
  <1> QED  BY <1>2 DEF AddMutationBatch, RemoveMutationBatch

(* The pipeline and the requests grow by the same batches.                 *)
LEMMA InStepMore ==
    ASSUME NEW p \in Seq(Batch), NEW a \in Seq(Response),
           NEW s \in Seq(0..MaxOrders), NEW more \in Seq(Batch), InStep(p, a, s)
    PROVE  InStep(p \o more, a, s \o Docs(more))
  <1>1. PICK d \in Seq(0..MaxOrders) :
            /\ d = Docs(more) /\ Len(d) = Len(more)
            /\ \A i \in 1..Len(more) : d[i] = more[i].doc
    BY DocsType
  <1>2. /\ Len(p) \in Nat /\ Len(a) \in Nat /\ Len(s) \in Nat
        /\ Len(more) \in Nat /\ Len(p) = Len(a) + Len(s)
    BY DEF InStep
  <1>3. PICK pm \in Seq(Batch) :
            /\ pm = p \o more /\ Len(pm) = Len(p) + Len(more)
            /\ \A i \in 1..Len(p) : pm[i] = p[i]
            /\ \A i \in 1..Len(more) : pm[Len(p) + i] = more[i]
    <2>1. /\ p \o more \in Seq(Batch) /\ Len(p \o more) = Len(p) + Len(more)
          /\ \A i \in 1..Len(p) : (p \o more)[i] = p[i]
          /\ \A i \in 1..Len(more) : (p \o more)[Len(p) + i] = more[i]
      OBVIOUS
    <2> QED  BY <2>1
  <1>4. PICK sd \in Seq(0..MaxOrders) :
            /\ sd = s \o d /\ Len(sd) = Len(s) + Len(d)
            /\ \A i \in 1..Len(s) : sd[i] = s[i]
            /\ \A i \in 1..Len(d) : sd[Len(s) + i] = d[i]
    <2>1. /\ s \o d \in Seq(0..MaxOrders) /\ Len(s \o d) = Len(s) + Len(d)
          /\ \A i \in 1..Len(s) : (s \o d)[i] = s[i]
          /\ \A i \in 1..Len(d) : (s \o d)[Len(s) + i] = d[i]
      OBVIOUS
    <2> QED  BY <2>1
  <1>5. \A i \in 1..Len(a) : a[i].doc = pm[i].doc
    BY <1>2, <1>3 DEF InStep
  <1>6. ASSUME NEW i \in 1..Len(sd) PROVE sd[i] = pm[Len(a) + i].doc
    <2>1. CASE i <= Len(s)
      <3>1. sd[i] = s[i] /\ s[i] = p[Len(a) + i].doc
        BY <1>2, <1>4, <2>1 DEF InStep
      <3>2. Len(a) + i \in 1..Len(p)
        BY <1>2, <1>4, <2>1
      <3> QED  BY <1>3, <3>1, <3>2
    <2>2. CASE ~(i <= Len(s))
      <3>1. i - Len(s) \in 1..Len(more) /\ i = Len(s) + (i - Len(s))
            /\ Len(a) + i = Len(p) + (i - Len(s))
        BY <1>1, <1>2, <1>4, <2>2
      <3>2. PICK j \in 1..Len(more) :
                j = i - Len(s) /\ i = Len(s) + j /\ Len(a) + i = Len(p) + j
        BY <3>1
      <3> QED  BY <1>1, <1>3, <1>4, <3>2
    <2> QED  BY <2>1, <2>2
  <1>7. Len(pm) = Len(a) + Len(sd)
    BY <1>1, <1>2, <1>3, <1>4
  <1>8. InStep(pm, a, sd)
    BY <1>5, <1>6, <1>7 DEF InStep
  <1> QED  BY <1>1, <1>3, <1>4, <1>8

(* An answer is read and its batch leaves the pipeline.                    *)
LEMMA InStepRead ==
    ASSUME NEW p \in Seq(Batch), NEW a \in Seq(Response),
           NEW s \in Seq(0..MaxOrders), InStep(p, a, s), a # <<>>
    PROVE  /\ p # <<>> /\ Head(p) = p[1] /\ Head(a) = a[1]
           /\ p[1].doc = a[1].doc
           /\ InStep(Tail(p), Tail(a), s)
  <1>1. /\ Len(p) \in Nat /\ Len(a) \in Nat /\ Len(s) \in Nat
        /\ Len(p) = Len(a) + Len(s) /\ Len(a) >= 1 /\ Len(p) >= 1
    BY DEF InStep
  <1>2. p # <<>> /\ Head(p) = p[1] /\ Head(a) = a[1] /\ p[1].doc = a[1].doc
    BY <1>1 DEF InStep
  <1>3. PICK t \in Seq(Batch) :
            /\ t = Tail(p) /\ Len(t) = Len(p) - 1
            /\ \A i \in 1..(Len(p) - 1) : t[i] = p[i + 1]
    BY <1>2, Rest
  <1>4. PICK b \in Seq(Response) :
            /\ b = Tail(a) /\ Len(b) = Len(a) - 1
            /\ \A i \in 1..(Len(a) - 1) : b[i] = a[i + 1]
    BY Rest
  <1>5. Len(t) = Len(b) + Len(s)
    BY <1>1, <1>3, <1>4
  <1>6. ASSUME NEW i \in 1..Len(b) PROVE b[i].doc = t[i].doc
    <2>1. i + 1 \in 1..Len(a) /\ i \in 1..(Len(p) - 1) /\ i \in 1..(Len(a) - 1)
      BY <1>1, <1>4
    <2> QED  BY <1>3, <1>4, <2>1 DEF InStep
  <1>7. ASSUME NEW i \in 1..Len(s) PROVE s[i] = t[Len(b) + i].doc
    <2>1. Len(b) + i \in 1..(Len(p) - 1) /\ Len(b) + i + 1 = Len(a) + i
      BY <1>1, <1>4
    <2> QED  BY <1>3, <2>1 DEF InStep
  <1>8. InStep(t, b, s)
    BY <1>5, <1>6, <1>7 DEF InStep
  <1> QED  BY <1>2, <1>3, <1>4, <1>8

(* The backend answers the next request.                                   *)
LEMMA InStepAnswer ==
    ASSUME NEW p \in Seq(Batch), NEW a \in Seq(Response),
           NEW s \in Seq(0..MaxOrders), NEW x \in Response,
           InStep(p, a, s), s # <<>>, x.doc = Head(s)
    PROVE  InStep(p, Append(a, x), Tail(s))
  <1>1. /\ Len(p) \in Nat /\ Len(a) \in Nat /\ Len(s) \in Nat
        /\ Len(p) = Len(a) + Len(s) /\ Len(s) >= 1 /\ Head(s) = s[1]
    BY DEF InStep
  <1>2. PICK b \in Seq(Response) :
            /\ b = Append(a, x) /\ Len(b) = Len(a) + 1
            /\ \A i \in 1..Len(a) : b[i] = a[i]
            /\ b[Len(a) + 1] = x
    <2>1. /\ Append(a, x) \in Seq(Response) /\ Len(Append(a, x)) = Len(a) + 1
          /\ \A i \in 1..Len(a) : Append(a, x)[i] = a[i]
          /\ Append(a, x)[Len(a) + 1] = x
      OBVIOUS
    <2> QED  BY <2>1
  <1>3. PICK t \in Seq(0..MaxOrders) :
            /\ t = Tail(s) /\ Len(t) = Len(s) - 1
            /\ \A i \in 1..(Len(s) - 1) : t[i] = s[i + 1]
    BY Rest
  <1>4. Len(p) = Len(b) + Len(t)
    BY <1>1, <1>2, <1>3
  <1>5. x.doc = p[Len(a) + 1].doc
    BY <1>1 DEF InStep
  <1>6. ASSUME NEW i \in 1..Len(b) PROVE b[i].doc = p[i].doc
    <2>1. CASE i \in 1..Len(a)
      BY <1>2, <2>1 DEF InStep
    <2>2. CASE i = Len(a) + 1
      BY <1>2, <1>5, <2>2
    <2> QED  BY <1>1, <1>2, <2>1, <2>2
  <1>7. ASSUME NEW i \in 1..Len(t) PROVE t[i] = p[Len(b) + i].doc
    <2>1. i \in 1..(Len(s) - 1) /\ i + 1 \in 1..Len(s)
          /\ Len(a) + (i + 1) = Len(b) + i
      BY <1>1, <1>2, <1>3
    <2> QED  BY <1>3, <2>1 DEF InStep
  <1>8. InStep(p, b, t)
    BY <1>4, <1>6, <1>7 DEF InStep
  <1> QED  BY <1>2, <1>3, <1>8

(* The whole pipeline is sent.                                             *)
LEMMA InStepSent ==
    ASSUME NEW p \in Seq(Batch)
    PROVE  InStep(p, <<>>, Docs(p))
  <1>1. /\ Len(p) \in Nat /\ Len(Docs(p)) = Len(p)
        /\ \A i \in 1..Len(p) : Docs(p)[i] = p[i].doc
    BY DocsType
  <1>2. Len(<<>>) = 0 /\ 1..0 = {} /\ \A i \in 1..Len(p) : 0 + i = i
    BY <1>1
  <1> QED  BY <1>1, <1>2 DEF InStep

(* What InStep says of the sequences as a whole.                           *)
LEMMA InStepDocs ==
    ASSUME NEW p \in Seq(Batch), NEW a \in Seq(Response),
           NEW s \in Seq(0..MaxOrders), InStep(p, a, s)
    PROVE  Docs(p) = Docs(a) \o s
  <1>1. /\ Len(p) \in Nat /\ Len(a) \in Nat /\ Len(s) \in Nat
        /\ Len(p) = Len(a) + Len(s)
    BY DEF InStep
  <1>2. PICK d \in Seq(0..MaxOrders) :
            /\ d = Docs(p) /\ Len(d) = Len(p)
            /\ \A i \in 1..Len(p) : d[i] = p[i].doc
    BY DocsType
  <1>3. PICK e \in Seq(0..MaxOrders) :
            /\ e = Docs(a) /\ Len(e) = Len(a)
            /\ \A i \in 1..Len(a) : e[i] = a[i].doc
    <2>1. \A x \in Response : x.doc \in 0..MaxOrders
      BY DEF Response
    <2>2. \A i \in 1..Len(a) : a[i].doc \in 0..MaxOrders
      BY <2>1
    <2>3. Docs(a) \in Seq(0..MaxOrders) /\ Len(Docs(a)) = Len(a)
      BY <1>1, <2>2 DEF Docs
    <2> QED  BY <2>3 DEF Docs
  <1>4. PICK es \in Seq(0..MaxOrders) :
            /\ es = e \o s /\ Len(es) = Len(e) + Len(s)
            /\ \A i \in 1..Len(e) : es[i] = e[i]
            /\ \A i \in 1..Len(s) : es[Len(e) + i] = s[i]
    <2>1. /\ e \o s \in Seq(0..MaxOrders) /\ Len(e \o s) = Len(e) + Len(s)
          /\ \A i \in 1..Len(e) : (e \o s)[i] = e[i]
          /\ \A i \in 1..Len(s) : (e \o s)[Len(e) + i] = s[i]
      OBVIOUS
    <2> QED  BY <2>1
  <1>5. ASSUME NEW i \in 1..Len(d) PROVE d[i] = es[i]
    <2>1. CASE i <= Len(a)
      <3>1. i \in 1..Len(a)
        BY <1>1, <1>2, <2>1
      <3> QED  BY <1>1, <1>2, <1>3, <1>4, <3>1 DEF InStep
    <2>2. CASE ~(i <= Len(a))
      <3>1. i - Len(a) \in 1..Len(s) /\ i = Len(a) + (i - Len(a))
        BY <1>1, <1>2, <2>2
      <3>2. PICK j \in 1..Len(s) : i = Len(a) + j
        BY <3>1
      <3> QED  BY <1>1, <1>2, <1>3, <1>4, <3>2 DEF InStep
    <2> QED  BY <2>1, <2>2
  <1>6. Len(d) = Len(es)
    BY <1>1, <1>2, <1>3, <1>4
  <1>7. d = es
    BY <1>5, <1>6, SeqEqual
  <1> QED  BY <1>2, <1>3, <1>4, <1>7

-----------------------------------------------------------------------------
(* RemoteStore and its stream.                                             *)

(* What the operations of a stream do to it.                               *)
LEMMA StreamOps ==
    ASSUME NEW s \in Stream
    PROVE  /\ NewStream \in Stream /\ ~IsStarted(NewStream) /\ ~NewStream.idle
           /\ Start(s) \in Stream /\ IsStarted(Start(s)) /\ ~IsOpen(Start(s))
           /\ Start(s).idle = s.idle
           /\ BackoffElapsed(s) \in Stream /\ IsStarted(BackoffElapsed(s))
           /\ ~IsOpen(BackoffElapsed(s)) /\ BackoffElapsed(s).idle = s.idle
           /\ InhibitBackoff(s) \in Stream /\ ~IsStarted(InhibitBackoff(s))
           /\ InhibitBackoff(s).idle = s.idle
           /\ ResumeStart(s) \in Stream /\ IsOpen(ResumeStart(s))
           /\ Write(s) \in Stream /\ Write(s).state = s.state /\ ~Write(s).idle
           /\ MarkIdle(s) \in Stream /\ MarkIdle(s).state = s.state
           /\ MarkIdle(s).idle => s.idle \/ IsOpen(s)
           /\ Close(s, TRUE) \in Stream /\ ~IsStarted(Close(s, TRUE))
           /\ ~Close(s, TRUE).idle
           /\ Close(s, FALSE) \in Stream /\ ~IsStarted(Close(s, FALSE))
           /\ ~Close(s, FALSE).idle
           /\ Stop(s) \in Stream /\ ~IsStarted(Stop(s))
           /\ Stop(s).idle => s.idle /\ ~IsStarted(s)
           /\ IsOpen(s) => IsStarted(s)
  <1> USE DEF Stream, IsStarted, IsOpen
  <1>1. NewStream \in Stream /\ ~IsStarted(NewStream) /\ ~NewStream.idle
    BY DEF NewStream
  <1>2. /\ Start(s) \in Stream /\ IsStarted(Start(s)) /\ ~IsOpen(Start(s))
        /\ Start(s).idle = s.idle
    BY DEF Start
  <1>3. /\ BackoffElapsed(s) \in Stream /\ IsStarted(BackoffElapsed(s))
        /\ ~IsOpen(BackoffElapsed(s)) /\ BackoffElapsed(s).idle = s.idle
    BY DEF BackoffElapsed
  <1>4. /\ InhibitBackoff(s) \in Stream /\ ~IsStarted(InhibitBackoff(s))
        /\ InhibitBackoff(s).idle = s.idle
    BY DEF InhibitBackoff
  <1>5. ResumeStart(s) \in Stream /\ IsOpen(ResumeStart(s))
    BY DEF ResumeStart
  <1>6. Write(s) \in Stream /\ Write(s).state = s.state /\ ~Write(s).idle
    BY DEF Write
  <1>7. /\ MarkIdle(s) \in Stream /\ MarkIdle(s).state = s.state
        /\ MarkIdle(s).idle => s.idle \/ IsOpen(s)
    BY DEF MarkIdle
  <1>8. /\ Close(s, TRUE) \in Stream /\ ~IsStarted(Close(s, TRUE))
        /\ ~Close(s, TRUE).idle
    BY DEF Close
  <1>9. /\ Close(s, FALSE) \in Stream /\ ~IsStarted(Close(s, FALSE))
        /\ ~Close(s, FALSE).idle
    BY DEF Close
  <1>10. /\ Stop(s) \in Stream /\ ~IsStarted(Stop(s))
         /\ Stop(s).idle => s.idle /\ ~IsStarted(s)
    BY <1>8 DEF Stop
  <1> QED
    BY <1>1, <1>2, <1>3, <1>4, <1>5, <1>6, <1>7, <1>8, <1>9, <1>10

(* The fields of a RemoteStore.                                            *)
LEMMA StoreFields ==
    ASSUME NEW r \in RemoteStore
    PROVE  /\ r.enabled \in BOOLEAN /\ r.handshake \in BOOLEAN
           /\ r.ok \in BOOLEAN
           /\ r.pipeline \in Seq(Batch) /\ r.stream \in Stream
           /\ r.requests \in Seq(0..MaxOrders) /\ r.responses \in Seq(Response)
           /\ r.stream.idle \in BOOLEAN
  <1>1. r.stream \in Stream
    BY DEF RemoteStore
  <1> QED  BY <1>1 DEF RemoteStore, Stream

(* FillWritePipeline() with the batches it adds named.                     *)
FillWith(r, added) ==
    LET room == IF r.enabled THEN MaxPendingWrites - Len(r.pipeline) ELSE 0
        sends == added # <<>> /\ IsOpen(r.stream) /\ r.handshake
    IN  StartWriteStream(
            [r EXCEPT
                !.pipeline = @ \o added,
                !.requests = IF sends THEN @ \o Docs(added) ELSE @,
                !.stream = IF sends THEN Write(@)
                           ELSE IF room > 0 /\ r.pipeline \o added = <<>>
                                THEN MarkIdle(@) ELSE @])

(* The batches FillWritePipeline() adds are the next rows of the queue.    *)
LEMMA FillAdds ==
    ASSUME NEW r \in RemoteStore, NEW q \in Seq(Batch), Ordered(q),
           IF r.enabled THEN Begins(r, q) ELSE r.pipeline = <<>>
    PROVE  \E added \in Seq(Batch) :
            /\ FillWritePipeline(r, q) = FillWith(r, added)
            /\ ~r.enabled => Len(added) = 0
            /\ r.enabled =>
                /\ Len(r.pipeline) + Len(added) <= Len(q)
                /\ Len(r.pipeline) + Len(added) <= MaxPendingWrites
                /\ Len(r.pipeline) + Len(added) \in {Len(q), MaxPendingWrites}
            /\ \A i \in 1..Len(added) : added[i] = q[Len(r.pipeline) + i]
  <1> DEFINE p == r.pipeline
             n == Len(p)
             last == IF p = <<>> THEN 0 ELSE Last(p).id
             next == BatchesAfter(q, last)
             room == IF r.enabled THEN MaxPendingWrites - Len(r.pipeline) ELSE 0
             added == SubSeq(next, 1, Min({room, Len(next)}))
  <1>1. p \in Seq(Batch) /\ n \in Nat /\ Len(q) \in Nat /\ r.enabled \in BOOLEAN
        /\ MaxPendingWrites \in Nat
    BY StoreFields, WritePipelineAssumption
  <1>2. n \in 0..Len(q) /\ (n = 0 <=> p = <<>>)
    BY <1>1 DEF Begins
  <1>3. last = IF n = 0 THEN 0 ELSE q[n].id
    <2>1. CASE n = 0
      BY <1>2, <2>1
    <2>2. CASE n # 0
      <3>1. r.enabled /\ Begins(r, q)
        BY <1>1, <1>2, <2>2
      <3>2. p[n] = q[n]
        BY <1>1, <2>2, <3>1 DEF Begins
      <3> QED  BY <1>2, <2>2, <3>2 DEF Last
    <2> QED  BY <2>1, <2>2
  <1>4. FillWritePipeline(r, q) = FillWith(r, added)
    BY DEF FillWritePipeline, FillWith
  <1>5. /\ r.enabled => room = MaxPendingWrites - n
        /\ ~r.enabled => room = 0
        /\ room \in Nat
        /\ r.enabled => n <= MaxPendingWrites
    <2>1. CASE r.enabled
      <3>1. n <= MaxPendingWrites
        BY <2>1 DEF Begins
      <3>2. room = MaxPendingWrites - n
        BY <2>1
      <3> QED  BY <1>1, <2>1, <3>1, <3>2
    <2>2. CASE ~r.enabled
      BY <2>2
    <2> QED  BY <2>1, <2>2
  <1> HIDE DEF p, n, last, room
  <1>6. /\ next \in Seq(Batch) /\ Len(next) = Len(q) - n
        /\ \A i \in 1..(Len(q) - n) : next[i] = q[n + i]
    BY <1>2, <1>3, RestAfter
  <1>7. Len(next) \in Nat
    BY <1>6
  <1> HIDE DEF next
  <1>8. Min({room, Len(next)}) = IF room <= Len(next) THEN room ELSE Len(next)
    BY <1>5, <1>7, MinOfTwo
  <1>9. PICK k \in Nat : k = Min({room, Len(next)})
    BY <1>5, <1>7, <1>8
  <1>10. added = SubSeq(next, 1, k)
    BY <1>9
  <1>11. k = IF room <= Len(next) THEN room ELSE Len(next)
    BY <1>8, <1>9
  <1> HIDE DEF added
  <1>12. \A i \in 1..k : next[i] \in Batch
    BY <1>5, <1>6, <1>7, <1>11
  <1>13. /\ added \in Seq(Batch) /\ Len(added) = k
         /\ \A i \in 1..k : added[i] = next[i]
    BY <1>10, <1>12, SubSeqProperties
  <1>14. \A i \in 1..Len(added) : added[i] = q[n + i]
    BY <1>5, <1>6, <1>7, <1>11, <1>13
  <1>15. ~r.enabled => Len(added) = 0
    BY <1>5, <1>7, <1>11, <1>13
  <1>16. r.enabled =>
            /\ n + Len(added) <= Len(q)
            /\ n + Len(added) <= MaxPendingWrites
            /\ n + Len(added) \in {Len(q), MaxPendingWrites}
    BY <1>1, <1>2, <1>5, <1>6, <1>11, <1>13
  <1> QED  BY <1>4, <1>13, <1>14, <1>15, <1>16 DEF n, p

(* StartWriteStream() starts the stream or does nothing.                   *)
LEMMA StartKeeps ==
    ASSUME NEW r \in RemoteStore, NEW held, NEW refused, NEW late,
           Wired(r, held, refused, late)
    PROVE  /\ StartWriteStream(r) \in RemoteStore
           /\ Wired(StartWriteStream(r), held, refused, late)
           /\ StartWriteStream(r).pipeline = r.pipeline
           /\ StartWriteStream(r).enabled = r.enabled
  <1> DEFINE f == StartWriteStream(r)
  <1>0. r.stream \in Stream
    BY StoreFields
  <1>1. CASE ShouldStartWriteStream(r)
    <2>1. /\ f \in RemoteStore /\ f.stream = Start(r.stream)
          /\ f.enabled = r.enabled /\ f.pipeline = r.pipeline
          /\ f.handshake = r.handshake /\ f.requests = r.requests
          /\ f.responses = r.responses /\ f.ok = r.ok
      <3>1. Start(r.stream) \in Stream
        BY StoreFields, StreamOps
      <3>2. f = [r EXCEPT !.stream = Start(r.stream)]
        BY <1>1 DEF StartWriteStream
      <3> QED  BY <3>1, <3>2 DEF RemoteStore
    <2>0. /\ ~IsOpen(Start(r.stream)) /\ Start(r.stream).idle = r.stream.idle
          /\ IsStarted(Start(r.stream))
      BY <1>0, StreamOps
    <2> HIDE DEF f
    <2>2. ~IsOpen(f.stream) /\ f.stream.idle = r.stream.idle /\ IsStarted(f.stream)
      BY <2>0, <2>1
    <2>3. r.enabled /\ ~IsStarted(r.stream) /\ r.pipeline # <<>>
      BY <1>1 DEF ShouldStartWriteStream
    <2>4. ~IsOpen(r.stream)
      BY <1>0, <2>3, StreamOps
    <2>5. Wired(f, held, refused, late)
      BY <2>1, <2>2, <2>3, <2>4 DEF Wired
    <2> QED  BY <2>1, <2>5 DEF f
  <1>2. CASE ~ShouldStartWriteStream(r)
    <2>1. f = [r EXCEPT !.stream = r.stream]
      BY <1>2 DEF StartWriteStream
    <2>2. [r EXCEPT !.stream = r.stream] = r
      BY DEF RemoteStore
    <2> HIDE DEF f
    <2> QED  BY <2>1, <2>2 DEF f
  <1> QED  BY <1>1, <1>2

(* FillWritePipeline(): whatever the stream is at, the pipeline is full      *)
(* again and the stream agrees with it.                                    *)
LEMMA FillKeeps ==
    ASSUME NEW r \in RemoteStore, NEW held, NEW refused, NEW late,
           Wired(r, held, refused, late),
           NEW q \in Seq(Batch), Ordered(q), r.enabled => Begins(r, q)
    PROVE  /\ FillWritePipeline(r, q) \in RemoteStore
           /\ Wired(FillWritePipeline(r, q), held, refused, late)
           /\ Full(FillWritePipeline(r, q), q)
  <1>1. IF r.enabled THEN Begins(r, q) ELSE r.pipeline = <<>>
    BY DEF Wired
  <1>2. PICK added \in Seq(Batch) :
            /\ FillWritePipeline(r, q) = FillWith(r, added)
            /\ ~r.enabled => Len(added) = 0
            /\ r.enabled =>
                /\ Len(r.pipeline) + Len(added) <= Len(q)
                /\ Len(r.pipeline) + Len(added) <= MaxPendingWrites
                /\ Len(r.pipeline) + Len(added) \in {Len(q), MaxPendingWrites}
            /\ \A i \in 1..Len(added) : added[i] = q[Len(r.pipeline) + i]
    BY <1>1, FillAdds
  <1> DEFINE room == IF r.enabled THEN MaxPendingWrites - Len(r.pipeline) ELSE 0
             sends == added # <<>> /\ IsOpen(r.stream) /\ r.handshake
             rest == room > 0 /\ r.pipeline \o added = <<>>
             stream == IF sends THEN Write(r.stream)
                       ELSE IF rest THEN MarkIdle(r.stream) ELSE r.stream
             requests == IF sends THEN r.requests \o Docs(added) ELSE r.requests
             pipeline == r.pipeline \o added
             g == [r EXCEPT !.pipeline = pipeline, !.requests = requests,
                            !.stream = stream]
  <1>3. FillWritePipeline(r, q) = StartWriteStream(g)
    BY <1>2 DEF FillWith
  <1>4. /\ r.enabled \in BOOLEAN /\ r.handshake \in BOOLEAN /\ r.ok \in BOOLEAN
        /\ r.pipeline \in Seq(Batch) /\ r.stream \in Stream
        /\ r.requests \in Seq(0..MaxOrders) /\ r.responses \in Seq(Response)
        /\ r.stream.idle \in BOOLEAN
    BY StoreFields
  <1>5. /\ pipeline \in Seq(Batch)
        /\ Len(pipeline) = Len(r.pipeline) + Len(added)
        /\ \A i \in 1..Len(r.pipeline) : pipeline[i] = r.pipeline[i]
        /\ \A i \in 1..Len(added) : pipeline[Len(r.pipeline) + i] = added[i]
        /\ Len(pipeline) \in Nat /\ Len(added) \in Nat /\ Len(r.pipeline) \in Nat
        /\ (pipeline = <<>> <=> r.pipeline = <<>> /\ added = <<>>)
    BY <1>2, <1>4
  <1>6. stream \in Stream
    BY <1>4, StreamOps
  <1>7. /\ requests \in Seq(0..MaxOrders)
        /\ sends =>
            /\ Len(requests) = Len(r.requests) + Len(added)
            /\ \A i \in 1..Len(r.requests) : requests[i] = r.requests[i]
            /\ \A i \in 1..Len(added) :
                    requests[Len(r.requests) + i] = added[i].doc
    <2>1. /\ Docs(added) \in Seq(0..MaxOrders) /\ Len(Docs(added)) = Len(added)
          /\ \A i \in 1..Len(added) : Docs(added)[i] = added[i].doc
      BY DocsType
    <2>2. PICK d \in Seq(0..MaxOrders) : d = Docs(added)
      BY <2>1
    <2>3. /\ r.requests \o d \in Seq(0..MaxOrders)
          /\ Len(r.requests \o d) = Len(r.requests) + Len(d)
          /\ \A i \in 1..Len(r.requests) : (r.requests \o d)[i] = r.requests[i]
          /\ \A i \in 1..Len(d) : (r.requests \o d)[Len(r.requests) + i] = d[i]
      BY <1>4
    <2> HIDE DEF sends
    <2> QED  BY <1>4, <2>1, <2>2, <2>3
  <1>8. stream.state = r.stream.state
    BY <1>4, StreamOps
  <1>9. /\ sends => ~stream.idle
        /\ stream.idle /\ ~sends =>
                r.stream.idle \/ (IsOpen(r.stream) /\ pipeline = <<>>)
    BY <1>4, StreamOps
  <1> HIDE DEF pipeline, stream, requests
  <1>10. /\ g \in RemoteStore
         /\ g.enabled = r.enabled /\ g.pipeline = pipeline /\ g.stream = stream
         /\ g.handshake = r.handshake /\ g.requests = requests
         /\ g.responses = r.responses /\ g.ok = r.ok
    BY <1>4, <1>5, <1>6, <1>7 DEF RemoteStore
  <1> HIDE DEF g
  <1>11. /\ IsOpen(stream) <=> IsOpen(r.stream)
         /\ IsStarted(stream) <=> IsStarted(r.stream)
    BY <1>8 DEF IsOpen, IsStarted
  <1>12. Len(r.requests) \in Nat /\ Len(r.responses) \in Nat
    BY <1>4
  <1>13. IsOpen(r.stream) => IsStarted(r.stream)
    BY <1>4, StreamOps
  <1>14. ~r.enabled => pipeline = <<>>
    BY <1>2, <1>5 DEF Wired
  <1>15. ~sends => requests = r.requests
    BY DEF requests
  <1>16. added = <<>> => pipeline = r.pipeline
    BY <1>4, ConcatEmptySeq DEF pipeline
  <1>17. stream.idle => r.handshake /\ pipeline = <<>>
    <2>1. CASE sends
      BY <1>9, <2>1
    <2>2. CASE ~sends
      BY <1>5, <1>9, <1>13, <2>2 DEF Wired
    <2> QED  BY <2>1, <2>2
  <1>18. ASSUME r.handshake PROVE Wired(g, held, refused, late)
    <2>1. IsOpen(r.stream)
      BY <1>18 DEF Wired
    <2>2. Correlated(g, held, refused, late)
      <3>1. CASE added = <<>>
        <4>1. pipeline = r.pipeline /\ requests = r.requests
          BY <1>15, <1>16, <3>1
        <4>2. Correlated(r, held, refused, late)
          BY <1>18 DEF Wired
        <4> HIDE DEF sends, rest, room
        <4> QED  BY <1>10, <4>1, <4>2 DEF Correlated
      <3>2. CASE added # <<>>
        <4>1. requests = r.requests \o Docs(added) /\ pipeline = r.pipeline \o added
          BY <1>18, <2>1, <3>2 DEF requests, pipeline
        <4>2. InStep(r.pipeline, r.responses, r.requests)
                => InStep(pipeline, r.responses, requests)
          BY <1>4, <4>1, InStepMore
        <4>3. OutOfStep(r.pipeline, r.responses)
                => OutOfStep(pipeline, r.responses)
          BY <1>5 DEF OutOfStep
        <4>4. Correlated(r, held, refused, late)
          BY <1>18 DEF Wired
        <4> HIDE DEF sends, rest, room
        <4> QED  BY <1>10, <4>2, <4>3, <4>4 DEF Correlated
      <3> QED  BY <3>1, <3>2
    <2> HIDE DEF sends, rest, room
    <2> QED
      BY <1>10, <1>11, <1>14, <1>17, <1>18, <2>1, <2>2 DEF Wired
  <1>19. ASSUME ~r.handshake PROVE Wired(g, held, refused, late)
    <2>1. ~sends /\ requests = r.requests
      BY <1>15, <1>19
    <2> HIDE DEF sends, rest, room
    <2> QED
      BY <1>5, <1>10, <1>11, <1>14, <1>17, <1>19, <2>1 DEF Wired
  <1>20. Wired(g, held, refused, late)
    BY <1>4, <1>18, <1>19
  <1>21. ASSUME r.enabled
         PROVE  /\ Len(pipeline) <= Len(q) /\ Len(pipeline) <= MaxPendingWrites
                /\ Len(pipeline) \in {Len(q), MaxPendingWrites}
                /\ \A i \in 1..Len(pipeline) : pipeline[i] = q[i]
    <2>1. Begins(r, q)
      BY <1>21
    <2>2. ASSUME NEW i \in 1..Len(pipeline) PROVE pipeline[i] = q[i]
      <3>1. CASE i <= Len(r.pipeline)
        BY <1>5, <2>1, <3>1 DEF Begins
      <3>2. CASE ~(i <= Len(r.pipeline))
        <4>1. PICK j \in 1..Len(added) : i = Len(r.pipeline) + j
          <5>1. /\ i - Len(r.pipeline) \in 1..Len(added)
                /\ i = Len(r.pipeline) + (i - Len(r.pipeline))
            BY <1>5, <3>2
          <5> QED  BY <5>1
        <4> QED  BY <1>2, <1>5, <4>1
      <3> QED  BY <3>1, <3>2
    <2> QED  BY <1>2, <1>5, <1>21, <2>2
  <1>22. /\ StartWriteStream(g) \in RemoteStore
         /\ Wired(StartWriteStream(g), held, refused, late)
         /\ StartWriteStream(g).pipeline = pipeline
         /\ StartWriteStream(g).enabled = r.enabled
    BY <1>10, <1>20, StartKeeps
  <1>23. Full(StartWriteStream(g), q)
    BY <1>21, <1>22 DEF Full, Begins
  <1> QED  BY <1>3, <1>22, <1>23

(* The backend holds more documents, or one more answer was overtaken.     *)
LEMMA WiredMore ==
    ASSUME NEW r, NEW held, NEW more, NEW refused, NEW late, NEW later,
           Wired(r, held, refused, late), held \subseteq more,
           late # 0 => later # 0
    PROVE  Wired(r, more, refused, later)
  <1>1. Answered(r.responses, held, refused) => Answered(r.responses, more, refused)
    BY DEF Answered
  <1>2. Correlated(r, held, refused, late) => Correlated(r, more, refused, later)
    BY <1>1 DEF Correlated
  <1> QED  BY <1>2 DEF Wired

(* A closed stream leaves nothing to disagree with.                        *)
LEMMA DisconnectedKeeps ==
    ASSUME NEW r \in RemoteStore, r.ok, ~r.enabled => r.pipeline = <<>>,
           NEW s \in Stream, ~IsStarted(s), ~s.idle,
           NEW held, NEW refused, NEW late
    PROVE  /\ Disconnected(r, s) \in RemoteStore
           /\ Wired(Disconnected(r, s), held, refused, late)
           /\ Disconnected(r, s).pipeline = r.pipeline
           /\ Disconnected(r, s).enabled = r.enabled
           /\ Disconnected(r, s).stream = s
           /\ Disconnected(r, s).ok
  <1> DEFINE d == Disconnected(r, s)
  <1>1. <<>> \in Seq(0..MaxOrders) /\ <<>> \in Seq(Response)
    OBVIOUS
  <1>2. /\ d \in RemoteStore /\ d.stream = s /\ d.handshake = FALSE
        /\ d.requests = <<>> /\ d.responses = <<>> /\ d.ok = r.ok
        /\ d.pipeline = r.pipeline /\ d.enabled = r.enabled
    BY <1>1 DEF Disconnected, RemoteStore
  <1>3. ~IsOpen(s)
    BY StreamOps
  <1> HIDE DEF d
  <1>4. Wired(d, held, refused, late)
    BY <1>2, <1>3 DEF Wired
  <1> QED  BY <1>2, <1>4 DEF d

(* A broken stream keeps the pipeline and is started again if it is needed. *)
LEMMA FailedKeeps ==
    ASSUME NEW r \in RemoteStore, NEW held, NEW refused, NEW late,
           Wired(r, held, refused, late)
    PROVE  /\ WriteStreamFailed(r) \in RemoteStore
           /\ Wired(WriteStreamFailed(r), held, refused, late)
           /\ WriteStreamFailed(r).pipeline = r.pipeline
           /\ WriteStreamFailed(r).enabled = r.enabled
  <1>1. r.stream \in Stream
    BY StoreFields
  <1>2. PICK s \in Stream : s = Close(r.stream, FALSE) /\ ~IsStarted(s) /\ ~s.idle
    <2>1. /\ Close(r.stream, FALSE) \in Stream
          /\ ~IsStarted(Close(r.stream, FALSE)) /\ ~Close(r.stream, FALSE).idle
      BY <1>1, StreamOps
    <2> QED  BY <2>1
  <1>3. r.ok /\ (~r.enabled => r.pipeline = <<>>)
    BY DEF Wired
  <1>4. /\ Disconnected(r, s) \in RemoteStore
        /\ Wired(Disconnected(r, s), held, refused, late)
        /\ Disconnected(r, s).pipeline = r.pipeline
        /\ Disconnected(r, s).enabled = r.enabled
    BY <1>2, <1>3, DisconnectedKeeps
  <1>5. WriteStreamFailed(r) = StartWriteStream(Disconnected(r, s))
    BY <1>2 DEF WriteStreamFailed
  <1> QED  BY <1>4, <1>5, StartKeeps

(* Stopping the stream when it is not needed fails no assertion.           *)
LEMMA StopKeeps ==
    ASSUME NEW r \in RemoteStore, r.ok, r.pipeline = <<>> \/ ~r.enabled,
           r.stream.idle => IsStarted(r.stream)
    PROVE  /\ StopWriteStream(r) \in RemoteStore
           /\ StopWriteStream(r).ok
           /\ ~IsStarted(StopWriteStream(r).stream)
           /\ ~StopWriteStream(r).stream.idle
           /\ StopWriteStream(r).pipeline = r.pipeline
           /\ StopWriteStream(r).enabled = r.enabled
           /\ ~StopWriteStream(r).handshake
           /\ StopWriteStream(r).requests = <<>>
           /\ StopWriteStream(r).responses = <<>>
  <1>1. r.stream \in Stream
    BY StoreFields
  <1>2. PICK s \in Stream : s = Stop(r.stream) /\ ~IsStarted(s) /\ ~s.idle
    <2>1. /\ Stop(r.stream) \in Stream /\ ~IsStarted(Stop(r.stream))
          /\ ~Stop(r.stream).idle
      BY <1>1, StreamOps
    <2> QED  BY <2>1
  <1> DEFINE d == Disconnected(r, s)
             ok == d.ok /\ (IsStarted(r.stream) => ~ShouldStartWriteStream(d))
  <1>3. <<>> \in Seq(0..MaxOrders) /\ <<>> \in Seq(Response)
    OBVIOUS
  <1>4. /\ d \in RemoteStore /\ d.stream = s /\ d.handshake = FALSE
        /\ d.requests = <<>> /\ d.responses = <<>> /\ d.ok = r.ok
        /\ d.pipeline = r.pipeline /\ d.enabled = r.enabled
    BY <1>3 DEF Disconnected, RemoteStore
  <1>5. StopWriteStream(r) = [d EXCEPT !.ok = ok]
    BY <1>2 DEF StopWriteStream
  <1> HIDE DEF d
  <1>6. ok = TRUE
    BY <1>4 DEF ShouldStartWriteStream
  <1> HIDE DEF ok
  <1>7. StopWriteStream(r) = [d EXCEPT !.ok = TRUE]
    BY <1>5, <1>6
  <1>8. [d EXCEPT !.ok = TRUE] = d
    BY <1>4 DEF RemoteStore
  <1> QED  BY <1>2, <1>4, <1>7, <1>8

(* The idleness timer stops a stream that nothing is left to be sent on.   *)
LEMMA IdleKeeps ==
    ASSUME NEW r \in RemoteStore, NEW held, NEW refused, NEW late,
           Wired(r, held, refused, late), r.stream.idle
    PROVE  /\ StopWriteStream(r) \in RemoteStore
           /\ Wired(StopWriteStream(r), held, refused, late)
           /\ StopWriteStream(r).pipeline = r.pipeline
           /\ StopWriteStream(r).enabled = r.enabled
  <1>1. r.stream \in Stream
    BY StoreFields
  <1>2. r.pipeline = <<>> /\ IsOpen(r.stream) /\ r.ok
    BY DEF Wired
  <1>3. IsStarted(r.stream)
    BY <1>1, <1>2, StreamOps
  <1>4. PICK d \in RemoteStore :
            /\ d = StopWriteStream(r)
            /\ d.ok /\ ~IsStarted(d.stream) /\ ~d.stream.idle
            /\ d.pipeline = r.pipeline /\ d.enabled = r.enabled
            /\ ~d.handshake /\ d.requests = <<>> /\ d.responses = <<>>
    BY <1>2, <1>3, StopKeeps
  <1>5. ~IsOpen(d.stream)
    BY <1>4 DEF IsOpen, IsStarted
  <1>6. Wired(d, held, refused, late)
    BY <1>2, <1>4, <1>5 DEF Wired
  <1> QED  BY <1>4, <1>6

(* DisableNetworkInternal() empties the pipeline and stops the stream.     *)
LEMMA DisabledKeeps ==
    ASSUME NEW r \in RemoteStore, NEW held, NEW refused, NEW late,
           Wired(r, held, refused, late)
    PROVE  /\ NetworkDisabled(r) \in RemoteStore
           /\ Wired(NetworkDisabled(r), held, refused, late)
           /\ ~NetworkDisabled(r).enabled
           /\ NetworkDisabled(r).pipeline = <<>>
           /\ ~IsStarted(NetworkDisabled(r).stream)
           /\ NetworkDisabled(r).ok
  <1>1. r.stream \in Stream
    BY StoreFields
  <1> DEFINE e == [r EXCEPT !.enabled = FALSE]
  <1>2. /\ e \in RemoteStore /\ e.enabled = FALSE /\ e.ok = r.ok
        /\ e.stream = r.stream
    BY DEF RemoteStore
  <1>3. r.ok /\ (r.stream.idle => IsOpen(r.stream))
    BY DEF Wired
  <1>4. e.stream.idle => IsStarted(e.stream)
    BY <1>1, <1>2, <1>3, StreamOps
  <1> HIDE DEF e
  <1>5. PICK d \in RemoteStore :
            /\ d = StopWriteStream(e)
            /\ d.ok /\ ~IsStarted(d.stream) /\ ~d.stream.idle
            /\ d.enabled = FALSE
            /\ ~d.handshake /\ d.requests = <<>> /\ d.responses = <<>>
    BY <1>2, <1>3, <1>4, StopKeeps
  <1>6. NetworkDisabled(r) = [d EXCEPT !.pipeline = <<>>]
    BY <1>5 DEF NetworkDisabled, e
  <1> DEFINE n == [d EXCEPT !.pipeline = <<>>]
  <1>7. /\ n \in RemoteStore /\ n.ok = d.ok /\ n.stream = d.stream
        /\ n.enabled = d.enabled /\ n.pipeline = <<>>
        /\ n.handshake = d.handshake /\ n.requests = d.requests
        /\ n.responses = d.responses
    <2>1. <<>> \in Seq(Batch)
      OBVIOUS
    <2> QED  BY <1>5, <2>1 DEF RemoteStore
  <1> HIDE DEF n
  <1>8. ~IsOpen(n.stream)
    BY <1>5, <1>7 DEF IsOpen, IsStarted
  <1>9. Wired(n, held, refused, late)
    BY <1>5, <1>7, <1>8 DEF Wired
  <1>10. NetworkDisabled(r) = n
    BY <1>6 DEF n
  <1> QED  BY <1>5, <1>7, <1>9, <1>10

(* EnableNetwork() fills the pipeline from the queue.                      *)
LEMMA EnabledKeeps ==
    ASSUME NEW r \in RemoteStore, NEW held, NEW refused, NEW late,
           Wired(r, held, refused, late),
           NEW q \in Seq(Batch), Ordered(q), r.enabled => Begins(r, q)
    PROVE  /\ NetworkEnabled(r, q) \in RemoteStore
           /\ Wired(NetworkEnabled(r, q), held, refused, late)
           /\ Full(NetworkEnabled(r, q), q)
  <1> DEFINE e == [r EXCEPT !.enabled = TRUE]
  <1>1. /\ e \in RemoteStore /\ e.enabled = TRUE /\ e.ok = r.ok
        /\ e.stream = r.stream /\ e.pipeline = r.pipeline
        /\ e.handshake = r.handshake /\ e.requests = r.requests
        /\ e.responses = r.responses
    BY DEF RemoteStore
  <1>2. NetworkEnabled(r, q) = FillWritePipeline(e, q)
    BY DEF NetworkEnabled
  <1> HIDE DEF e
  <1>3. Correlated(r, held, refused, late) => Correlated(e, held, refused, late)
    BY <1>1 DEF Correlated
  <1>4. Wired(e, held, refused, late)
    BY <1>1, <1>3 DEF Wired
  <1>5. Begins(e, q)
    <2>1. CASE r.enabled
      BY <1>1, <2>1 DEF Begins
    <2>2. CASE ~r.enabled
      <3>1. e.pipeline = <<>>
        BY <1>1, <2>2 DEF Wired
      <3>2. Len(q) \in Nat /\ MaxPendingWrites \in Nat /\ Len(<<>>) = 0
        BY WritePipelineAssumption
      <3> QED  BY <3>1, <3>2 DEF Begins
    <2> QED  BY <2>1, <2>2
  <1> QED  BY <1>1, <1>2, <1>4, <1>5, FillKeeps

(* RestartNetwork() does both, with no backoff in between.                 *)
LEMMA RestartKeeps ==
    ASSUME NEW r \in RemoteStore, NEW held, NEW refused, NEW late,
           Wired(r, held, refused, late), NEW q \in Seq(Batch), Ordered(q)
    PROVE  /\ RestartNetwork(r, q) \in RemoteStore
           /\ Wired(RestartNetwork(r, q), held, refused, late)
           /\ Full(RestartNetwork(r, q), q)
  <1>1. PICK d \in RemoteStore :
            /\ d = NetworkDisabled(r) /\ Wired(d, held, refused, late)
            /\ ~d.enabled /\ d.pipeline = <<>> /\ ~IsStarted(d.stream) /\ d.ok
    BY DisabledKeeps
  <1>2. d.stream \in Stream /\ d.ok \in BOOLEAN
    BY StoreFields
  <1>3. PICK s \in Stream :
            s = InhibitBackoff(d.stream) /\ ~IsStarted(s) /\ s.idle = d.stream.idle
    <2>1. /\ InhibitBackoff(d.stream) \in Stream
          /\ ~IsStarted(InhibitBackoff(d.stream))
          /\ InhibitBackoff(d.stream).idle = d.stream.idle
      BY <1>2, StreamOps
    <2> QED  BY <2>1
  <1> DEFINE n == [d EXCEPT !.stream = s, !.ok = TRUE]
  <1>4. d.ok /\ ~IsStarted(d.stream) = TRUE
    BY <1>1, <1>2
  <1>5. RestartNetwork(r, q) = NetworkEnabled(n, q)
    BY <1>1, <1>3, <1>4 DEF RestartNetwork
  <1>6. /\ n \in RemoteStore /\ n.ok = TRUE /\ n.stream = s
        /\ n.enabled = d.enabled /\ n.pipeline = d.pipeline
        /\ n.handshake = d.handshake /\ n.requests = d.requests
        /\ n.responses = d.responses
    BY DEF RemoteStore
  <1> HIDE DEF n
  <1>7. ~IsOpen(s) /\ ~IsOpen(d.stream)
    BY <1>1, <1>2, <1>3, StreamOps
  <1>8. ~d.handshake /\ d.requests = <<>> /\ d.responses = <<>>
    BY <1>1, <1>7 DEF Wired
  <1>9. ~d.stream.idle
    BY <1>1, <1>8 DEF Wired
  <1>10. Wired(n, held, refused, late)
    BY <1>1, <1>3, <1>6, <1>7, <1>8, <1>9 DEF Wired
  <1> QED  BY <1>1, <1>5, <1>6, <1>10, EnabledKeeps

-----------------------------------------------------------------------------
(* Steps that concern the RemoteStore only.                                *)

(* Pending, in terms of the rows of a queue.                               *)
LEMMA RowsPending ==
    ASSUME NEW q \in Seq(Batch), NEW d
    PROVE  (\E b \in ToSet(q) : b.doc = d) <=> \E i \in 1..Len(q) : q[i].doc = d
  <1>1. DOMAIN q = 1..Len(q)
    OBVIOUS
  <1> QED  BY <1>1 DEF ToSet

(* The rest of the state is as it was.                                     *)
LEMMA RemoteKeeps ==
    ASSUME PipelineInv, NEW r \in RemoteStore, RemoteStep(r),
           Wired(r, server, bad, overtaken), Full(r, mutationQueue[user]),
           faults' \in 0..MaxFaults
    PROVE  PipelineInv'
  <1> USE DEF PipelineInv
  <1>1. /\ rs' = r
        /\ UNCHANGED <<placed, mutationQueue, nextBatchId, mutationCallbacks,
                       futures, waiters, user, server, rejected, bad, overtaken>>
    BY DEF RemoteStep, diskVars, syncVars
  <1>2. TypeOK'
    BY <1>1 DEF TypeOK
  <1>3. QueuesSound'
    BY <1>1 DEF QueuesSound, Ordered, Owned
  <1>4. Full(rs, mutationQueue[user])' /\ Wired(rs, server, bad, overtaken)'
    BY <1>1
  <1>5. CallbacksBacked'
    BY <1>1 DEF CallbacksBacked
  <1>6. FuturesSound' /\ NoneLost'
    BY <1>1 DEF FuturesSound, NoneLost, Pending
  <1>7. WaitersSound'
    BY <1>1 DEF WaitersSound, Pending
  <1> QED  BY <1>1, <1>2, <1>3, <1>4, <1>5, <1>6, <1>7

(* The facts the steps below start from.                                   *)
LEMMA RemoteFacts ==
    ASSUME PipelineInv
    PROVE  /\ rs \in RemoteStore /\ Wired(rs, server, bad, overtaken)
           /\ Full(rs, mutationQueue[user])
           /\ user \in Users
           /\ \A u \in Users : mutationQueue[u] \in Seq(Batch)
                                /\ Ordered(mutationQueue[u])
           /\ mutationQueue[user] \in Seq(Batch) /\ Ordered(mutationQueue[user])
           /\ rs.enabled => Begins(rs, mutationQueue[user])
           /\ faults \in 0..MaxFaults
           /\ faults < MaxFaults => faults + 1 \in 0..MaxFaults
           /\ rs.stream \in Stream /\ rs.pipeline \in Seq(Batch)
           /\ rs.requests \in Seq(0..MaxOrders) /\ rs.responses \in Seq(Response)
           /\ rs.ok \in BOOLEAN /\ rs.handshake \in BOOLEAN
           /\ rs.enabled \in BOOLEAN /\ rs.ok
  <1>1. rs \in RemoteStore /\ user \in Users /\ faults \in 0..MaxFaults
        /\ mutationQueue \in [Users -> Seq(Batch)]
    BY DEF PipelineInv, TypeOK
  <1>2. \A u \in Users : mutationQueue[u] \in Seq(Batch)
    BY <1>1
  <1>3. \A u \in Users : Ordered(mutationQueue[u])
    BY DEF PipelineInv, QueuesSound
  <1>4. Wired(rs, server, bad, overtaken) /\ Full(rs, mutationQueue[user]) /\ rs.ok
    BY DEF PipelineInv, Wired
  <1>5. rs.enabled => Begins(rs, mutationQueue[user])
    BY <1>4 DEF Full
  <1>6. MaxFaults \in Nat
    BY WritePipelineAssumption
  <1>7. faults < MaxFaults => faults + 1 \in 0..MaxFaults
    BY <1>1, <1>6
  <1>8. /\ rs.stream \in Stream /\ rs.pipeline \in Seq(Batch)
        /\ rs.requests \in Seq(0..MaxOrders) /\ rs.responses \in Seq(Response)
        /\ rs.ok \in BOOLEAN /\ rs.handshake \in BOOLEAN /\ rs.enabled \in BOOLEAN
    BY <1>1, StoreFields
  <1> QED  BY <1>1, <1>2, <1>3, <1>4, <1>5, <1>7, <1>8

(* The credentials open the stream, and the handshake is sent on it.       *)
LEMMA CredentialsArriveStep ==
    ASSUME PipelineInv, CredentialsArrive
    PROVE  PipelineInv'
  <1>1. /\ rs \in RemoteStore /\ Wired(rs, server, bad, overtaken)
        /\ rs.stream \in Stream /\ rs.ok \in BOOLEAN /\ rs.handshake \in BOOLEAN
        /\ Full(rs, mutationQueue[user]) /\ faults \in 0..MaxFaults
    BY RemoteFacts
  <1>2. ~IsOpen(rs.stream) /\ IsStarted(rs.stream)
    BY DEF CredentialsArrive, IsOpen, IsStarted
  <1>3. rs.ok /\ ~rs.handshake /\ rs.responses = <<>> /\ rs.pipeline # <<>>
        /\ rs.enabled
    BY <1>1, <1>2 DEF Wired
  <1>4. /\ ResumeStart(rs.stream) \in Stream /\ IsOpen(ResumeStart(rs.stream))
    BY <1>1, StreamOps
  <1>5. PICK s \in Stream :
            s = Write(ResumeStart(rs.stream)) /\ IsOpen(s) /\ ~s.idle
    <2>1. PICK t \in Stream : t = ResumeStart(rs.stream) /\ IsOpen(t)
      BY <1>4
    <2>2. Write(t) \in Stream /\ Write(t).state = t.state /\ ~Write(t).idle
      BY StreamOps
    <2> QED  BY <2>1, <2>2 DEF IsOpen
  <1> DEFINE n == [rs EXCEPT !.stream = s, !.requests = <<Handshake>>, !.ok = TRUE]
  <1>6. RemoteStep(n) /\ faults' = faults
    <2>1. rs.ok /\ ~rs.handshake = TRUE
      BY <1>1, <1>3
    <2> QED  BY <1>5, <2>1 DEF CredentialsArrive
  <1>7. /\ n \in RemoteStore /\ n.ok = TRUE /\ n.stream = s
        /\ n.enabled = rs.enabled /\ n.pipeline = rs.pipeline
        /\ n.handshake = rs.handshake /\ n.requests = <<Handshake>>
        /\ n.responses = rs.responses
    <2>1. <<Handshake>> \in Seq(0..MaxOrders)
      BY WritePipelineAssumption DEF Handshake
    <2> QED  BY <1>1, <2>1 DEF RemoteStore
  <1> HIDE DEF n
  <1>8. Wired(n, server, bad, overtaken)
    BY <1>3, <1>5, <1>7 DEF Wired
  <1>9. Full(n, mutationQueue[user])
    BY <1>1, <1>7 DEF Full, Begins
  <1> QED  BY <1>1, <1>6, <1>7, <1>8, <1>9, RemoteKeeps

(* A stream that could not be opened, or breaks, keeps the pipeline.       *)
LEMMA StreamFailsStep ==
    ASSUME PipelineInv, CredentialsFail \/ ConnectionLost
    PROVE  PipelineInv'
  <1>1. /\ rs \in RemoteStore /\ Wired(rs, server, bad, overtaken)
        /\ Full(rs, mutationQueue[user])
        /\ faults < MaxFaults => faults + 1 \in 0..MaxFaults
    BY RemoteFacts
  <1>2. /\ RemoteStep(WriteStreamFailed(rs)) /\ faults' \in 0..MaxFaults
    BY <1>1 DEF CredentialsFail, ConnectionLost
  <1>3. PICK n \in RemoteStore :
            /\ n = WriteStreamFailed(rs) /\ Wired(n, server, bad, overtaken)
            /\ n.pipeline = rs.pipeline /\ n.enabled = rs.enabled
    BY <1>1, FailedKeeps
  <1>4. Full(n, mutationQueue[user])
    BY <1>1, <1>3 DEF Full, Begins
  <1> QED  BY <1>2, <1>3, <1>4, RemoteKeeps

(* An answer to an old request for credentials changes nothing else.       *)
LEMMA StaleStep ==
    ASSUME PipelineInv, StaleCredentialsArrive
    PROVE  PipelineInv'
  <1>1. /\ rs \in RemoteStore /\ Wired(rs, server, bad, overtaken)
        /\ Full(rs, mutationQueue[user]) /\ faults \in 0..MaxFaults
        /\ rs.stream \in Stream
    BY RemoteFacts
  <1> DEFINE n == [rs EXCEPT !.stream.stale = FALSE]
             s == [rs.stream EXCEPT !.stale = FALSE]
  <1>2. RemoteStep(n) /\ faults' = faults
    BY DEF StaleCredentialsArrive
  <1>3. s \in Stream /\ s.state = rs.stream.state /\ s.idle = rs.stream.idle
    BY <1>1 DEF Stream
  <1>4. n = [rs EXCEPT !.stream = s]
    BY <1>1 DEF RemoteStore
  <1> HIDE DEF s
  <1>5. /\ n \in RemoteStore /\ n.ok = rs.ok /\ n.stream = s
        /\ n.enabled = rs.enabled /\ n.pipeline = rs.pipeline
        /\ n.handshake = rs.handshake /\ n.requests = rs.requests
        /\ n.responses = rs.responses
    BY <1>1, <1>3, <1>4 DEF RemoteStore
  <1> HIDE DEF n
  <1>6. Correlated(rs, server, bad, overtaken) => Correlated(n, server, bad, overtaken)
    BY <1>5 DEF Correlated
  <1>7. Wired(n, server, bad, overtaken)
    BY <1>1, <1>3, <1>5, <1>6 DEF Wired, IsOpen, IsStarted
  <1>8. Full(n, mutationQueue[user])
    BY <1>1, <1>5 DEF Full, Begins
  <1> QED  BY <1>1, <1>2, <1>5, <1>7, <1>8, RemoteKeeps

(* After the backoff the stream is started.                                *)
LEMMA BackoffStep ==
    ASSUME PipelineInv, BackoffTimer
    PROVE  PipelineInv'
  <1>1. /\ rs \in RemoteStore /\ Wired(rs, server, bad, overtaken)
        /\ Full(rs, mutationQueue[user]) /\ faults \in 0..MaxFaults
        /\ rs.stream \in Stream
    BY RemoteFacts
  <1> DEFINE s == BackoffElapsed(rs.stream)
             n == [rs EXCEPT !.stream = s]
  <1>2. RemoteStep(n) /\ faults' = faults
    BY DEF BackoffTimer
  <1>3. s \in Stream /\ IsStarted(s) /\ ~IsOpen(s) /\ s.idle = rs.stream.idle
    BY <1>1, StreamOps
  <1>4. ~IsOpen(rs.stream) /\ IsStarted(rs.stream)
    BY DEF BackoffTimer, IsOpen, IsStarted
  <1> HIDE DEF s
  <1>5. /\ n \in RemoteStore /\ n.ok = rs.ok /\ n.stream = s
        /\ n.enabled = rs.enabled /\ n.pipeline = rs.pipeline
        /\ n.handshake = rs.handshake /\ n.requests = rs.requests
        /\ n.responses = rs.responses
    BY <1>1, <1>3 DEF RemoteStore
  <1> HIDE DEF n
  <1>6. Wired(n, server, bad, overtaken)
    BY <1>1, <1>3, <1>4, <1>5 DEF Wired
  <1>7. Full(n, mutationQueue[user])
    BY <1>1, <1>5 DEF Full, Begins
  <1> QED  BY <1>1, <1>2, <1>5, <1>6, <1>7, RemoteKeeps

(* The idleness timer.                                                     *)
LEMMA IdleStep ==
    ASSUME PipelineInv, IdleTimer
    PROVE  PipelineInv'
  <1>1. /\ rs \in RemoteStore /\ Wired(rs, server, bad, overtaken)
        /\ Full(rs, mutationQueue[user]) /\ faults \in 0..MaxFaults
    BY RemoteFacts
  <1>2. RemoteStep(StopWriteStream(rs)) /\ faults' = faults /\ rs.stream.idle
    BY DEF IdleTimer
  <1>3. PICK n \in RemoteStore :
            /\ n = StopWriteStream(rs) /\ Wired(n, server, bad, overtaken)
            /\ n.pipeline = rs.pipeline /\ n.enabled = rs.enabled
    BY <1>1, <1>2, IdleKeeps
  <1>4. Full(n, mutationQueue[user])
    BY <1>1, <1>3 DEF Full, Begins
  <1> QED  BY <1>1, <1>2, <1>3, <1>4, RemoteKeeps

(* The network goes, comes and changes.                                    *)
LEMMA NetworkStep ==
    ASSUME PipelineInv, DisableNetwork \/ EnableNetwork \/ ConnectivityChanged
    PROVE  PipelineInv'
  <1>1. /\ rs \in RemoteStore /\ Wired(rs, server, bad, overtaken)
        /\ Full(rs, mutationQueue[user]) /\ faults \in 0..MaxFaults
        /\ faults < MaxFaults => faults + 1 \in 0..MaxFaults
        /\ rs.enabled => Begins(rs, mutationQueue[user])
    BY RemoteFacts
  <1>2. PICK q \in Seq(Batch) : q = mutationQueue[user] /\ Ordered(q)
    BY RemoteFacts
  <1>3. CASE DisableNetwork
    <2>1. RemoteStep(NetworkDisabled(rs)) /\ faults' \in 0..MaxFaults
      BY <1>1, <1>3 DEF DisableNetwork
    <2>2. PICK n \in RemoteStore :
              /\ n = NetworkDisabled(rs) /\ Wired(n, server, bad, overtaken)
              /\ ~n.enabled
      BY <1>1, DisabledKeeps
    <2>3. Full(n, mutationQueue[user])
      BY <2>2 DEF Full
    <2> QED  BY <2>1, <2>2, <2>3, RemoteKeeps
  <1>4. CASE EnableNetwork
    <2>1. RemoteStep(NetworkEnabled(rs, q)) /\ faults' = faults
      BY <1>2, <1>4 DEF EnableNetwork
    <2>2. PICK n \in RemoteStore :
              /\ n = NetworkEnabled(rs, q) /\ Wired(n, server, bad, overtaken)
              /\ Full(n, q)
      BY <1>1, <1>2, EnabledKeeps
    <2> QED  BY <1>1, <1>2, <2>1, <2>2, RemoteKeeps
  <1>5. CASE ConnectivityChanged
    <2>1. RemoteStep(RestartNetwork(rs, q)) /\ faults' \in 0..MaxFaults
      BY <1>1, <1>2, <1>5 DEF ConnectivityChanged
    <2>2. PICK n \in RemoteStore :
              /\ n = RestartNetwork(rs, q) /\ Wired(n, server, bad, overtaken)
              /\ Full(n, q)
      BY <1>1, <1>2, RestartKeeps
    <2> QED  BY <1>2, <2>1, <2>2, RemoteKeeps
  <1> QED  BY <1>3, <1>4, <1>5

(* The handshake is complete and the whole pipeline is sent.               *)
LEMMA ReadHandshakeStep ==
    ASSUME PipelineInv, ReadHandshake
    PROVE  PipelineInv'
  <1>1. /\ rs \in RemoteStore /\ Wired(rs, server, bad, overtaken)
        /\ Full(rs, mutationQueue[user]) /\ faults \in 0..MaxFaults
        /\ rs.stream \in Stream /\ rs.pipeline \in Seq(Batch)
        /\ rs.responses \in Seq(Response) /\ rs.handshake \in BOOLEAN
    BY RemoteFacts
  <1>2. /\ rs.responses # <<>> /\ Head(rs.responses).kind = "handshake"
    BY DEF ReadHandshake
  <1>3. IsOpen(rs.stream)
    BY <1>1, <1>2 DEF Wired
  <1>4. /\ Len(rs.responses) \in Nat /\ Len(rs.responses) >= 1
        /\ Head(rs.responses) = rs.responses[1]
    BY <1>1, <1>2
  <1>5. ~rs.handshake
    BY <1>1, <1>2, <1>4 DEF Wired, Correlated, Answered, OutOfStep
  <1>6. /\ rs.requests = <<>>
        /\ rs.responses = <<[kind |-> "handshake", doc |-> Handshake]>>
        /\ rs.pipeline # <<>> /\ rs.enabled /\ rs.ok
    <2>1. IsStarted(rs.stream)
      BY <1>1, <1>3, StreamOps
    <2> QED  BY <1>1, <1>2, <1>3, <1>5, <2>1 DEF Wired
  <1>7. PICK s \in Stream : s = Write(rs.stream) /\ IsOpen(s) /\ ~s.idle
    <2>1. /\ Write(rs.stream) \in Stream /\ Write(rs.stream).state = rs.stream.state
          /\ ~Write(rs.stream).idle
      BY <1>1, StreamOps
    <2> QED  BY <1>3, <2>1 DEF IsOpen
  <1>8. PICK d \in Seq(0..MaxOrders) : d = Docs(rs.pipeline)
    BY <1>1, DocsType
  <1> DEFINE n == [rs EXCEPT !.responses = <<>>, !.handshake = TRUE,
                             !.requests = d, !.stream = s]
  <1>9. RemoteStep(n) /\ faults' = faults
    <2>1. Tail(rs.responses) = <<>>
      BY <1>6
    <2> QED  BY <1>6, <1>7, <1>8, <2>1 DEF ReadHandshake
  <1>10. /\ n \in RemoteStore /\ n.ok = rs.ok /\ n.stream = s
         /\ n.enabled = rs.enabled /\ n.pipeline = rs.pipeline
         /\ n.handshake = TRUE /\ n.requests = d /\ n.responses = <<>>
    <2>1. <<>> \in Seq(Response)
      OBVIOUS
    <2> QED  BY <1>1, <2>1 DEF RemoteStore
  <1> HIDE DEF n
  <1>11. InStep(rs.pipeline, <<>>, d)
    BY <1>1, <1>8, InStepSent
  <1>12. Answered(<<>>, server, bad)
    BY DEF Answered
  <1>13. Wired(n, server, bad, overtaken)
    BY <1>6, <1>7, <1>10, <1>11, <1>12 DEF Wired, Correlated
  <1>14. Full(n, mutationQueue[user])
    BY <1>1, <1>10 DEF Full, Begins
  <1> QED  BY <1>1, <1>9, <1>10, <1>13, <1>14, RemoteKeeps

-----------------------------------------------------------------------------
(* The backend.                                                            *)

(* Before the handshake the backend answers it.                            *)
LEMMA ServerGreets ==
    ASSUME PipelineInv, ServerProcesses, ~rs.handshake
    PROVE  /\ rs' \in RemoteStore /\ server' = server
           /\ Wired(rs', server, bad, overtaken)
           /\ rs'.pipeline = rs.pipeline /\ rs'.enabled = rs.enabled
           /\ Head(rs.requests) = Handshake
  <1>1. /\ rs \in RemoteStore /\ Wired(rs, server, bad, overtaken)
        /\ rs.requests # <<>> /\ rs.stream \in Stream
    BY RemoteFacts DEF ServerProcesses
  <1>2. IsOpen(rs.stream)
    BY <1>1 DEF Wired
  <1>3. IsStarted(rs.stream)
    BY <1>1, <1>2, StreamOps
  <1>4. /\ rs.requests = <<Handshake>> /\ rs.responses = <<>>
        /\ rs.pipeline # <<>> /\ rs.enabled /\ rs.ok /\ ~rs.stream.idle
    BY <1>1, <1>2, <1>3 DEF Wired
  <1>5. Head(rs.requests) = Handshake /\ Tail(rs.requests) = <<>>
    BY <1>4
  <1> DEFINE x == [kind |-> "handshake", doc |-> Handshake]
             n == [rs EXCEPT !.requests = <<>>, !.responses = <<x>>]
  <1>6. Append(rs.responses, x) = <<x>>
    BY <1>4
  <1>7. rs' = n /\ server' = server
    BY <1>5, <1>6 DEF ServerProcesses
  <1>8. <<x>> \in Seq(Response) /\ <<>> \in Seq(0..MaxOrders)
    <2>1. x \in Response
      BY WritePipelineAssumption DEF Response, Handshake
    <2> HIDE DEF x
    <2> QED  BY <2>1
  <1>9. /\ n \in RemoteStore /\ n.ok = rs.ok /\ n.stream = rs.stream
        /\ n.enabled = rs.enabled /\ n.pipeline = rs.pipeline
        /\ n.handshake = rs.handshake /\ n.requests = <<>> /\ n.responses = <<x>>
    <2> HIDE DEF x
    <2> QED  BY <1>1, <1>8 DEF RemoteStore
  <1> HIDE DEF n
  <1>10. Wired(n, server, bad, overtaken)
    BY <1>2, <1>4, <1>9 DEF Wired
  <1> QED  BY <1>5, <1>7, <1>9, <1>10

(* After it the backend answers the next batch of the pipeline: it commits   *)
(* what it does not refuse.                                                *)
LEMMA ServerCommits ==
    ASSUME PipelineInv, ServerProcesses, rs.handshake
    PROVE  /\ rs' \in RemoteStore
           /\ server' = IF Head(rs.requests) \in bad THEN server
                        ELSE server \cup {Head(rs.requests)}
           /\ Wired(rs', server', bad, overtaken)
           /\ rs'.pipeline = rs.pipeline /\ rs'.enabled = rs.enabled
           /\ InStep(rs.pipeline, rs.responses, rs.requests)
           /\ Head(rs.requests) = rs.requests[1]
           /\ Head(rs.requests) \in 1..MaxOrders
           /\ Answered(rs.responses, server, bad)
           /\ \A i \in 1..Len(rs.responses) : rs.responses[i].kind # "refusal"
  <1>1. /\ rs \in RemoteStore /\ Wired(rs, server, bad, overtaken)
        /\ rs.requests # <<>> /\ rs.stream \in Stream /\ ~Ended
        /\ rs.pipeline \in Seq(Batch)
        /\ rs.requests \in Seq(0..MaxOrders) /\ rs.responses \in Seq(Response)
    BY RemoteFacts DEF ServerProcesses
  <1>2. /\ Correlated(rs, server, bad, overtaken) /\ rs.ok
        /\ IsOpen(rs.stream)
    BY <1>1 DEF Wired
  <1>3. /\ Len(rs.responses) \in Nat /\ Len(rs.requests) \in Nat
        /\ Len(rs.requests) >= 1
        /\ Head(rs.requests) = rs.requests[1] /\ Head(rs.requests) \in 0..MaxOrders
        /\ Last(rs.responses) = rs.responses[Len(rs.responses)]
    <2>1. PICK t \in Seq(0..MaxOrders) : t = rs.requests /\ t # <<>>
      BY <1>1
    <2>2. Len(t) \in Nat /\ Len(t) >= 1 /\ Head(t) = t[1] /\ t[1] \in 0..MaxOrders
      BY <2>1, Rest
    <2>3. Len(rs.responses) \in Nat
      BY <1>1
    <2> QED  BY <2>1, <2>2, <2>3 DEF Last
  <1>4. InStep(rs.pipeline, rs.responses, rs.requests)
        /\ Answered(rs.responses, server, bad)
    <2>1. ~OutOfStep(rs.pipeline, rs.responses)
      BY <1>1, <1>3 DEF OutOfStep, Ended
    <2> QED  BY <1>2, <2>1 DEF Correlated
  <1>5. \A i \in 1..Len(rs.responses) : rs.responses[i].kind # "refusal"
    BY <1>1, <1>3, <1>4 DEF Answered, Ended
  <1>6. Head(rs.requests) \in 1..MaxOrders
    <2>1. Len(rs.responses) + 1 \in 1..Len(rs.pipeline)
          /\ Head(rs.requests) = rs.pipeline[Len(rs.responses) + 1].doc
      <3>1. Len(rs.pipeline) = Len(rs.responses) + Len(rs.requests)
        BY <1>4 DEF InStep
      <3>2. 1 \in 1..Len(rs.requests)
        BY <1>3
      <3>3. rs.requests[1] = rs.pipeline[Len(rs.responses) + 1].doc
        BY <1>4, <3>2 DEF InStep
      <3>4. \A a, b \in Nat : b >= 1 => a + 1 \in 1..(a + b)
        OBVIOUS
      <3>5. Len(rs.responses) + 1 \in 1..(Len(rs.responses) + Len(rs.requests))
        BY <1>3, <3>4
      <3> QED  BY <1>3, <3>1, <3>3, <3>5
    <2> QED  BY <1>1, <2>1, RowType
  <1> DEFINE d == Head(rs.requests)
             kind == IF d \in bad THEN "refusal" ELSE "result"
             x == [kind |-> kind, doc |-> d]
             n == [rs EXCEPT !.requests = Tail(rs.requests),
                             !.responses = Append(rs.responses, x)]
  <1>7. d # Handshake
    BY <1>6 DEF Handshake
  <1>8. rs' = n /\ server' = IF d \in bad THEN server ELSE server \cup {d}
    BY <1>7 DEF ServerProcesses
  <1>9. x \in Response /\ x.doc = d /\ x.kind = kind
    BY <1>3 DEF Response
  <1>10. /\ Tail(rs.requests) \in Seq(0..MaxOrders)
         /\ Append(rs.responses, x) \in Seq(Response)
         /\ Len(Append(rs.responses, x)) = Len(rs.responses) + 1
         /\ \A i \in 1..Len(rs.responses) :
                Append(rs.responses, x)[i] = rs.responses[i]
         /\ Append(rs.responses, x)[Len(rs.responses) + 1] = x
    <2>1. Tail(rs.requests) \in Seq(0..MaxOrders)
      BY <1>1, HeadTailProperties
    <2> HIDE DEF x
    <2> QED  BY <1>1, <1>9, <2>1, AppendProperties
  <1>11. InStep(rs.pipeline, Append(rs.responses, x), Tail(rs.requests))
    <2> HIDE DEF x
    <2> QED  BY <1>1, <1>4, <1>9, InStepAnswer
  <1>12. Answered(Append(rs.responses, x), server', bad)
    <2>1. ASSUME NEW i \in 1..Len(rs.responses)
          PROVE  rs.responses[i].kind = "result" /\ rs.responses[i].doc \in server'
      BY <1>4, <1>5, <1>8 DEF Answered
    <2>2. \/ x.kind = "result" /\ x.doc \in server'
          \/ x.kind = "refusal" /\ x.doc \in bad
      BY <1>8, <1>9
    <2> HIDE DEF x
    <2>3. ASSUME NEW i \in 1..(Len(rs.responses) + 1)
          PROVE  i \in 1..Len(rs.responses) \/ i = Len(rs.responses) + 1
      BY <1>3
    <2> QED  BY <1>10, <2>1, <2>2, <2>3 DEF Answered
  <1> HIDE DEF x
  <1>13. /\ n \in RemoteStore /\ n.ok = rs.ok /\ n.stream = rs.stream
         /\ n.enabled = rs.enabled /\ n.pipeline = rs.pipeline
         /\ n.handshake = rs.handshake /\ n.requests = Tail(rs.requests)
         /\ n.responses = Append(rs.responses, x)
    BY <1>1, <1>10 DEF RemoteStore
  <1> HIDE DEF n
  <1>14. Correlated(n, server', bad, overtaken)
    BY <1>11, <1>12, <1>13 DEF Correlated
  <1>15. Wired(n, server', bad, overtaken)
    BY <1>1, <1>2, <1>13, <1>14 DEF Wired
  <1> QED  BY <1>3, <1>4, <1>5, <1>6, <1>8, <1>13, <1>15

(* The backend holds more or as much as before.                            *)
LEMMA ServerStep ==
    ASSUME PipelineInv, ServerProcesses
    PROVE  PipelineInv'
  <1> USE DEF PipelineInv
  <1>1. /\ UNCHANGED <<placed, mutationQueue, nextBatchId, mutationCallbacks,
                       futures, waiters, user, rejected, bad, faults, overtaken>>
    BY DEF ServerProcesses, diskVars, syncVars, netVars
  <1>2. /\ rs' \in RemoteStore /\ Wired(rs', server', bad, overtaken)
        /\ rs'.pipeline = rs.pipeline /\ rs'.enabled = rs.enabled
        /\ server \subseteq server' /\ server' \subseteq 1..MaxOrders
        /\ server' \cap bad = {}
    <2>1. CASE rs.handshake
      BY <2>1, ServerCommits DEF TypeOK
    <2>2. CASE ~rs.handshake
      BY <2>2, ServerGreets DEF TypeOK
    <2> QED  BY <2>1, <2>2
  <1>3. TypeOK'
    BY <1>1, <1>2 DEF TypeOK
  <1>4. QueuesSound'
    BY <1>1 DEF QueuesSound, Ordered, Owned
  <1>5. Full(rs, mutationQueue[user])'
    BY <1>1, <1>2 DEF Full, Begins
  <1>6. Wired(rs, server, bad, overtaken)' /\ (server \cap bad = {})'
    BY <1>1, <1>2
  <1>7. CallbacksBacked'
    BY <1>1 DEF CallbacksBacked
  <1>8. FuturesSound' /\ NoneLost'
    BY <1>1, <1>2 DEF FuturesSound, NoneLost, Pending
  <1>9. WaitersSound'
    BY <1>1 DEF WaitersSound, Pending
  <1> QED  BY <1>3, <1>4, <1>5, <1>6, <1>7, <1>8, <1>9

-----------------------------------------------------------------------------
(* Writes, waiters, users and restarts.                                    *)

(* LoadNextBatchIdFromDb() finds an id above all those on disk, and not      *)
(* above the number of documents written.                                  *)
LEMMA LoadedId ==
    ASSUME PipelineInv
    PROVE  /\ LoadNextBatchId(mutationQueue) \in 1..(Len(placed) + 1)
           /\ LoadNextBatchId(mutationQueue) \in 1..(MaxOrders + 1)
           /\ \A u \in Users : \A i \in 1..Len(mutationQueue[u]) :
                    mutationQueue[u][i].id < LoadNextBatchId(mutationQueue)
  <1> DEFINE rows == UNION {ToSet(mutationQueue[u]) : u \in Users}
             ids == {0} \cup {b.id : b \in rows}
  <1>1. Len(placed) \in Nat /\ MaxOrders \in Nat /\ Len(placed) <= MaxOrders
        /\ nextBatchId \in Nat /\ nextBatchId <= Len(placed) + 1
    BY WritePipelineAssumption DEF PipelineInv, TypeOK, QueuesSound
  <1>2. ASSUME NEW u \in Users, NEW i \in 1..Len(mutationQueue[u])
        PROVE  mutationQueue[u][i].id \in 0..Len(placed)
    <2>1. mutationQueue[u][i].id \in Nat
      BY RemoteFacts, RowType
    <2>2. mutationQueue[u][i].id < nextBatchId
      BY DEF PipelineInv, QueuesSound, Owned
    <2> QED  BY <1>1, <2>1, <2>2
  <1>3. \A u \in Users : DOMAIN mutationQueue[u] = 1..Len(mutationQueue[u])
    BY RemoteFacts
  <1>4. ASSUME NEW b \in rows PROVE b.id \in 0..Len(placed)
    <2>1. PICK u \in Users : b \in ToSet(mutationQueue[u])
      OBVIOUS
    <2>2. PICK i \in 1..Len(mutationQueue[u]) : b = mutationQueue[u][i]
      BY <1>3, <2>1 DEF ToSet
    <2> QED  BY <1>2, <2>2
  <1>5. ASSUME NEW u \in Users, NEW i \in 1..Len(mutationQueue[u])
        PROVE  mutationQueue[u][i].id \in ids
    <2>1. mutationQueue[u][i] \in ToSet(mutationQueue[u])
      BY <1>3 DEF ToSet
    <2>2. mutationQueue[u][i] \in rows
      BY <2>1
    <2> QED  BY <2>2
  <1>6. LoadNextBatchId(mutationQueue) = 1 + Max(ids)
    BY DEF LoadNextBatchId
  <1> HIDE DEF rows
  <1>7. ids \in SUBSET (0..Len(placed)) /\ ids # {}
    BY <1>1, <1>4
  <1> HIDE DEF ids
  <1>8. Max(ids) \in ids /\ \A y \in ids : y <= Max(ids)
    BY <1>1, <1>7, NatMax
  <1>9. Max(ids) \in 0..Len(placed)
    BY <1>7, <1>8
  <1>10. \A u \in Users : \A i \in 1..Len(mutationQueue[u]) :
            mutationQueue[u][i].id < 1 + Max(ids)
    <2> SUFFICES ASSUME NEW u \in Users, NEW i \in 1..Len(mutationQueue[u])
                 PROVE  mutationQueue[u][i].id < 1 + Max(ids)
      OBVIOUS
    <2>1. mutationQueue[u][i].id <= Max(ids) /\ mutationQueue[u][i].id \in 0..Len(placed)
      BY <1>2, <1>5, <1>8
    <2> QED  BY <1>1, <1>9, <2>1
  <1> QED  BY <1>1, <1>6, <1>9, <1>10

(* Another user's queue takes over.                                        *)
LEMMA CredentialStep ==
    ASSUME PipelineInv, NEW u \in Users, HandleCredentialChange(u)
    PROVE  PipelineInv'
  <1> USE DEF PipelineInv
  <1>1. /\ faults' = faults + 1 /\ faults < MaxFaults /\ user' = u
        /\ rs' = IF rs.enabled THEN RestartNetwork(rs, mutationQueue[u]) ELSE rs
        /\ UNCHANGED <<placed, mutationQueue, mutationCallbacks, futures, server,
                       rejected, bad, overtaken>>
    BY DEF HandleCredentialChange, diskVars
  <1>2. faults' \in 0..MaxFaults /\ mutationQueue[u] \in Seq(Batch)
        /\ Ordered(mutationQueue[u]) /\ rs \in RemoteStore
        /\ Wired(rs, server, bad, overtaken) /\ Full(rs, mutationQueue[user])
    BY <1>1, RemoteFacts
  <1>3. /\ rs' \in RemoteStore /\ Wired(rs', server, bad, overtaken)
        /\ Full(rs', mutationQueue[u])
    <2>1. CASE rs.enabled
      BY <1>1, <1>2, <2>1, RestartKeeps
    <2>2. CASE ~rs.enabled
      BY <1>1, <1>2, <2>2 DEF Full
    <2> QED  BY <2>1, <2>2
  <1>4. /\ nextBatchId' \in 1..(MaxOrders + 1) /\ nextBatchId' <= Len(placed) + 1
        /\ \A v \in Users : \A i \in 1..Len(mutationQueue[v]) :
                mutationQueue[v][i].id < nextBatchId'
    <2>1. CASE u = user
      <3>1. nextBatchId' = nextBatchId
        BY <2>1 DEF HandleCredentialChange
      <3> QED  BY <3>1 DEF TypeOK, QueuesSound, Owned
    <2>2. CASE u # user
      <3>1. nextBatchId' = LoadNextBatchId(mutationQueue)
        BY <2>2 DEF HandleCredentialChange
      <3>2. Len(placed) \in Nat
        BY DEF TypeOK
      <3> QED  BY <3>1, <3>2, LoadedId
    <2> QED  BY <2>1, <2>2
  <1>5. waiters' \subseteq Waiter /\ WaitersSound'
    <2>1. CASE u = user
      <3>1. waiters' = waiters
        BY <2>1 DEF HandleCredentialChange
      <3> QED  BY <1>1, <2>1, <3>1 DEF TypeOK, WaitersSound, Pending
    <2>2. CASE u # user
      <3> DEFINE fail(w) == IF w.status = "waiting"
                            THEN [w EXCEPT !.status = "cancelled"] ELSE w
                 g == [w \in waiters |-> fail(w)]
      <3>1. waiters' = {fail(w) : w \in waiters}
        BY <2>2 DEF HandleCredentialChange, FailOutstandingPendingWriteCallbacks
      <3>2. ASSUME NEW w \in waiters
            PROVE  /\ fail(w) \in Waiter /\ fail(w).docs = w.docs
                   /\ fail(w).user = w.user /\ fail(w).status # "waiting"
                   /\ fail(w).status = "ok" => w.status = "ok"
        <4>1. w \in Waiter
          BY DEF TypeOK
        <4> QED  BY <4>1 DEF Waiter
      <3> HIDE DEF fail
      <3>3. waiters' \subseteq Waiter
        BY <3>1, <3>2
      <3>4. IsFiniteSet(waiters')
        <4>1. g \in Surjection(waiters, waiters')
          BY <3>1 DEF Surjection
        <4>2. IsFiniteSet(waiters)
          BY DEF WaitersSound
        <4> HIDE DEF g
        <4> QED  BY <4>1, <4>2, FS_Surjection
      <3>5. \A w \in waiters :
                /\ w.docs \subseteq 1..Len(placed)
                /\ w.status = "ok" => \A d \in w.docs : ~Pending(w.user, d)
        BY DEF WaitersSound
      <3>6. \A v, d : Pending(v, d)' <=> Pending(v, d)
        BY <1>1 DEF Pending
      <3>7. ASSUME NEW x \in waiters'
            PROVE  /\ x.docs \subseteq (1..Len(placed))'
                   /\ x.status = "ok" => \A d \in x.docs : ~Pending(x.user, d)'
                   /\ x.status # "waiting"
        <4>1. PICK w \in waiters : x = fail(w)
          BY <3>1
        <4> QED  BY <1>1, <3>2, <3>5, <3>6, <4>1
      <3> QED  BY <3>3, <3>4, <3>7 DEF WaitersSound
    <2> QED  BY <2>1, <2>2
  <1>6. TypeOK'
    BY <1>1, <1>2, <1>3, <1>4, <1>5 DEF TypeOK
  <1>7. QueuesSound'
    BY <1>1, <1>4 DEF QueuesSound, Ordered, Owned
  <1>8. Full(rs, mutationQueue[user])' /\ Wired(rs, server, bad, overtaken)'
    BY <1>1, <1>3
  <1>9. CallbacksBacked'
    BY <1>1 DEF CallbacksBacked
  <1>10. FuturesSound' /\ NoneLost'
    BY <1>1 DEF FuturesSound, NoneLost, Pending
  <1> QED  BY <1>1, <1>5, <1>6, <1>7, <1>8, <1>9, <1>10

(* A RemoteStore that has just been made.                                  *)
LEMMA NewStoreWired ==
    ASSUME NEW held, NEW refused, NEW late, NEW q \in Seq(Batch)
    PROVE  /\ NewRemoteStore \in RemoteStore
           /\ Wired(NewRemoteStore, held, refused, late)
           /\ Begins(NewRemoteStore, q)
  <1> DEFINE n == NewRemoteStore
  <1>1. /\ <<>> \in Seq(Batch) /\ <<>> \in Seq(0..MaxOrders)
        /\ <<>> \in Seq(Response) /\ Len(<<>>) = 0
    OBVIOUS
  <1>2. NewStream \in Stream /\ ~IsStarted(NewStream) /\ ~IsOpen(NewStream)
        /\ ~NewStream.idle
    BY DEF NewStream, Stream, IsStarted, IsOpen
  <1>3. /\ n \in RemoteStore /\ n.ok = TRUE /\ n.stream = NewStream
        /\ n.enabled = TRUE /\ n.pipeline = <<>> /\ n.handshake = FALSE
        /\ n.requests = <<>> /\ n.responses = <<>>
    BY <1>1, <1>2 DEF NewRemoteStore, RemoteStore
  <1> HIDE DEF n
  <1>4. Wired(n, held, refused, late)
    BY <1>2, <1>3 DEF Wired
  <1>5. Begins(n, q)
    <2>1. Len(q) \in Nat /\ MaxPendingWrites \in Nat
      BY WritePipelineAssumption
    <2> QED  BY <1>1, <1>3, <2>1 DEF Begins
  <1> QED  BY <1>3, <1>4, <1>5 DEF n

(* The process starts again with what is on disk.                          *)
LEMMA RestartStep ==
    ASSUME PipelineInv, Restart
    PROVE  PipelineInv'
  <1> USE DEF PipelineInv
  <1>1. /\ faults' = faults + 1 /\ faults < MaxFaults
        /\ nextBatchId' = LoadNextBatchId(mutationQueue)
        /\ mutationCallbacks' = {} /\ futures' = {} /\ waiters' = {}
        /\ rs' = NetworkEnabled(NewRemoteStore, mutationQueue[user])
        /\ UNCHANGED <<placed, mutationQueue, user, server, rejected, bad, overtaken>>
    BY DEF Restart, diskVars
  <1>2. faults' \in 0..MaxFaults /\ mutationQueue[user] \in Seq(Batch)
        /\ Ordered(mutationQueue[user])
    BY <1>1, RemoteFacts
  <1>3. /\ NewRemoteStore \in RemoteStore
        /\ Wired(NewRemoteStore, server, bad, overtaken)
        /\ Begins(NewRemoteStore, mutationQueue[user])
    BY <1>2, NewStoreWired
  <1>4. /\ rs' \in RemoteStore /\ Wired(rs', server, bad, overtaken)
        /\ Full(rs', mutationQueue[user])
    BY <1>1, <1>2, <1>3, EnabledKeeps
  <1>5. TypeOK'
    BY <1>1, <1>2, <1>4, LoadedId DEF TypeOK
  <1>6. QueuesSound'
    <2>1. Len(placed) \in Nat
      BY DEF TypeOK
    <2>2. nextBatchId' <= Len(placed) + 1
      BY <1>1, <2>1, LoadedId
    <2> QED  BY <1>1, <2>2, LoadedId DEF QueuesSound, Ordered, Owned
  <1>7. Full(rs, mutationQueue[user])' /\ Wired(rs, server, bad, overtaken)'
    BY <1>1, <1>4
  <1>8. CallbacksBacked' /\ FuturesSound' /\ NoneLost'
    BY <1>1 DEF CallbacksBacked, FuturesSound, NoneLost, Pending
  <1>9. WaitersSound'
    BY <1>1, FS_EmptySet DEF WaitersSound
  <1> QED  BY <1>1, <1>5, <1>6, <1>7, <1>8, <1>9

(* A new waiter waits for the last batch of the queue, or for nothing.     *)
LEMMA RegisterStep ==
    ASSUME PipelineInv, RegisterPendingWritesCallback
    PROVE  PipelineInv'
  <1> USE DEF PipelineInv
  <1>1. UNCHANGED <<placed, mutationQueue, nextBatchId, mutationCallbacks, futures,
                    user, rs, server, rejected, bad, faults, overtaken>>
    BY DEF RegisterPendingWritesCallback, diskVars, netVars
  <1>0. PICK q : q = mutationQueue[user]
    OBVIOUS
  <1> DEFINE x == [call |-> Cardinality(waiters) + 1,
                   docs |-> ToSet(Docs(q)), user |-> user,
                   id |-> IF q = <<>> THEN 0 ELSE Last(q).id,
                   status |-> IF q = <<>> THEN "ok" ELSE "waiting"]
  <1>1a. PICK w : w = x
    OBVIOUS
  <1>2. waiters' = waiters \cup {w} /\ Cardinality(waiters) < MaxWaiters
    BY <1>0, <1>1a DEF RegisterPendingWritesCallback
  <1>3. IsFiniteSet(waiters) /\ IsFiniteSet(waiters')
    <2>1. IsFiniteSet(waiters)
      BY DEF WaitersSound
    <2> QED  BY <1>2, <2>1, FS_AddElement
  <1>4. Cardinality(waiters) + 1 \in 1..MaxWaiters
    <2>1. Cardinality(waiters) \in Nat /\ MaxWaiters \in Nat
      BY <1>3, FS_CardinalityType, WritePipelineAssumption
    <2> QED  BY <1>2, <2>1
  <1>5. q \in Seq(Batch) /\ Ordered(q) /\ user \in Users
    BY <1>0, RemoteFacts
  <1>6. /\ Len(q) \in Nat
        /\ \A i \in 1..Len(q) :
            /\ q[i].id \in 1..MaxOrders /\ q[i].id \in Nat
            /\ q[i].doc \in 1..MaxOrders /\ q[i].doc \in 1..Len(placed)
    BY <1>0, <1>5, RowType DEF QueuesSound, Owned
  <1>7. \A d : d \in ToSet(Docs(q)) <=> \E i \in 1..Len(q) : q[i].doc = d
    <2>1. /\ Docs(q) \in Seq(1..MaxOrders) /\ Len(Docs(q)) = Len(q)
          /\ \A i \in 1..Len(q) : Docs(q)[i] = q[i].doc
      BY <1>5, DocsType
    <2>2. DOMAIN Docs(q) = 1..Len(q)
      BY <2>1
    <2> QED  BY <2>1, <2>2 DEF ToSet
  <1>8. q # <<>> => Last(q) = q[Len(q)] /\ Len(q) \in 1..Len(q)
    BY <1>5, <1>6 DEF Last
  <1>9. /\ w.docs = ToSet(Docs(q)) /\ w.user = user
        /\ w.id = IF q = <<>> THEN 0 ELSE Last(q).id
        /\ w.status = IF q = <<>> THEN "ok" ELSE "waiting"
    BY <1>1a
  <1>10. w \in Waiter
    <2>1. ToSet(Docs(q)) \subseteq 1..MaxOrders
      BY <1>6, <1>7
    <2>2. (IF q = <<>> THEN 0 ELSE Last(q).id) \in 0..MaxOrders
      BY <1>6, <1>8, WritePipelineAssumption
    <2> QED  BY <1>1a, <1>4, <1>5, <2>1, <2>2 DEF Waiter
  <1> HIDE DEF x
  <1>11. TypeOK'
    BY <1>1, <1>2, <1>10 DEF TypeOK
  <1>12. \A v, d : Pending(v, d)' <=> Pending(v, d)
    BY <1>1 DEF Pending
  <1>13. \A y \in waiters :
            /\ y.docs \subseteq 1..Len(placed)
            /\ y.status = "ok" => \A d \in y.docs : ~Pending(y.user, d)'
            /\ y.status = "waiting" =>
                /\ y.user = user
                /\ \A i \in 1..Len(q) : q[i].doc \in y.docs => q[i].id <= y.id
    BY <1>0, <1>12 DEF WaitersSound
  <1>14. /\ w.docs \subseteq 1..Len(placed)
         /\ w.status = "ok" => \A d \in w.docs : ~Pending(w.user, d)'
         /\ w.status = "waiting" =>
                /\ w.user = user
                /\ \A i \in 1..Len(q) : q[i].doc \in w.docs => q[i].id <= w.id
    <2>1. w.docs \subseteq 1..Len(placed)
      BY <1>6, <1>7, <1>9
    <2>2. CASE q = <<>>
      <3>1. w.docs = {} /\ w.status = "ok"
        BY <1>6, <1>7, <1>9, <2>2
      <3> QED  BY <2>1, <3>1
    <2>3. CASE q # <<>>
      <3>1. w.status = "waiting" /\ w.id = q[Len(q)].id /\ Len(q) \in 1..Len(q)
            /\ w.user = user
        BY <1>8, <1>9, <2>3
      <3>2. \A i \in 1..Len(q) : q[i].id <= q[Len(q)].id
        <4> SUFFICES ASSUME NEW i \in 1..Len(q) PROVE q[i].id <= q[Len(q)].id
          OBVIOUS
        <4>1. i < Len(q) => q[i].id < q[Len(q)].id
          BY <1>5, <3>1 DEF Ordered
        <4> QED  BY <1>6, <3>1, <4>1
      <3> QED  BY <2>1, <3>1, <3>2
    <2> QED  BY <2>2, <2>3
  <1>15. WaitersSound'
    BY <1>0, <1>1, <1>2, <1>3, <1>13, <1>14 DEF WaitersSound
  <1>16. QueuesSound' /\ CallbacksBacked' /\ FuturesSound' /\ NoneLost'
    BY <1>1 DEF QueuesSound, Ordered, Owned, CallbacksBacked, FuturesSound,
                NoneLost, Pending
  <1> QED  BY <1>1, <1>11, <1>15, <1>16

(* A new row at the end of a queue.                                        *)
LEMMA NewLastRow ==
    ASSUME NEW q \in Seq(Batch), Ordered(q), NEW b \in Batch,
           \A i \in 1..Len(q) : q[i].id < b.id /\ q[i].doc < b.doc
    PROVE  /\ Append(q, b) \in Seq(Batch) /\ Ordered(Append(q, b))
           /\ Len(Append(q, b)) = Len(q) + 1
           /\ \A i \in 1..Len(q) : Append(q, b)[i] = q[i]
           /\ Append(q, b)[Len(q) + 1] = b
           /\ \A i \in 1..Len(Append(q, b)) : i \in 1..Len(q) \/ i = Len(q) + 1
  <1>1. /\ Append(q, b) \in Seq(Batch) /\ Len(Append(q, b)) = Len(q) + 1
        /\ \A i \in 1..Len(q) : Append(q, b)[i] = q[i]
        /\ Append(q, b)[Len(q) + 1] = b
    BY AppendProperties
  <1>2. Len(q) \in Nat
    OBVIOUS
  <1>3. \A i \in 1..(Len(q) + 1) : i \in 1..Len(q) \/ i = Len(q) + 1
    BY <1>2
  <1>4. Ordered(Append(q, b))
    <2> SUFFICES ASSUME NEW i \in 1..(Len(q) + 1), NEW j \in 1..(Len(q) + 1), i < j
                 PROVE  /\ Append(q, b)[i].id < Append(q, b)[j].id
                        /\ Append(q, b)[i].doc < Append(q, b)[j].doc
      BY <1>1 DEF Ordered
    <2>1. i \in 1..Len(q)
      BY <1>2
    <2>2. CASE j \in 1..Len(q)
      BY <1>1, <2>1, <2>2 DEF Ordered
    <2>3. CASE j = Len(q) + 1
      BY <1>1, <2>1, <2>3
    <2> QED  BY <1>3, <2>2, <2>3
  <1> QED  BY <1>1, <1>3, <1>4

(* A write goes to disk and into the pipeline.                             *)
LEMMA WriteStep ==
    ASSUME PipelineInv, WriteMutations
    PROVE  PipelineInv'
  <1> USE DEF PipelineInv
  <1>a. PICK n, q : n = Len(placed) + 1 /\ q = mutationQueue[user]
    OBVIOUS
  <1>b. PICK b : b = [id |-> nextBatchId, doc |-> n]
    OBVIOUS
  <1>c. PICK more : more = Append(q, b)
    OBVIOUS
  <1> DEFINE c == [user |-> user, id |-> nextBatchId, doc |-> n]
             f == [order |-> n, inst |-> 0, status |-> "waiting"]
  <1>1. /\ user \in Users /\ q \in Seq(Batch) /\ Ordered(q)
        /\ rs \in RemoteStore /\ Wired(rs, server, bad, overtaken)
        /\ rs.enabled => Begins(rs, q)
    BY <1>a, RemoteFacts
  <1>2. /\ n <= MaxOrders /\ placed \in Seq(Users) /\ Len(placed) \in Nat
        /\ MaxOrders \in Nat /\ nextBatchId \in 1..(MaxOrders + 1)
        /\ nextBatchId <= n /\ n \in 1..MaxOrders /\ nextBatchId \in 1..MaxOrders
        /\ nextBatchId \in Nat
    <2>1. n <= MaxOrders
      BY <1>a DEF WriteMutations
    <2>2. placed \in Seq(Users) /\ Len(placed) \in Nat /\ MaxOrders \in Nat
          /\ nextBatchId \in 1..(MaxOrders + 1) /\ nextBatchId <= n
      BY <1>a, WritePipelineAssumption DEF TypeOK, QueuesSound
    <2> QED  BY <1>a, <2>1, <2>2
  <1>3. b \in Batch /\ b.id = nextBatchId /\ b.doc = n
    BY <1>b, <1>2 DEF Batch
  <1>4. \A i \in 1..Len(q) :
            /\ q[i].id < nextBatchId /\ q[i].doc \in 1..Len(placed)
            /\ placed[q[i].doc] = user
    BY <1>a, <1>1 DEF QueuesSound, Owned
  <1>5. \A i \in 1..Len(q) : q[i].id < b.id /\ q[i].doc < b.doc
    BY <1>a, <1>2, <1>3, <1>4
  <1>6. AddMutationBatch(q, b) = more
    BY <1>c, <1>1, <1>3, <1>5, AddLastRow
  <1>7. /\ placed' = Append(placed, user)
        /\ mutationQueue' = [mutationQueue EXCEPT ![user] = more]
        /\ nextBatchId' = nextBatchId + 1
        /\ mutationCallbacks' = mutationCallbacks \cup {c}
        /\ futures' = futures \cup {f}
        /\ rs' = FillWritePipeline(rs, more)
        /\ UNCHANGED <<waiters, user, server, rejected, bad, faults, overtaken>>
    BY <1>a, <1>b, <1>6 DEF WriteMutations, netVars
  <1>8. /\ more \in Seq(Batch) /\ Ordered(more) /\ Len(more) = Len(q) + 1
        /\ \A i \in 1..Len(q) : more[i] = q[i]
        /\ more[Len(q) + 1] = b
        /\ \A i \in 1..Len(more) : i \in 1..Len(q) \/ i = Len(q) + 1
    BY <1>c, <1>1, <1>3, <1>5, NewLastRow
  <1>9. Len(q) \in Nat
    BY <1>1
  <1>10. /\ placed' \in Seq(Users) /\ Len(placed') = n
         /\ \A d \in 1..Len(placed) : placed'[d] = placed[d]
         /\ placed'[n] = user
         /\ \A d \in 1..Len(placed') : d \in 1..Len(placed) \/ d = n
         /\ 1..Len(placed) \subseteq 1..Len(placed') /\ n \in 1..Len(placed')
         /\ n \notin 1..Len(placed)
    <2>1. /\ placed' \in Seq(Users) /\ Len(placed') = n
          /\ \A d \in 1..Len(placed) : placed'[d] = placed[d]
          /\ placed'[n] = user
      BY <1>a, <1>1, <1>2, <1>7, AppendProperties
    <2>2. \A d \in 1..n : d \in 1..Len(placed) \/ d = n
      BY <1>a, <1>2
    <2>3. 1..Len(placed) \subseteq 1..n /\ n \in 1..n /\ n \notin 1..Len(placed)
      BY <1>a, <1>2
    <2>4. 1..Len(placed') = 1..n
      BY <2>1
    <2>5. \A d \in 1..Len(placed') : d \in 1..Len(placed) \/ d = n
      BY <2>2, <2>4
    <2>6. 1..Len(placed) \subseteq 1..Len(placed') /\ n \in 1..Len(placed')
      BY <2>3, <2>4
    <2> QED  BY <2>1, <2>3, <2>5, <2>6
  <1>11. rs.enabled => Begins(rs, more)
    <2>1. rs.pipeline \in Seq(Batch)
      BY RemoteFacts
    <2>2. Len(rs.pipeline) \in Nat
      BY <2>1
    <2> QED  BY <1>1, <1>8, <1>9, <2>2 DEF Begins
  <1>12. /\ rs' \in RemoteStore /\ Wired(rs', server, bad, overtaken)
         /\ Full(rs', more)
    BY <1>1, <1>7, <1>8, <1>11, FillKeeps
  <1>13. /\ mutationQueue' \in [Users -> Seq(Batch)] /\ mutationQueue'[user] = more
         /\ \A u \in Users : u # user => mutationQueue'[u] = mutationQueue[u]
    BY <1>1, <1>7, <1>8 DEF TypeOK
  <1>14. TypeOK'
    <2>1. c \in [user : Users, id : 1..MaxOrders, doc : 1..MaxOrders]
      BY <1>1, <1>2
    <2>2. f \in [order : 1..MaxOrders, inst : {0}, status : {"waiting", "ok", "error"}]
      BY <1>2
    <2>3. nextBatchId' \in 1..(MaxOrders + 1)
      BY <1>2, <1>7
    <2> HIDE DEF c, f
    <2>4. Len(placed') <= MaxOrders
      BY <1>2, <1>10
    <2> QED  BY <1>7, <1>10, <1>12, <1>13, <2>1, <2>2, <2>3, <2>4 DEF TypeOK
  <1>15. QueuesSound'
    <2>1. nextBatchId' <= Len(placed') + 1
      BY <1>2, <1>7, <1>10
    <2>2. ASSUME NEW u \in Users, u # user
          PROVE  Ordered(mutationQueue[u])' /\ Owned(mutationQueue[u], u)'
      <3>1. mutationQueue'[u] = mutationQueue[u] /\ mutationQueue[u] \in Seq(Batch)
            /\ Ordered(mutationQueue[u]) /\ Owned(mutationQueue[u], u)
        BY <1>13, <2>2, RemoteFacts DEF QueuesSound
      <3>2. \A i \in 1..Len(mutationQueue[u]) : mutationQueue[u][i].id \in Nat
        BY <3>1, RowType
      <3> QED  BY <1>2, <1>7, <1>10, <3>1, <3>2 DEF Owned
    <2>3. Owned(more, user)'
      <3> SUFFICES ASSUME NEW i \in 1..Len(more)
                   PROVE  /\ more[i].id < nextBatchId'
                          /\ more[i].doc \in 1..Len(placed')
                          /\ placed'[more[i].doc] = user
        BY <1>7 DEF Owned
      <3>1. CASE i \in 1..Len(q)
        <4>1. q[i].id \in Nat
          BY <1>1, <3>1, RowType
        <4> QED  BY <1>2, <1>4, <1>7, <1>8, <1>10, <3>1, <4>1
      <3>2. CASE i = Len(q) + 1
        BY <1>2, <1>3, <1>7, <1>8, <1>10, <3>2
      <3> QED  BY <1>8, <3>1, <3>2
    <2>4. Ordered(mutationQueue[user])' /\ Owned(mutationQueue[user], user)'
      BY <1>7, <1>8, <1>13, <2>3
    <2> QED  BY <1>7, <2>1, <2>2, <2>4 DEF QueuesSound
  <1>16. ASSUME NEW u \in Users, NEW i \in 1..Len(mutationQueue[u])
         PROVE  /\ i \in 1..Len(mutationQueue'[u])
                /\ mutationQueue'[u][i] = mutationQueue[u][i]
    <2>1. CASE u = user
      BY <1>a, <1>8, <1>9, <1>13, <2>1
    <2>2. CASE u # user
      BY <1>13, <2>2
    <2> QED  BY <2>1, <2>2
  <1>17. ASSUME NEW u \in Users, NEW i \in 1..Len(mutationQueue'[u])
         PROVE  \/ /\ i \in 1..Len(mutationQueue[u])
                   /\ mutationQueue'[u][i] = mutationQueue[u][i]
                \/ u = user /\ i = Len(q) + 1 /\ mutationQueue'[u][i].doc = n
    <2>1. CASE u = user
      BY <1>a, <1>3, <1>8, <1>13, <2>1
    <2>2. CASE u # user
      BY <1>13, <2>2
    <2> QED  BY <2>1, <2>2
  <1>18. CallbacksBacked'
    <2>1. ASSUME NEW x \in mutationCallbacks
          PROVE  \E i \in 1..Len(mutationQueue'[x.user]) :
                    /\ mutationQueue'[x.user][i].id = x.id
                    /\ mutationQueue'[x.user][i].doc = x.doc
      <3>1. x.user \in Users
        BY DEF TypeOK
      <3> QED  BY <1>16, <3>1 DEF CallbacksBacked
    <2>2. \E i \in 1..Len(mutationQueue'[c.user]) :
                    /\ mutationQueue'[c.user][i].id = c.id
                    /\ mutationQueue'[c.user][i].doc = c.doc
      <3>1. Len(q) + 1 \in 1..Len(more)
        BY <1>8, <1>9
      <3> QED  BY <1>3, <1>8, <1>13, <3>1
    <2> HIDE DEF c
    <2> QED  BY <1>7, <2>1, <2>2 DEF CallbacksBacked
  <1>19. ASSUME NEW u \in Users, NEW d
         PROVE  /\ Pending(u, d) => Pending(u, d)'
                /\ d \in 1..Len(placed) /\ Pending(u, d)' => Pending(u, d)
    <2>1. mutationQueue[u] \in Seq(Batch) /\ mutationQueue'[u] \in Seq(Batch)
      BY <1>13, RemoteFacts
    <2>2. /\ Pending(u, d) <=> \E i \in 1..Len(mutationQueue[u]) :
                                    mutationQueue[u][i].doc = d
          /\ Pending(u, d)' <=> \E i \in 1..Len(mutationQueue'[u]) :
                                    mutationQueue'[u][i].doc = d
      BY <2>1, RowsPending DEF Pending
    <2>3. Pending(u, d) => Pending(u, d)'
      BY <1>16, <2>2
    <2>4. ASSUME d \in 1..Len(placed), Pending(u, d)' PROVE Pending(u, d)
      <3>1. PICK i \in 1..Len(mutationQueue'[u]) : mutationQueue'[u][i].doc = d
        BY <2>2, <2>4
      <3>2. d # n
        BY <1>10, <2>4
      <3>3. i \in 1..Len(mutationQueue[u]) /\ mutationQueue[u][i].doc = d
        BY <1>17, <3>1, <3>2
      <3> QED  BY <2>2, <3>3
    <2> QED  BY <2>3, <2>4
  <1>20. Pending(user, n)'
    <2>1. Len(q) + 1 \in 1..Len(more) /\ more[Len(q) + 1].doc = n
      BY <1>3, <1>8, <1>9
    <2>2. \E i \in 1..Len(more) : more[i].doc = n
      BY <2>1
    <2>3. \E x \in ToSet(more) : x.doc = n
      BY <1>8, <2>2, RowsPending
    <2>4. mutationQueue'[user'] = more
      BY <1>7, <1>13
    <2> QED  BY <2>3, <2>4 DEF Pending
  <1>21. FuturesSound'
    <2>1. ASSUME NEW x \in futures
          PROVE  /\ x.order <= Len(placed')
                 /\ x.status = "waiting" =>
                        \E y \in mutationCallbacks' : y.doc = x.order
                 /\ x.status # "waiting" => \A u \in Users : ~Pending(u, x.order)'
                 /\ x.status = "ok" => x.order \in server
                 /\ x.status = "error" /\ overtaken = 0 => x.order \in bad
      <3>1. x.order \in 1..MaxOrders /\ x.order <= Len(placed)
        BY DEF TypeOK, FuturesSound
      <3>2. x.order \in 1..Len(placed) /\ x.order <= Len(placed')
        BY <1>2, <1>10, <3>1
      <3> QED  BY <1>7, <1>19, <3>2 DEF FuturesSound
    <2>2. /\ f.order <= Len(placed') /\ f.status = "waiting"
          /\ \E y \in mutationCallbacks' : y.doc = f.order
      <3>1. c \in mutationCallbacks' /\ c.doc = n /\ f.order = n /\ f.status = "waiting"
        BY <1>7
      <3>2. n <= Len(placed')
        BY <1>2, <1>10
      <3> HIDE DEF c, f
      <3> QED  BY <3>1, <3>2
    <2> HIDE DEF f
    <2> QED  BY <1>7, <2>1, <2>2 DEF FuturesSound
  <1>22. NoneLost'
    <2> SUFFICES ASSUME NEW d \in 1..Len(placed')
                 PROVE  Pending(placed[d], d)' \/ d \in server \cup rejected
      BY <1>7 DEF NoneLost
    <2>1. CASE d \in 1..Len(placed)
      <3>1. placed[d] \in Users
        BY <1>2, <2>1
      <3> QED  BY <1>10, <1>19, <2>1, <3>1 DEF NoneLost
    <2>2. CASE d = n
      BY <1>7, <1>10, <1>20, <2>2
    <2> QED  BY <1>10, <2>1, <2>2
  <1>23. WaitersSound'
    <2> SUFFICES ASSUME NEW w \in waiters
                 PROVE  /\ w.docs \subseteq 1..Len(placed')
                        /\ w.status = "ok" => \A d \in w.docs : ~Pending(w.user, d)'
                        /\ w.status = "waiting" =>
                            /\ w.user = user
                            /\ \A i \in 1..Len(mutationQueue'[user]) :
                                mutationQueue'[user][i].doc \in w.docs =>
                                    mutationQueue'[user][i].id <= w.id
      BY <1>7 DEF WaitersSound
    <2>1. w.docs \subseteq 1..Len(placed) /\ w.user \in Users
      BY DEF WaitersSound, TypeOK, Waiter
    <2>2. n \notin w.docs
      BY <1>10, <2>1
    <2> QED  BY <1>a, <1>1, <1>10, <1>17, <1>19, <2>1, <2>2 DEF WaitersSound
  <1>24. Full(rs, mutationQueue[user])' /\ Wired(rs, server, bad, overtaken)'
    BY <1>7, <1>12, <1>13
  <1> QED  BY <1>7, <1>14, <1>15, <1>18, <1>21, <1>22, <1>23, <1>24

-----------------------------------------------------------------------------
(* Answers.                                                                *)

(* The rows after the first one.                                           *)
LEMMA TailRows ==
    ASSUME NEW q \in Seq(Batch), Ordered(q), q # <<>>
    PROVE  /\ Tail(q) \in Seq(Batch) /\ Ordered(Tail(q))
           /\ Len(Tail(q)) = Len(q) - 1 /\ Len(q) \in Nat /\ Len(q) >= 1
           /\ \A i \in 1..(Len(q) - 1) :
                i + 1 \in 1..Len(q) /\ Tail(q)[i] = q[i + 1]
           /\ \A i \in 1..Len(q) : i # 1 =>
                \E j \in 1..(Len(q) - 1) : Tail(q)[j] = q[i]
           /\ \A i \in 1..(Len(q) - 1) :
                Tail(q)[i].id > q[1].id /\ Tail(q)[i].doc > q[1].doc
           /\ \A i \in 1..Len(q) :
                q[i].id = q[1].id \/ q[i].doc = q[1].doc => i = 1
  <1>1. /\ Len(q) \in Nat /\ Len(q) >= 1
        /\ \A i \in 1..Len(q) : q[i].id \in Nat /\ q[i].doc \in Nat
    BY RowType
  <1>2. PICK t \in Seq(Batch) :
            /\ t = Tail(q) /\ Len(t) = Len(q) - 1
            /\ \A i \in 1..(Len(q) - 1) : t[i] = q[i + 1]
    BY Rest
  <1>3. \A i \in 1..(Len(q) - 1) : i + 1 \in 1..Len(q) /\ i \in Nat
    BY <1>1
  <1>4. Ordered(t)
    <2> SUFFICES ASSUME NEW i \in 1..(Len(q) - 1), NEW j \in 1..(Len(q) - 1), i < j
                 PROVE  t[i].id < t[j].id /\ t[i].doc < t[j].doc
      BY <1>2 DEF Ordered
    <2>1. i + 1 < j + 1
      BY <1>3
    <2> QED  BY <1>2, <1>3, <2>1 DEF Ordered
  <1>5. ASSUME NEW i \in 1..Len(q), i # 1
        PROVE  \E j \in 1..(Len(q) - 1) : t[j] = q[i]
    <2>1. i - 1 \in 1..(Len(q) - 1) /\ (i - 1) + 1 = i
      BY <1>1, <1>5
    <2> QED  BY <1>2, <2>1
  <1>6. \A i \in 1..Len(q) : i # 1 => q[i].id > q[1].id /\ q[i].doc > q[1].doc
    BY <1>1 DEF Ordered
  <1>7. \A i \in 1..(Len(q) - 1) : t[i].id > q[1].id /\ t[i].doc > q[1].doc
    <2> SUFFICES ASSUME NEW i \in 1..(Len(q) - 1)
                 PROVE  t[i].id > q[1].id /\ t[i].doc > q[1].doc
      OBVIOUS
    <2>1. i + 1 \in 1..Len(q) /\ i + 1 # 1
      BY <1>3
    <2> QED  BY <1>2, <1>6, <2>1
  <1>8. \A i \in 1..Len(q) : q[i].id = q[1].id \/ q[i].doc = q[1].doc => i = 1
    BY <1>1, <1>6
  <1> QED  BY <1>1, <1>2, <1>3, <1>4, <1>5, <1>7, <1>8

(* What Settle does: the first row leaves the queue, and its future, which   *)
(* was waiting, is the one that is told.                                   *)
LEMMA SettleEffect ==
    ASSUME PipelineInv, rs.enabled, rs.pipeline # <<>>,
           NEW status, NEW r \in RemoteStore, r.enabled, r.ok,
           r.pipeline = Tail(rs.pipeline),
           Settle(Head(rs.pipeline), status, r)
    PROVE  \E q \in Seq(Batch) :
            /\ q = mutationQueue[user] /\ q # <<>> /\ Ordered(q)
            /\ Head(rs.pipeline) = q[1]
            /\ q[1].doc \in 1..Len(placed) /\ placed[q[1].doc] = user
            /\ mutationQueue' = [mutationQueue EXCEPT ![user] = Tail(q)]
            /\ rs' = FillWritePipeline(r, Tail(q))
            /\ Begins(r, Tail(q))
            /\ mutationCallbacks' = {c \in mutationCallbacks : c.doc # q[1].doc}
            /\ \A f \in futures : f.order = q[1].doc => f.status = "waiting"
            /\ futures' = {IF f.order = q[1].doc
                           THEN [f EXCEPT !.status = status] ELSE f : f \in futures}
            /\ waiters' = {IF w.id = q[1].id /\ w.status = "waiting"
                           THEN [w EXCEPT !.status = "ok"] ELSE w : w \in waiters}
  <1>1. PICK q \in Seq(Batch) : q = mutationQueue[user] /\ Ordered(q)
    BY RemoteFacts
  <1>2. Begins(rs, q) /\ rs.pipeline \in Seq(Batch) /\ user \in Users
    BY <1>1, RemoteFacts
  <1>3. PICK p \in Seq(Batch) : p = rs.pipeline /\ p # <<>>
    BY <1>2
  <1>4. /\ Len(p) \in Nat /\ Len(p) >= 1 /\ Head(p) = p[1]
        /\ Tail(p) \in Seq(Batch) /\ Len(Tail(p)) = Len(p) - 1
        /\ \A i \in 1..(Len(p) - 1) : Tail(p)[i] = p[i + 1]
    BY <1>3, Rest
  <1>5. q # <<>> /\ p[1] = q[1] /\ Len(p) <= Len(q) /\ Len(q) \in Nat
    <2>1. /\ Len(p) <= Len(q) /\ Len(q) \in Nat
          /\ \A i \in 1..Len(p) : p[i] = q[i]
      BY <1>2, <1>3 DEF Begins
    <2>2. 1 \in 1..Len(p) /\ Len(q) >= 1
      BY <1>4, <2>1
    <2>3. Len(<<>>) = 0
      OBVIOUS
    <2> QED  BY <2>1, <2>2, <2>3
  <1>6. /\ Len(Tail(q)) = Len(q) - 1
        /\ \A i \in 1..(Len(q) - 1) :
                i + 1 \in 1..Len(q) /\ Tail(q)[i] = q[i + 1]
        /\ \A i \in 1..Len(q) :
                q[i].id = q[1].id \/ q[i].doc = q[1].doc => i = 1
        /\ 1 \in 1..Len(q)
    <2>1. Ordered(q) /\ q # <<>>
      BY <1>1, <1>5
    <2>2. 1 \in 1..Len(q)
      BY <1>4, <1>5
    <2> QED  BY <2>1, <2>2, TailRows
  <1>7. q[1].doc \in 1..Len(placed) /\ placed[q[1].doc] = user
    BY <1>1, <1>2, <1>6 DEF PipelineInv, QueuesSound, Owned
  <1>8. RemoveMutationBatch(q, q[1]) = Tail(q)
    BY <1>1, <1>5, RemoveFirstRow
  <1>9. Head(rs.pipeline) = q[1]
    BY <1>3, <1>4, <1>5
  <1>10. mutationQueue' = [mutationQueue EXCEPT ![user] = Tail(q)]
    BY <1>1, <1>8, <1>9 DEF Settle
  <1>11. rs' = FillWritePipeline(r, Tail(q))
    <2>1. q[1] \in ToSet(q)
      BY <1>6 DEF ToSet
    <2>2. (r.ok /\ q[1] \in ToSet(q)) = TRUE
      BY <2>1
    <2>3. rs' = FillWritePipeline(
                    [r EXCEPT !.ok = r.ok /\ q[1] \in ToSet(q)], Tail(q))
      BY <1>1, <1>8, <1>9 DEF Settle
    <2>4. [r EXCEPT !.ok = TRUE] = r
      <3>1. r.ok = TRUE
        BY StoreFields
      <3> QED  BY <3>1 DEF RemoteStore
    <2> QED  BY <2>2, <2>3, <2>4
  <1>12. Begins(r, Tail(q))
    <2>1. \A i \in 1..Len(p) : p[i] = q[i]
      BY <1>2, <1>3 DEF Begins
    <2>2. Len(p) <= MaxPendingWrites /\ MaxPendingWrites \in Nat
      BY <1>2, <1>3, WritePipelineAssumption DEF Begins
    <2>3. Len(Tail(p)) <= Len(Tail(q)) /\ Len(Tail(p)) <= MaxPendingWrites
      BY <1>4, <1>5, <1>6, <2>2
    <2>4. ASSUME NEW i \in 1..Len(Tail(p)) PROVE Tail(p)[i] = Tail(q)[i]
      <3>1. i \in 1..(Len(p) - 1) /\ i \in 1..(Len(q) - 1) /\ i + 1 \in 1..Len(p)
        BY <1>4, <1>5
      <3> QED  BY <1>4, <1>6, <2>1, <3>1
    <2>5. r.pipeline = Tail(p)
      BY <1>3
    <2> QED  BY <2>3, <2>4, <2>5 DEF Begins
  <1> DEFINE found == {c \in mutationCallbacks : c.user = user /\ c.id = q[1].id}
  <1>13. /\ mutationCallbacks' = mutationCallbacks \ found
         /\ futures' = {IF \E c \in found : c.doc = f.order
                        THEN [f EXCEPT !.status = status] ELSE f : f \in futures}
         /\ waiters' = {IF w.id = q[1].id /\ w.status = "waiting"
                        THEN [w EXCEPT !.status = "ok"] ELSE w : w \in waiters}
    BY <1>9 DEF Settle, NotifyUser, TriggerPendingWriteCallbacks
  <1>14. ASSUME NEW c \in mutationCallbacks
         PROVE  c \in found <=> c.doc = q[1].doc
    <2>1. PICK i \in 1..Len(mutationQueue[c.user]) :
                /\ mutationQueue[c.user][i].id = c.id
                /\ mutationQueue[c.user][i].doc = c.doc
      BY DEF PipelineInv, CallbacksBacked
    <2>2. c.user \in Users
      BY DEF PipelineInv, TypeOK
    <2>3. placed[c.doc] = c.user
      BY <2>1, <2>2 DEF PipelineInv, QueuesSound, Owned
    <2> QED  BY <1>1, <1>6, <1>7, <2>1, <2>3
  <1> HIDE DEF found
  <1>15. Pending(user, q[1].doc)
    <2>1. \E i \in 1..Len(q) : q[i].doc = q[1].doc
      BY <1>6
    <2>2. \E x \in ToSet(q) : x.doc = q[1].doc
      BY <2>1, RowsPending
    <2> QED  BY <1>1, <2>2 DEF Pending
  <1>16. ASSUME NEW f \in futures, f.order = q[1].doc PROVE f.status = "waiting"
    BY <1>2, <1>15, <1>16 DEF PipelineInv, FuturesSound
  <1>17. ASSUME NEW f \in futures
         PROVE  (\E c \in found : c.doc = f.order) <=> f.order = q[1].doc
    <2>1. found \subseteq mutationCallbacks
      BY DEF found
    <2>2. f.status = "waiting" => \E c \in mutationCallbacks : c.doc = f.order
      BY DEF PipelineInv, FuturesSound
    <2> QED  BY <1>14, <1>16, <2>1, <2>2
  <1>18. mutationCallbacks' = {c \in mutationCallbacks : c.doc # q[1].doc}
    BY <1>13, <1>14
  <1>19. futures' = {IF f.order = q[1].doc
                     THEN [f EXCEPT !.status = status] ELSE f : f \in futures}
    BY <1>13, <1>17
  <1> QED
    BY <1>1, <1>5, <1>7, <1>9, <1>10, <1>11, <1>12, <1>13, <1>16, <1>18, <1>19

(* The rows that are left when the first row of the current user's queue is  *)
(* removed, and the documents that are still pending.                      *)
LEMMA RowRemoved ==
    ASSUME PipelineInv, NEW q \in Seq(Batch), q = mutationQueue[user], q # <<>>,
           Ordered(q), placed[q[1].doc] = user,
           mutationQueue' = [mutationQueue EXCEPT ![user] = Tail(q)]
    PROVE  /\ mutationQueue' \in [Users -> Seq(Batch)]
           /\ mutationQueue'[user] = Tail(q)
           /\ \A u \in Users : u # user => mutationQueue'[u] = mutationQueue[u]
           /\ \A u \in Users : \A i \in 1..Len(mutationQueue'[u]) :
                /\ mutationQueue'[u][i].doc # q[1].doc
                /\ \E j \in 1..Len(mutationQueue[u]) :
                        mutationQueue'[u][i] = mutationQueue[u][j]
           /\ \A u \in Users : \A i \in 1..Len(mutationQueue[u]) :
                mutationQueue[u][i].doc # q[1].doc =>
                    \E j \in 1..Len(mutationQueue'[u]) :
                        mutationQueue'[u][j] = mutationQueue[u][i]
           /\ \A u \in Users : \A d :
                Pending(u, d)' <=> Pending(u, d) /\ d # q[1].doc
  <1>2. PICK t \in Seq(Batch) :
            /\ t = Tail(q) /\ Ordered(t)
            /\ Len(t) = Len(q) - 1 /\ Len(q) \in Nat /\ Len(q) >= 1
            /\ \A i \in 1..(Len(q) - 1) : i + 1 \in 1..Len(q) /\ t[i] = q[i + 1]
            /\ \A i \in 1..Len(q) : i # 1 => \E j \in 1..(Len(q) - 1) : t[j] = q[i]
            /\ \A i \in 1..(Len(q) - 1) : t[i].id > q[1].id /\ t[i].doc > q[1].doc
    BY TailRows
  <1>3. user \in Users /\ q[1].doc \in Nat
    <2>1. 1 \in 1..Len(q)
      BY <1>2
    <2>2. user \in Users
      BY DEF PipelineInv, TypeOK
    <2> QED  BY <2>1, <2>2, RowType
  <1>4. /\ mutationQueue' \in [Users -> Seq(Batch)] /\ mutationQueue'[user] = t
        /\ \A u \in Users : u # user => mutationQueue'[u] = mutationQueue[u]
    BY <1>2, <1>3 DEF PipelineInv, TypeOK
  <1>6. ASSUME NEW u \in Users, NEW i \in 1..Len(mutationQueue'[u])
        PROVE  /\ \E j \in 1..Len(mutationQueue[u]) :
                        mutationQueue'[u][i] = mutationQueue[u][j]
               /\ mutationQueue'[u][i].doc # q[1].doc
    <2>1. CASE u = user
      <3>1. mutationQueue'[u] = t /\ mutationQueue[u] = q
        BY <1>4, <2>1
      <3>2. i \in 1..(Len(q) - 1) /\ i \in 1..Len(t)
        BY <1>2, <3>1
      <3>3. t[i].doc \in Nat /\ t[i].doc > q[1].doc
        BY <1>2, <3>2, RowType
      <3>4. t[i].doc # q[1].doc
        BY <1>3, <3>3
      <3>5. i + 1 \in 1..Len(q) /\ t[i] = q[i + 1]
        BY <1>2, <3>2
      <3> QED  BY <3>1, <3>4, <3>5
    <2>2. CASE u # user
      <3>1. mutationQueue'[u] = mutationQueue[u]
        BY <1>4, <2>2
      <3>2. placed[mutationQueue[u][i].doc] = u
        BY <3>1 DEF PipelineInv, QueuesSound, Owned
      <3> QED  BY <2>2, <3>1, <3>2
    <2> QED  BY <2>1, <2>2
  <1>7. ASSUME NEW u \in Users, NEW i \in 1..Len(mutationQueue[u]),
               mutationQueue[u][i].doc # q[1].doc
        PROVE  \E j \in 1..Len(mutationQueue'[u]) :
                    mutationQueue'[u][j] = mutationQueue[u][i]
    <2>1. CASE u = user
      <3>1. mutationQueue'[u] = t /\ mutationQueue[u] = q
        BY <1>4, <2>1
      <3>2. i \in 1..Len(q) /\ i # 1
        BY <1>7, <3>1
      <3>3. PICK j \in 1..(Len(q) - 1) : t[j] = q[i]
        BY <1>2, <3>2
      <3>4. j \in 1..Len(t)
        BY <1>2
      <3> QED  BY <3>1, <3>3, <3>4
    <2>2. CASE u # user
      BY <1>4, <2>2
    <2> QED  BY <2>1, <2>2
  <1>8. ASSUME NEW u \in Users, NEW d
        PROVE  Pending(u, d)' <=> Pending(u, d) /\ d # q[1].doc
    <2>1. PICK m \in Seq(Batch), n \in Seq(Batch) :
            m = mutationQueue[u] /\ n = mutationQueue'[u]
      BY <1>4 DEF PipelineInv, TypeOK
    <2>2. /\ Pending(u, d) <=> \E i \in 1..Len(m) : m[i].doc = d
          /\ Pending(u, d)' <=> \E i \in 1..Len(n) : n[i].doc = d
      BY <2>1, RowsPending DEF Pending
    <2>3. \A i \in 1..Len(n) :
            n[i].doc # q[1].doc /\ \E j \in 1..Len(m) : n[i] = m[j]
      <3> SUFFICES ASSUME NEW i \in 1..Len(n)
                   PROVE  n[i].doc # q[1].doc /\ \E j \in 1..Len(m) : n[i] = m[j]
        OBVIOUS
      <3>1. i \in 1..Len(mutationQueue'[u])
        BY <2>1
      <3>2. /\ mutationQueue'[u][i].doc # q[1].doc
            /\ \E j \in 1..Len(mutationQueue[u]) :
                    mutationQueue'[u][i] = mutationQueue[u][j]
        BY <1>6, <3>1
      <3> QED  BY <2>1, <3>2
    <2>4. \A i \in 1..Len(m) :
            m[i].doc # q[1].doc => \E j \in 1..Len(n) : n[j] = m[i]
      BY <1>7, <2>1
    <2>5. ASSUME Pending(u, d)' PROVE Pending(u, d) /\ d # q[1].doc
      <3>1. PICK i \in 1..Len(n) : n[i].doc = d
        BY <2>2, <2>5
      <3>2. PICK j \in 1..Len(m) : n[i] = m[j]
        BY <2>3
      <3> QED  BY <2>2, <2>3, <3>1, <3>2
    <2>6. ASSUME Pending(u, d), d # q[1].doc PROVE Pending(u, d)'
      <3>1. PICK i \in 1..Len(m) : m[i].doc = d
        BY <2>2, <2>6
      <3>2. PICK j \in 1..Len(n) : n[j] = m[i]
        BY <2>4, <2>6, <3>1
      <3> QED  BY <2>2, <3>1, <3>2
    <2> QED  BY <2>5, <2>6
  <1>9. \A u \in Users : \A i \in 1..Len(mutationQueue'[u]) :
            /\ mutationQueue'[u][i].doc # q[1].doc
            /\ \E j \in 1..Len(mutationQueue[u]) :
                    mutationQueue'[u][i] = mutationQueue[u][j]
    BY <1>6
  <1>10. \A u \in Users : \A i \in 1..Len(mutationQueue[u]) :
            mutationQueue[u][i].doc # q[1].doc =>
                \E j \in 1..Len(mutationQueue'[u]) :
                    mutationQueue'[u][j] = mutationQueue[u][i]
    BY <1>7
  <1>11. \A u \in Users : \A d :
            Pending(u, d)' <=> Pending(u, d) /\ d # q[1].doc
    BY <1>8
  <1> QED  BY <1>2, <1>4, <1>9, <1>10, <1>11

(* An answer that is taken for the first batch, and is about it, keeps the   *)
(* invariant.                                                              *)
LEMMA SettleKeeps ==
    ASSUME PipelineInv, rs.enabled, rs.pipeline # <<>>,
           NEW status \in {"ok", "error"}, NEW r \in RemoteStore,
           r.enabled, r.pipeline = Tail(rs.pipeline),
           Wired(r, server, bad, overtaken'),
           Settle(Head(rs.pipeline), status, r),
           UNCHANGED <<placed, nextBatchId, user, server, bad, faults>>,
           overtaken' \in 0..MaxOvertakes, overtaken' = 0 => overtaken = 0,
           rejected \subseteq rejected', rejected' \subseteq 1..MaxOrders,
           Head(rs.pipeline).doc \in server \cup rejected',
           status = "ok" => Head(rs.pipeline).doc \in server,
           status = "error" /\ overtaken' = 0 => Head(rs.pipeline).doc \in bad
    PROVE  PipelineInv'
  <1> USE DEF PipelineInv
  <1>0. r.ok
    BY DEF Wired
  <1>1. PICK q \in Seq(Batch) :
            /\ q = mutationQueue[user] /\ q # <<>> /\ Ordered(q)
            /\ Head(rs.pipeline) = q[1]
            /\ q[1].doc \in 1..Len(placed) /\ placed[q[1].doc] = user
            /\ mutationQueue' = [mutationQueue EXCEPT ![user] = Tail(q)]
            /\ rs' = FillWritePipeline(r, Tail(q))
            /\ Begins(r, Tail(q))
            /\ mutationCallbacks' = {c \in mutationCallbacks : c.doc # q[1].doc}
            /\ \A f \in futures : f.order = q[1].doc => f.status = "waiting"
            /\ futures' = {IF f.order = q[1].doc
                           THEN [f EXCEPT !.status = status] ELSE f : f \in futures}
            /\ waiters' = {IF w.id = q[1].id /\ w.status = "waiting"
                           THEN [w EXCEPT !.status = "ok"] ELSE w : w \in waiters}
    <2> HIDE DEF PipelineInv
    <2> QED  BY <1>0, SettleEffect
  <1>2. PICK t \in Seq(Batch) :
            /\ t = Tail(q) /\ Ordered(t)
            /\ Len(t) = Len(q) - 1 /\ Len(q) \in Nat /\ Len(q) >= 1
            /\ \A i \in 1..(Len(q) - 1) : i + 1 \in 1..Len(q) /\ t[i] = q[i + 1]
            /\ \A i \in 1..Len(q) : i # 1 => \E j \in 1..(Len(q) - 1) : t[j] = q[i]
            /\ \A i \in 1..(Len(q) - 1) : t[i].id > q[1].id /\ t[i].doc > q[1].doc
    BY <1>1, TailRows
  <1>3. user \in Users /\ q[1] \in Batch /\ q[1].doc \in Nat /\ q[1].id \in Nat
    <2>1. 1 \in 1..Len(q)
      BY <1>2
    <2>2. user \in Users
      BY DEF TypeOK
    <2> QED  BY <2>1, <2>2, RowType
  <1>4. /\ mutationQueue' \in [Users -> Seq(Batch)] /\ mutationQueue'[user] = t
        /\ \A u \in Users : u # user => mutationQueue'[u] = mutationQueue[u]
    BY <1>1, <1>2, <1>3 DEF TypeOK
  <1>5. /\ rs' \in RemoteStore /\ Wired(rs', server, bad, overtaken') /\ Full(rs', t)
    BY <1>1, <1>2, FillKeeps
  <1>6. /\ \A u \in Users : \A i \in 1..Len(mutationQueue'[u]) :
                /\ mutationQueue'[u][i].doc # q[1].doc
                /\ \E j \in 1..Len(mutationQueue[u]) :
                        mutationQueue'[u][i] = mutationQueue[u][j]
        /\ \A u \in Users : \A i \in 1..Len(mutationQueue[u]) :
                mutationQueue[u][i].doc # q[1].doc =>
                    \E j \in 1..Len(mutationQueue'[u]) :
                        mutationQueue'[u][j] = mutationQueue[u][i]
        /\ \A u \in Users : \A d :
                Pending(u, d)' <=> Pending(u, d) /\ d # q[1].doc
    <2> HIDE DEF PipelineInv
    <2> QED  BY <1>1, RowRemoved
  <1> DEFINE told(f) == IF f.order = q[1].doc
                        THEN [f EXCEPT !.status = status] ELSE f
             woken(w) == IF w.id = q[1].id /\ w.status = "waiting"
                         THEN [w EXCEPT !.status = "ok"] ELSE w
             Future == [order : 1..MaxOrders, inst : {0},
                        status : {"waiting", "ok", "error"}]
  <1>9. ASSUME NEW f \in futures
        PROVE  /\ told(f) \in Future /\ told(f).order = f.order
               /\ told(f).status = IF f.order = q[1].doc THEN status ELSE f.status
    <2>1. f \in Future
      BY DEF TypeOK
    <2> QED  BY <2>1
  <1>10. ASSUME NEW w \in waiters
         PROVE  /\ woken(w) \in Waiter /\ woken(w).docs = w.docs
                /\ woken(w).user = w.user /\ woken(w).id = w.id
                /\ woken(w).status = IF w.id = q[1].id /\ w.status = "waiting"
                                     THEN "ok" ELSE w.status
    <2>1. w \in Waiter
      BY DEF TypeOK
    <2> QED  BY <2>1 DEF Waiter
  <1>11. futures' = {told(f) : f \in futures} /\ waiters' = {woken(w) : w \in waiters}
    BY <1>1
  <1> HIDE DEF told, woken
  <1>12. TypeOK'
    <2>1. futures' \subseteq Future /\ waiters' \subseteq Waiter
      BY <1>9, <1>10, <1>11
    <2>2. mutationCallbacks' \subseteq mutationCallbacks
      BY <1>1
    <2> QED  BY <1>4, <1>5, <2>1, <2>2 DEF TypeOK
  <1>13. QueuesSound'
    <2>1. ASSUME NEW u \in Users PROVE Ordered(mutationQueue[u])'
      BY <1>2, <1>4 DEF QueuesSound
    <2>2. ASSUME NEW u \in Users PROVE Owned(mutationQueue[u], u)'
      <3> SUFFICES ASSUME NEW i \in 1..Len(mutationQueue'[u])
                   PROVE  /\ mutationQueue'[u][i].id < nextBatchId
                          /\ mutationQueue'[u][i].doc \in 1..Len(placed)
                          /\ placed[mutationQueue'[u][i].doc] = u
        BY DEF Owned
      <3>1. PICK j \in 1..Len(mutationQueue[u]) :
                mutationQueue'[u][i] = mutationQueue[u][j]
        BY <1>6
      <3> QED  BY <3>1 DEF QueuesSound, Owned
    <2> QED  BY <2>1, <2>2 DEF QueuesSound
  <1>14. CallbacksBacked'
    <2> SUFFICES ASSUME NEW c \in mutationCallbacks, c.doc # q[1].doc
                 PROVE  \E i \in 1..Len(mutationQueue'[c.user]) :
                            /\ mutationQueue'[c.user][i].id = c.id
                            /\ mutationQueue'[c.user][i].doc = c.doc
      BY <1>1 DEF CallbacksBacked
    <2>1. c.user \in Users
      BY DEF TypeOK
    <2>2. PICK i \in 1..Len(mutationQueue[c.user]) :
                /\ mutationQueue[c.user][i].id = c.id
                /\ mutationQueue[c.user][i].doc = c.doc
      BY DEF CallbacksBacked
    <2>3. PICK j \in 1..Len(mutationQueue'[c.user]) :
                mutationQueue'[c.user][j] = mutationQueue[c.user][i]
      BY <1>6, <2>1, <2>2
    <2> QED  BY <2>2, <2>3
  <1>15. FuturesSound'
    <2> SUFFICES ASSUME NEW f \in futures
                 PROVE  LET g == told(f) IN
                        /\ g.order <= Len(placed)
                        /\ g.status = "waiting" =>
                                \E c \in mutationCallbacks' : c.doc = g.order
                        /\ g.status # "waiting" =>
                                \A u \in Users : ~Pending(u, f.order)'
                        /\ g.status = "ok" => g.order \in server
                        /\ g.status = "error" /\ overtaken' = 0 => g.order \in bad
      BY <1>9, <1>11 DEF FuturesSound
    <2>1. CASE f.order = q[1].doc
      <3>1. \A u \in Users : ~Pending(u, f.order)'
        BY <1>6, <2>1
      <3> QED  BY <1>1, <1>9, <2>1, <3>1 DEF FuturesSound
    <2>2. CASE f.order # q[1].doc
      BY <1>1, <1>6, <1>9, <2>2 DEF FuturesSound
    <2> QED  BY <2>1, <2>2
  <1>16. NoneLost'
    <2> SUFFICES ASSUME NEW d \in 1..Len(placed)
                 PROVE  Pending(placed[d], d)' \/ d \in server \cup rejected'
      BY DEF NoneLost
    <2>1. placed[d] \in Users
      BY DEF TypeOK
    <2>2. Pending(placed[d], d) \/ d \in server \cup rejected
      BY DEF NoneLost
    <2>3. PICK u \in Users : u = placed[d]
      BY <2>1
    <2>4. Pending(placed[d], d)' <=> Pending(u, d)'
      BY <2>3
    <2> QED  BY <1>1, <1>6, <2>2, <2>3, <2>4
  <1>17. WaitersSound'
    <2>1. IsFiniteSet(waiters')
      <3> DEFINE g == [w \in waiters |-> woken(w)]
      <3>1. g \in Surjection(waiters, waiters')
        BY <1>11 DEF Surjection
      <3>2. IsFiniteSet(waiters)
        BY DEF WaitersSound
      <3> HIDE DEF g
      <3> QED  BY <3>1, <3>2, FS_Surjection
    <2>2. ASSUME NEW w \in waiters
          PROVE  /\ w.docs \subseteq 1..Len(placed)
                 /\ woken(w).status = "ok" =>
                        \A d \in w.docs : ~Pending(w.user, d)'
                 /\ woken(w).status = "waiting" =>
                        /\ w.user = user
                        /\ \A i \in 1..Len(t) : t[i].doc \in w.docs => t[i].id <= w.id
      <3>1. /\ w.docs \subseteq 1..Len(placed) /\ w.user \in Users
            /\ w.id \in Nat
            /\ w.status = "ok" => \A d \in w.docs : ~Pending(w.user, d)
            /\ w.status = "waiting" =>
                /\ w.user = user
                /\ \A i \in 1..Len(q) : q[i].doc \in w.docs => q[i].id <= w.id
        <4>1. w \in Waiter
          BY DEF TypeOK
        <4>2. w.user \in Users /\ w.id \in Nat
          BY <4>1 DEF Waiter
        <4> QED  BY <1>1, <4>2 DEF WaitersSound
      <3>2. w.status = "waiting" =>
                \A i \in 1..Len(t) : t[i].doc \in w.docs => t[i].id <= w.id
        BY <1>2, <3>1
      <3>3. ASSUME w.status = "waiting", w.id = q[1].id, NEW d \in w.docs,
                   Pending(w.user, d)'
            PROVE  FALSE
        <4>1. Pending(user, d)'
          BY <3>1, <3>3
        <4>2. mutationQueue'[user'] = t
          BY <1>4
        <4>3. PICK i \in 1..Len(t) : t[i].doc = d
          <5>1. \E x \in ToSet(t) : x.doc = d
            BY <4>1, <4>2 DEF Pending
          <5> QED  BY <5>1, RowsPending
        <4>4. t[i].id <= q[1].id /\ t[i].id \in Nat
          BY <3>2, <3>3, <4>3, RowType
        <4>5. t[i].id > q[1].id
          BY <1>2, <4>3
        <4> QED  BY <1>3, <4>4, <4>5
      <3> QED  BY <1>6, <1>10, <3>1, <3>2, <3>3
    <2>3. mutationQueue'[user'] = t
      BY <1>4
    <2>4. \A x \in waiters' : \E w \in waiters : x = woken(w)
      BY <1>11
    <2>5. ASSUME NEW x \in waiters'
          PROVE  /\ x.docs \subseteq 1..Len(placed)
                 /\ x.status = "ok" => \A d \in x.docs : ~Pending(x.user, d)'
                 /\ x.status = "waiting" =>
                        /\ x.user = user
                        /\ \A i \in 1..Len(t) : t[i].doc \in x.docs => t[i].id <= x.id
      <3>1. PICK w \in waiters : x = woken(w)
        BY <2>4
      <3>2. x.docs = w.docs /\ x.user = w.user /\ x.id = w.id
            /\ x.status = woken(w).status
        BY <1>10, <3>1
      <3> QED  BY <2>2, <3>2
    <2> QED  BY <2>1, <2>3, <2>5 DEF WaitersSound
  <1>18. Full(rs, mutationQueue[user])' /\ Wired(rs, server, bad, overtaken)'
    BY <1>4, <1>5
  <1> QED  BY <1>12, <1>13, <1>14, <1>15, <1>16, <1>17, <1>18

(* An answer other than to the handshake is read when there is a batch to   *)
(* take it for.                                                            *)
LEMMA AnswerFacts ==
    ASSUME PipelineInv, rs.responses # <<>>,
           Head(rs.responses).kind # "handshake"
    PROVE  /\ rs.handshake /\ IsOpen(rs.stream) /\ rs.enabled /\ rs.ok
           /\ rs.pipeline # <<>> /\ Tail(rs.pipeline) \in Seq(Batch)
           /\ Len(rs.pipeline) \in Nat /\ Len(Tail(rs.pipeline)) = Len(rs.pipeline) - 1
           /\ Head(rs.pipeline).doc \in 1..MaxOrders
           /\ Head(rs.responses) = rs.responses[1] /\ Len(rs.responses) \in Nat
           /\ Len(rs.responses) >= 1
           /\ Correlated(rs, server, bad, overtaken)
           /\ ~rs.stream.idle
  <1>1. /\ Wired(rs, server, bad, overtaken) /\ rs.responses \in Seq(Response)
        /\ rs.pipeline \in Seq(Batch) /\ rs.requests \in Seq(0..MaxOrders)
        /\ rs.enabled \in BOOLEAN
    BY RemoteFacts
  <1>2. /\ Len(rs.responses) \in Nat /\ Len(rs.responses) >= 1
        /\ Head(rs.responses) = rs.responses[1]
    BY <1>1, Rest
  <1>3. IsOpen(rs.stream)
    BY <1>1 DEF Wired
  <1>4. rs.handshake
    <2> SUFFICES ASSUME ~rs.handshake PROVE FALSE
      OBVIOUS
    <2>1. rs.responses = <<[kind |-> "handshake", doc |-> Handshake]>>
      BY <1>1, <1>3 DEF Wired
    <2> QED  BY <2>1
  <1>5. Correlated(rs, server, bad, overtaken)
    BY <1>1, <1>4 DEF Wired
  <1>6. rs.pipeline # <<>>
    <2>1. CASE InStep(rs.pipeline, rs.responses, rs.requests)
      BY <1>1, <2>1, InStepRead
    <2>2. CASE OutOfStep(rs.pipeline, rs.responses)
      BY <2>2 DEF OutOfStep
    <2> QED  BY <1>5, <2>1, <2>2 DEF Correlated
  <1>7. rs.enabled /\ ~rs.stream.idle /\ rs.ok
    BY <1>1, <1>6 DEF Wired
  <1>8. /\ Head(rs.pipeline) \in Batch /\ Tail(rs.pipeline) \in Seq(Batch)
        /\ Len(Tail(rs.pipeline)) = Len(rs.pipeline) - 1 /\ Len(rs.pipeline) \in Nat
    BY <1>1, <1>6, HeadTailProperties
  <1>9. Head(rs.pipeline).doc \in 1..MaxOrders
    BY <1>8 DEF Batch
  <1> QED  BY <1>2, <1>3, <1>4, <1>5, <1>6, <1>7, <1>8, <1>9

(* A result is about the first batch, which the backend holds.             *)
LEMMA ResultFacts ==
    ASSUME PipelineInv, rs.responses # <<>>, Head(rs.responses).kind = "result"
    PROVE  /\ Head(rs.pipeline).doc \in server
           /\ InStep(rs.pipeline, rs.responses, rs.requests)
           /\ InStep(Tail(rs.pipeline), Tail(rs.responses), rs.requests)
           /\ Answered(rs.responses, server, bad)
           /\ Answered(Tail(rs.responses), server, bad)
           /\ Tail(rs.responses) \in Seq(Response)
  <1>1. /\ Correlated(rs, server, bad, overtaken)
        /\ Head(rs.responses) = rs.responses[1]
        /\ Len(rs.responses) \in Nat /\ Len(rs.responses) >= 1
    BY AnswerFacts
  <1>2. /\ rs.responses \in Seq(Response)
        /\ rs.pipeline \in Seq(Batch) /\ rs.requests \in Seq(0..MaxOrders)
    BY RemoteFacts
  <1>3. /\ InStep(rs.pipeline, rs.responses, rs.requests)
        /\ Answered(rs.responses, server, bad)
    BY <1>1 DEF Correlated, OutOfStep
  <1>4. /\ Head(rs.pipeline).doc = rs.responses[1].doc
        /\ InStep(Tail(rs.pipeline), Tail(rs.responses), rs.requests)
    BY <1>2, <1>3, InStepRead
  <1>5. rs.responses[1].doc \in server
    <2>1. 1 \in 1..Len(rs.responses)
      BY <1>1
    <2> QED  BY <1>1, <1>3, <2>1 DEF Answered
  <1>6. PICK t \in Seq(Response) :
            /\ t = Tail(rs.responses) /\ Len(t) = Len(rs.responses) - 1
            /\ \A i \in 1..(Len(rs.responses) - 1) : t[i] = rs.responses[i + 1]
    BY <1>2, Rest
  <1>7. Answered(t, server, bad)
    <2> SUFFICES ASSUME NEW i \in 1..Len(t)
                 PROVE  \/ t[i].kind = "result" /\ t[i].doc \in server
                        \/ /\ t[i].kind = "refusal" /\ t[i].doc \in bad
                           /\ i = Len(t)
      BY DEF Answered
    <2>1. /\ i \in 1..(Len(rs.responses) - 1) /\ i + 1 \in 1..Len(rs.responses)
          /\ i + 1 = Len(rs.responses) => i = Len(t)
      BY <1>1, <1>6
    <2> QED  BY <1>3, <1>6, <2>1 DEF Answered
  <1> QED  BY <1>3, <1>4, <1>5, <1>6, <1>7

(* A result is read.                                                       *)
LEMMA ReadResultStep ==
    ASSUME PipelineInv, ReadResult
    PROVE  PipelineInv'
  <1>1. rs.responses # <<>> /\ Head(rs.responses).kind = "result"
    BY DEF ReadResult
  <1>2. /\ rs.handshake /\ IsOpen(rs.stream) /\ rs.enabled /\ rs.ok
        /\ rs.pipeline # <<>> /\ Tail(rs.pipeline) \in Seq(Batch)
        /\ ~rs.stream.idle
    BY <1>1, AnswerFacts
  <1>3. /\ Head(rs.pipeline).doc \in server
        /\ InStep(Tail(rs.pipeline), Tail(rs.responses), rs.requests)
        /\ Answered(Tail(rs.responses), server, bad)
        /\ Tail(rs.responses) \in Seq(Response)
    BY <1>1, ResultFacts
  <1>4. PICK n \in RemoteStore :
            /\ n = [rs EXCEPT !.pipeline = Tail(rs.pipeline),
                              !.responses = Tail(rs.responses)]
            /\ n.ok = rs.ok /\ n.stream = rs.stream /\ n.enabled = rs.enabled
            /\ n.pipeline = Tail(rs.pipeline) /\ n.handshake = rs.handshake
            /\ n.requests = rs.requests /\ n.responses = Tail(rs.responses)
    <2>1. rs \in RemoteStore
      BY RemoteFacts
    <2>2. LET z == [rs EXCEPT !.pipeline = Tail(rs.pipeline), !.responses = Tail(rs.responses)]
          IN  /\ z \in RemoteStore /\ z.ok = rs.ok /\ z.stream = rs.stream
              /\ z.enabled = rs.enabled /\ z.pipeline = Tail(rs.pipeline)
              /\ z.handshake = rs.handshake /\ z.requests = rs.requests
              /\ z.responses = Tail(rs.responses)
      BY <1>2, <1>3, <2>1 DEF RemoteStore
    <2> QED  BY <2>2
  <1>5. Wired(n, server, bad, overtaken)
    BY <1>2, <1>3, <1>4 DEF Wired, Correlated
  <1>6. /\ Settle(Head(rs.pipeline), "ok", n)
        /\ UNCHANGED <<placed, nextBatchId, user, server, rejected, bad, faults,
                       overtaken>>
    BY <1>4 DEF ReadResult, OnWriteStreamMutationResult
  <1>7. overtaken \in 0..MaxOvertakes /\ rejected \subseteq 1..MaxOrders
    BY DEF PipelineInv, TypeOK
  <1> QED  BY <1>2, <1>3, <1>4, <1>5, <1>6, <1>7, SettleKeeps

(* A result is read, and the answers after it are overtaken by the refusal. *)
LEMMA SendFailsStep ==
    ASSUME PipelineInv, ReadResultThenSendFails
    PROVE  PipelineInv'
  <1>1. rs.responses # <<>> /\ Head(rs.responses).kind = "result"
        /\ Last(rs.responses).kind = "refusal" /\ Len(rs.responses) > 2
        /\ overtaken < MaxOvertakes /\ overtaken' = overtaken + 1
    BY DEF ReadResultThenSendFails, Ended
  <1>2. /\ rs.handshake /\ IsOpen(rs.stream) /\ rs.enabled /\ rs.ok
        /\ rs.pipeline # <<>> /\ Tail(rs.pipeline) \in Seq(Batch)
        /\ Len(Tail(rs.pipeline)) = Len(rs.pipeline) - 1 /\ Len(rs.pipeline) \in Nat
        /\ ~rs.stream.idle /\ Len(rs.responses) \in Nat
    BY <1>1, AnswerFacts
  <1>3. /\ Head(rs.pipeline).doc \in server
        /\ InStep(rs.pipeline, rs.responses, rs.requests)
    BY <1>1, ResultFacts
  <1>4. rs \in RemoteStore /\ rs.responses \in Seq(Response)
        /\ rs.requests \in Seq(0..MaxOrders)
    BY RemoteFacts
  <1>5. PICK x \in Response : x = Last(rs.responses) /\ x.kind = "refusal"
    <2>1. Last(rs.responses) = rs.responses[Len(rs.responses)]
      BY DEF Last
    <2>2. Len(rs.responses) \in 1..Len(rs.responses)
      BY <1>1, <1>2
    <2> QED  BY <1>1, <1>4, <2>1, <2>2
  <1>6. PICK a \in Seq(Response) :
            a = <<Last(rs.responses)>> /\ Len(a) = 1 /\ a[1].kind = "refusal"
    <2>1. <<x>> \in Seq(Response) /\ Len(<<x>>) = 1 /\ <<x>>[1] = x
      OBVIOUS
    <2> QED  BY <1>5, <2>1
  <1>7. PICK n \in RemoteStore :
            /\ n = [rs EXCEPT !.pipeline = Tail(rs.pipeline), !.responses = a]
            /\ n.ok = rs.ok /\ n.stream = rs.stream /\ n.enabled = rs.enabled
            /\ n.pipeline = Tail(rs.pipeline) /\ n.handshake = rs.handshake
            /\ n.requests = rs.requests /\ n.responses = a
    <2>2. LET z == [rs EXCEPT !.pipeline = Tail(rs.pipeline), !.responses = a]
          IN  /\ z \in RemoteStore /\ z.ok = rs.ok /\ z.stream = rs.stream
              /\ z.enabled = rs.enabled /\ z.pipeline = Tail(rs.pipeline)
              /\ z.handshake = rs.handshake /\ z.requests = rs.requests
              /\ z.responses = a
      BY <1>2, <1>4 DEF RemoteStore
    <2> QED  BY <2>2
  <1>8. Tail(rs.pipeline) # <<>>
    <2>1. Len(rs.requests) \in Nat
      BY <1>4
    <2>2. Len(rs.pipeline) = Len(rs.responses) + Len(rs.requests)
      BY <1>3 DEF InStep
    <2>3. \A i, j \in Nat : i > 2 => (i + j) - 1 # 0
      OBVIOUS
    <2>4. Len(Tail(rs.pipeline)) # 0
      BY <1>1, <1>2, <2>1, <2>2, <2>3
    <2>5. Len(<<>>) = 0
      OBVIOUS
    <2> QED  BY <2>4, <2>5
  <1>9. overtaken' \in 0..MaxOvertakes /\ overtaken' # 0
    <2>1. overtaken \in 0..MaxOvertakes /\ MaxOvertakes \in Nat
      BY WritePipelineAssumption DEF PipelineInv, TypeOK
    <2> QED  BY <1>1, <2>1
  <1>10. Wired(n, server, bad, overtaken')
    BY <1>2, <1>6, <1>7, <1>8, <1>9 DEF Wired, Correlated, OutOfStep
  <1>11. /\ Settle(Head(rs.pipeline), "ok", n)
         /\ UNCHANGED <<placed, nextBatchId, user, server, rejected, bad, faults>>
    BY <1>6, <1>7 DEF ReadResultThenSendFails, OnWriteStreamMutationResult
  <1>12. rejected \subseteq 1..MaxOrders
    BY DEF PipelineInv, TypeOK
  <1> QED  BY <1>2, <1>3, <1>7, <1>9, <1>10, <1>11, <1>12, SettleKeeps

(* As long as no answer was overtaken, a refusal is about the first batch.  *)
LEMMA RefusalFacts ==
    ASSUME PipelineInv, ReadRefusal, overtaken = 0
    PROVE  Head(rs.pipeline).doc \in bad
  <1>1. rs.responses # <<>> /\ Head(rs.responses).kind = "refusal"
    BY DEF ReadRefusal
  <1>2. /\ Correlated(rs, server, bad, overtaken)
        /\ Head(rs.responses) = rs.responses[1]
        /\ Len(rs.responses) \in Nat /\ Len(rs.responses) >= 1
    BY <1>1, AnswerFacts
  <1>3. /\ rs.responses \in Seq(Response)
        /\ rs.pipeline \in Seq(Batch) /\ rs.requests \in Seq(0..MaxOrders)
    BY RemoteFacts
  <1>4. /\ InStep(rs.pipeline, rs.responses, rs.requests)
        /\ Answered(rs.responses, server, bad)
    BY <1>2 DEF Correlated
  <1>5. Head(rs.pipeline).doc = rs.responses[1].doc
    BY <1>1, <1>3, <1>4, InStepRead
  <1>6. 1 \in 1..Len(rs.responses)
    BY <1>2
  <1> QED  BY <1>1, <1>2, <1>4, <1>5, <1>6 DEF Answered

(* A refusal is read.                                                      *)
LEMMA ReadRefusalStep ==
    ASSUME PipelineInv, ReadRefusal
    PROVE  PipelineInv'
  <1>1. rs.responses # <<>> /\ Head(rs.responses).kind = "refusal"
    BY DEF ReadRefusal
  <1>2. /\ rs.enabled /\ rs.ok /\ rs.pipeline # <<>>
        /\ Tail(rs.pipeline) \in Seq(Batch)
        /\ Head(rs.pipeline).doc \in 1..MaxOrders
    BY <1>1, AnswerFacts
  <1>3. rs \in RemoteStore /\ rs.stream \in Stream
    BY RemoteFacts
  <1>4. PICK s \in Stream : /\ s = InhibitBackoff(Close(rs.stream, FALSE))
                            /\ ~IsStarted(s) /\ ~s.idle
    <2>1. PICK t \in Stream : t = Close(rs.stream, FALSE) /\ ~t.idle
      <3>1. Close(rs.stream, FALSE) \in Stream /\ ~Close(rs.stream, FALSE).idle
        BY <1>3, StreamOps
      <3> QED  BY <3>1
    <2>2. /\ InhibitBackoff(t) \in Stream /\ ~IsStarted(InhibitBackoff(t))
          /\ InhibitBackoff(t).idle = t.idle
      BY StreamOps
    <2> QED  BY <2>1, <2>2
  <1>5. PICK m \in RemoteStore :
            /\ m = [rs EXCEPT !.pipeline = Tail(rs.pipeline)]
            /\ m.ok = rs.ok /\ m.enabled = rs.enabled
            /\ m.pipeline = Tail(rs.pipeline)
    <2>1. LET z == [rs EXCEPT !.pipeline = Tail(rs.pipeline)] IN
          /\ z \in RemoteStore /\ z.ok = rs.ok /\ z.enabled = rs.enabled
          /\ z.pipeline = Tail(rs.pipeline)
      BY <1>2, <1>3 DEF RemoteStore
    <2> QED  BY <2>1
  <1>6. PICK n \in RemoteStore :
            /\ n = Disconnected(m, s) /\ Wired(n, server, bad, overtaken)
            /\ n.pipeline = Tail(rs.pipeline) /\ n.enabled
    <2>1. m.ok /\ (~m.enabled => m.pipeline = <<>>)
      BY <1>2, <1>5
    <2>2. /\ Disconnected(m, s) \in RemoteStore
          /\ Wired(Disconnected(m, s), server, bad, overtaken)
          /\ Disconnected(m, s).pipeline = m.pipeline
          /\ Disconnected(m, s).enabled = m.enabled
      BY <1>4, <2>1, DisconnectedKeeps
    <2> QED  BY <1>2, <1>5, <2>2
  <1>7. /\ Settle(Head(rs.pipeline), "error", n)
        /\ rejected' = rejected \cup {Head(rs.pipeline).doc}
        /\ UNCHANGED <<placed, nextBatchId, user, server, bad, faults, overtaken>>
    BY <1>4, <1>5, <1>6 DEF ReadRefusal, netVars
  <1>8. overtaken' = 0 => Head(rs.pipeline).doc \in bad
    BY <1>7, RefusalFacts
  <1>9. overtaken' \in 0..MaxOvertakes /\ rejected' \subseteq 1..MaxOrders
    BY <1>2, <1>7 DEF PipelineInv, TypeOK
  <1> QED  BY <1>2, <1>6, <1>7, <1>8, <1>9, SettleKeeps

-----------------------------------------------------------------------------
(* The invariant.                                                          *)

(* It holds at the start.                                                  *)
LEMMA PipelineStart ==
    ASSUME Init
    PROVE  PipelineInv
  <1> USE DEF Init
  <1>1. <<>> \in Seq(Batch) /\ <<>> \in Seq(Users) /\ Len(<<>>) = 0 /\ 1..0 = {}
    OBVIOUS
  <1>2. mutationQueue \in [Users -> Seq(Batch)]
        /\ \A u \in Users : mutationQueue[u] = <<>>
    BY <1>1
  <1>3. /\ NewRemoteStore \in RemoteStore
        /\ Wired(NewRemoteStore, server, bad, overtaken)
        /\ Begins(NewRemoteStore, <<>>)
    BY <1>1, NewStoreWired
  <1>4. TypeOK
    <2>1. /\ 1 \in 1..(MaxOrders + 1) /\ 0 \in 0..MaxFaults /\ 0 \in 0..MaxOvertakes
          /\ 0 <= MaxOrders
      BY WritePipelineAssumption
    <2> QED  BY <1>1, <1>2, <1>3, <2>1 DEF TypeOK
  <1>5. QueuesSound
    BY <1>1, <1>2 DEF QueuesSound, Ordered, Owned
  <1>6. Full(rs, mutationQueue[user])
    <2>1. rs = NewRemoteStore /\ mutationQueue[user] = <<>> /\ rs.pipeline = <<>>
      BY <1>2 DEF NewRemoteStore
    <2> QED  BY <1>1, <1>3, <2>1 DEF Full
  <1>7. CallbacksBacked /\ FuturesSound /\ NoneLost
    BY <1>1 DEF CallbacksBacked, FuturesSound, NoneLost
  <1>8. WaitersSound
    BY FS_EmptySet DEF WaitersSound
  <1> QED  BY <1>3, <1>4, <1>5, <1>6, <1>7, <1>8 DEF PipelineInv

(* Every step keeps it.                                                    *)
LEMMA PipelineStep ==
    ASSUME PipelineInv, [Next]_vars
    PROVE  PipelineInv'
  <1>1. CASE WriteMutations
    BY <1>1, WriteStep
  <1>2. CASE RegisterPendingWritesCallback
    BY <1>2, RegisterStep
  <1>3. CASE CredentialsArrive
    BY <1>3, CredentialsArriveStep
  <1>4. CASE BackoffTimer
    BY <1>4, BackoffStep
  <1>5. CASE ServerProcesses
    BY <1>5, ServerStep
  <1>6. CASE ReadHandshake
    BY <1>6, ReadHandshakeStep
  <1>7. CASE ReadResult
    BY <1>7, ReadResultStep
  <1>8. CASE ReadRefusal
    BY <1>8, ReadRefusalStep
  <1>9. CASE CredentialsFail \/ ConnectionLost
    BY <1>9, StreamFailsStep
  <1>10. CASE StaleCredentialsArrive
    BY <1>10, StaleStep
  <1>11. CASE IdleTimer
    BY <1>11, IdleStep
  <1>12. CASE ReadResultThenSendFails
    BY <1>12, SendFailsStep
  <1>13. CASE DisableNetwork \/ EnableNetwork \/ ConnectivityChanged
    BY <1>13, NetworkStep
  <1>14. CASE \E u \in Users : HandleCredentialChange(u)
    BY <1>14, CredentialStep
  <1>15. CASE Restart
    BY <1>15, RestartStep
  <1>16. CASE UNCHANGED vars
    <2>1. /\ RemoteStep(rs) /\ faults' = faults
      BY <1>16 DEF vars, RemoteStep, diskVars, syncVars
    <2>2. /\ rs \in RemoteStore /\ Wired(rs, server, bad, overtaken)
          /\ Full(rs, mutationQueue[user]) /\ faults \in 0..MaxFaults
      BY RemoteFacts
    <2> QED  BY <2>1, <2>2, RemoteKeeps
  <1> QED
    BY <1>1, <1>2, <1>3, <1>4, <1>5, <1>6, <1>7, <1>8, <1>9, <1>10, <1>11, <1>12,
       <1>13, <1>14, <1>15, <1>16 DEF Next, Progress

(* It holds always.                                                        *)
LEMMA PipelineHolds == Spec => []PipelineInv
  <1>1. Init => PipelineInv
    BY PipelineStart
  <1>2. PipelineInv /\ [Next]_vars => PipelineInv'
    BY PipelineStep
  <1> QED  BY <1>1, <1>2, PTL DEF Spec

-----------------------------------------------------------------------------
(* What the runs check.                                                    *)

(* The pipeline is a prefix of the current user's queue on disk, as long as  *)
(* its size allows, and no HARD_ASSERT of the write path fails, however     *)
(* users, networks, streams and restarts interleave.                       *)
THEOREM PipelineStaysInStep == Spec => []PipelineInStep
  <1>1. PipelineInv => PipelineInStep
    <2> SUFFICES ASSUME PipelineInv PROVE PipelineInStep
      OBVIOUS
    <2>1. TypeOK /\ NoAssertionFails
      BY DEF PipelineInv, Wired, NoAssertionFails
    <2>2. PipelineIsPrefix
      <3> SUFFICES ASSUME rs.enabled
                   PROVE  rs.pipeline = SubSeq(mutationQueue[user], 1,
                              Min({MaxPendingWrites, Len(mutationQueue[user])}))
        BY DEF PipelineIsPrefix
      <3>1. PICK q \in Seq(Batch) : q = mutationQueue[user] /\ Full(rs, q)
        BY RemoteFacts
      <3>2. PICK p \in Seq(Batch) : p = rs.pipeline
        BY RemoteFacts
      <3>3. /\ Len(p) <= Len(q) /\ Len(p) <= MaxPendingWrites
            /\ \A i \in 1..Len(p) : p[i] = q[i]
            /\ Len(p) \in {Len(q), MaxPendingWrites}
        BY <3>1, <3>2 DEF Full, Begins
      <3>4. Len(p) \in Nat /\ Len(q) \in Nat /\ MaxPendingWrites \in Nat
        BY WritePipelineAssumption
      <3>5. Min({MaxPendingWrites, Len(q)}) = Len(p)
        <4>1. Min({MaxPendingWrites, Len(q)})
                = IF MaxPendingWrites <= Len(q) THEN MaxPendingWrites ELSE Len(q)
          BY <3>4, MinOfTwo
        <4> QED  BY <3>3, <3>4, <4>1
      <3>6. PICK s \in Seq(Batch) :
                /\ s = SubSeq(q, 1, Len(p)) /\ Len(s) = Len(p)
                /\ \A i \in 1..Len(p) : s[i] = q[i]
        <4>1. \A i \in 1..Len(p) : q[i] \in Batch
          BY <3>3, <3>4
        <4>2. /\ SubSeq(q, 1, Len(p)) \in Seq(Batch)
              /\ Len(SubSeq(q, 1, Len(p))) = Len(p)
              /\ \A i \in 1..Len(p) : SubSeq(q, 1, Len(p))[i] = q[i]
          BY <3>4, <4>1, SubSeqProperties
        <4> QED  BY <4>2
      <3>7. p = s
        BY <3>3, <3>6, SeqEqual
      <3> QED  BY <3>1, <3>2, <3>5, <3>6, <3>7
    <2> QED  BY <2>1, <2>2 DEF PipelineInStep
  <1> QED  BY <1>1, PipelineHolds, PTL

(* After the handshake the answers to be read and the requests to be        *)
(* processed are those of the pipeline, in order: OnWriteStreamMutationResult() *)
(* takes an answer without a name for the batch it is about.               *)
THEOREM AnswersBelong == Spec => []AnswersCorrelate
  <1>1. PipelineInv => AnswersCorrelate
    <2> SUFFICES ASSUME PipelineInv, rs.handshake, overtaken = 0
                 PROVE  Docs(rs.pipeline) = Docs(rs.responses) \o rs.requests
      BY DEF AnswersCorrelate
    <2>1. Correlated(rs, server, bad, overtaken)
      BY DEF PipelineInv, Wired
    <2>2. InStep(rs.pipeline, rs.responses, rs.requests)
      BY <2>1 DEF Correlated
    <2> QED  BY <2>2, RemoteFacts, InStepDocs
  <1> QED  BY <1>1, PipelineHolds, PTL

(* No write is lost between disk and backend, and the future of add() is     *)
(* told what the backend did with this document.                           *)
THEOREM FuturesAreTruthful == Spec => []FuturesTruthful
  <1>1. PipelineInv => FuturesTruthful
    BY DEF PipelineInv, NoneLost, FuturesSound, FuturesTruthful
  <1> QED  BY <1>1, PipelineHolds, PTL

(* waitForPendingWrites() does not complete while a write that was pending   *)
(* at the call is on disk.                                                 *)
THEOREM WaitersWait == Spec => []WaitersReleasedLate
  <1>1. PipelineInv => WaitersReleasedLate
    BY DEF PipelineInv, WaitersSound, WaitersReleasedLate
  <1> QED  BY <1>1, PipelineHolds, PTL

-----------------------------------------------------------------------------
(* The write path implements OrderStore: a step of the client, the network   *)
(* or the backend is a step of the store or leaves it alone.               *)

(* The queues of the store: documents instead of batches.                  *)
StoreQueue == [u \in Users |-> Docs(mutationQueue[u])]

(* What the documents of a queue are when a row is added or removed.       *)
LEMMA DocsAppend ==
    ASSUME NEW q \in Seq(Batch), NEW b \in Batch
    PROVE  Docs(Append(q, b)) = Append(Docs(q), b.doc)
  <1>1. /\ Append(q, b) \in Seq(Batch) /\ Len(Append(q, b)) = Len(q) + 1
        /\ \A i \in 1..Len(q) : Append(q, b)[i] = q[i]
        /\ Append(q, b)[Len(q) + 1] = b
    BY AppendProperties
  <1>2. b.doc \in 1..MaxOrders
    BY DEF Batch
  <1>3. PICK m \in Seq(Batch) : m = Append(q, b)
    BY <1>1
  <1>4. PICK d \in Seq(1..MaxOrders) :
            /\ d = Docs(q) /\ Len(d) = Len(q)
            /\ \A i \in 1..Len(q) : d[i] = q[i].doc
    BY DocsType
  <1>5. PICK e \in Seq(1..MaxOrders) :
            /\ e = Docs(m) /\ Len(e) = Len(m)
            /\ \A i \in 1..Len(m) : e[i] = m[i].doc
    BY DocsType
  <1>6. PICK g \in Seq(1..MaxOrders) :
            /\ g = Append(d, b.doc) /\ Len(g) = Len(d) + 1
            /\ \A i \in 1..Len(d) : g[i] = d[i]
            /\ g[Len(d) + 1] = b.doc
    <2>1. /\ Append(d, b.doc) \in Seq(1..MaxOrders)
          /\ Len(Append(d, b.doc)) = Len(d) + 1
          /\ \A i \in 1..Len(d) : Append(d, b.doc)[i] = d[i]
          /\ Append(d, b.doc)[Len(d) + 1] = b.doc
      BY <1>2, AppendProperties
    <2> QED  BY <2>1
  <1>7. Len(e) = Len(g) /\ Len(q) \in Nat /\ Len(e) = Len(q) + 1
    BY <1>1, <1>3, <1>4, <1>5, <1>6
  <1>8. \A i \in 1..Len(e) : e[i] = g[i]
    <2> SUFFICES ASSUME NEW i \in 1..Len(e) PROVE e[i] = g[i]
      OBVIOUS
    <2>1. CASE i \in 1..Len(q)
      BY <1>1, <1>3, <1>4, <1>5, <1>6, <2>1
    <2>2. CASE i = Len(q) + 1
      BY <1>1, <1>3, <1>4, <1>5, <1>6, <2>2
    <2> QED  BY <1>7, <2>1, <2>2
  <1>9. e = g
    BY <1>7, <1>8, SeqEqual
  <1> QED  BY <1>3, <1>4, <1>5, <1>6, <1>9

(* The same for the first row.                                             *)
LEMMA DocsTail ==
    ASSUME NEW q \in Seq(Batch), q # <<>>
    PROVE  /\ Docs(Tail(q)) = Tail(Docs(q)) /\ Docs(q) # <<>>
           /\ Head(Docs(q)) = q[1].doc
  <1>1. PICK t \in Seq(Batch) :
            /\ t = Tail(q) /\ Len(t) = Len(q) - 1
            /\ \A i \in 1..(Len(q) - 1) : t[i] = q[i + 1]
    BY Rest
  <1>2. PICK d \in Seq(1..MaxOrders) :
            /\ d = Docs(q) /\ Len(d) = Len(q)
            /\ \A i \in 1..Len(q) : d[i] = q[i].doc
    BY DocsType
  <1>3. PICK e \in Seq(1..MaxOrders) :
            /\ e = Docs(t) /\ Len(e) = Len(t)
            /\ \A i \in 1..Len(t) : e[i] = t[i].doc
    BY DocsType
  <1>4. Len(q) \in Nat /\ Len(q) >= 1
    BY Rest
  <1>5. d # <<>>
    <2>1. Len(d) # 0 /\ Len(<<>>) = 0
      BY <1>2, <1>4
    <2> QED  BY <2>1
  <1>6. PICK g \in Seq(1..MaxOrders) :
            /\ g = Tail(d) /\ Len(g) = Len(d) - 1
            /\ \A i \in 1..(Len(d) - 1) : g[i] = d[i + 1]
    BY <1>5, Rest
  <1>7. Len(e) = Len(g)
    BY <1>1, <1>2, <1>3, <1>6
  <1>8. \A i \in 1..Len(e) : e[i] = g[i]
    <2> SUFFICES ASSUME NEW i \in 1..Len(e) PROVE e[i] = g[i]
      OBVIOUS
    <2>1. i \in 1..(Len(q) - 1) /\ i + 1 \in 1..Len(q) /\ i \in 1..Len(t)
      BY <1>1, <1>3, <1>4
    <2> QED  BY <1>1, <1>2, <1>3, <1>6, <2>1
  <1>9. e = g
    BY <1>7, <1>8, SeqEqual
  <1>10. Head(d) = q[1].doc
    <2>1. Head(d) = d[1] /\ 1 \in 1..Len(q)
      BY <1>4, <1>5, Rest
    <2> QED  BY <1>2, <2>1
  <1> QED  BY <1>1, <1>2, <1>3, <1>5, <1>6, <1>9, <1>10

(* add() is the store's WriteMutations.                                    *)
LEMMA WriteRefines ==
    ASSUME PipelineInv, WriteMutations
    PROVE  Store!StoreNext(Users, {0})
  <1>1. PICK n, q : n = Len(placed) + 1 /\ q = mutationQueue[user]
    OBVIOUS
  <1>2. PICK b : b = [id |-> nextBatchId, doc |-> n]
    OBVIOUS
  <1>3. user \in Users /\ q \in Seq(Batch)
    BY <1>1, RemoteFacts
  <1>4. n <= MaxOrders /\ Len(placed) \in Nat /\ MaxOrders \in Nat
        /\ nextBatchId \in 1..(MaxOrders + 1) /\ nextBatchId <= n
    BY <1>1, WritePipelineAssumption
    DEF WriteMutations, PipelineInv, TypeOK, QueuesSound
  <1>5. b \in Batch /\ b.doc = n /\ b.id = nextBatchId
    <2>1. nextBatchId \in 1..MaxOrders /\ n \in 1..MaxOrders
      BY <1>1, <1>4
    <2> QED  BY <1>2, <2>1 DEF Batch
  <1>6. AddMutationBatch(q, b) = Append(q, b)
    <2>1. \A i \in 1..Len(q) : q[i].id < b.id
      BY <1>1, <1>3, <1>5 DEF PipelineInv, QueuesSound, Owned
    <2> QED  BY <1>3, <1>5, <2>1, AddLastRow
  <1>7. /\ placed' = Append(placed, user)
        /\ mutationQueue' = [mutationQueue EXCEPT ![user] = Append(q, b)]
        /\ futures' = futures \cup
                {[order |-> n, inst |-> 0, status |-> "waiting"]}
        /\ UNCHANGED <<server, rejected>>
    BY <1>1, <1>2, <1>6 DEF WriteMutations
  <1>8. StoreQueue' = [StoreQueue EXCEPT ![user] = Append(StoreQueue[user], n)]
    <2>1. Docs(Append(q, b)) = Append(Docs(q), n)
      BY <1>3, <1>5, DocsAppend
    <2>2. mutationQueue \in [Users -> Seq(Batch)]
      BY DEF PipelineInv, TypeOK
    <2> QED  BY <1>1, <1>3, <1>7, <2>1, <2>2 DEF StoreQueue
  <1>9. Store!WriteMutations(user, user, 0)
    BY <1>1, <1>4, <1>7, <1>8 DEF Store!WriteMutations, StoreQueue
  <1> QED  BY <1>3, <1>9 DEF Store!StoreNext

(* An answer is the store's HandleSuccessfulWrite or HandleRejectedWrite.  *)
LEMMA SettleRefines ==
    ASSUME PipelineInv, rs.enabled, rs.pipeline # <<>>,
           NEW status, NEW r \in RemoteStore, r.enabled, r.ok,
           r.pipeline = Tail(rs.pipeline),
           Settle(Head(rs.pipeline), status, r)
    PROVE  /\ StoreQueue[user] # <<>>
           /\ Head(StoreQueue[user]) = Head(rs.pipeline).doc
           /\ StoreQueue' = [StoreQueue EXCEPT ![user] = Tail(StoreQueue[user])]
           /\ Store!NotifyUser(Head(StoreQueue[user]), status)
  <1>1. PICK q \in Seq(Batch) :
            /\ q = mutationQueue[user] /\ q # <<>>
            /\ Head(rs.pipeline) = q[1]
            /\ mutationQueue' = [mutationQueue EXCEPT ![user] = Tail(q)]
            /\ futures' = {IF f.order = q[1].doc
                           THEN [f EXCEPT !.status = status] ELSE f : f \in futures}
    BY SettleEffect
  <1>2. /\ Docs(Tail(q)) = Tail(Docs(q)) /\ Docs(q) # <<>>
        /\ Head(Docs(q)) = q[1].doc
    BY <1>1, DocsTail
  <1>3. user \in Users /\ mutationQueue \in [Users -> Seq(Batch)]
    BY DEF PipelineInv, TypeOK
  <1>4. StoreQueue[user] = Docs(q)
    BY <1>1, <1>3 DEF StoreQueue
  <1>5. StoreQueue' = [StoreQueue EXCEPT ![user] = Tail(StoreQueue[user])]
    BY <1>1, <1>2, <1>3, <1>4 DEF StoreQueue
  <1>6. \A f \in futures :
            f.order = q[1].doc =>
                [f EXCEPT !.status = status]
                  = [order |-> q[1].doc, inst |-> f.inst, status |-> status]
    <2>1. \A f \in futures : f \in [order : 1..MaxOrders, inst : {0},
                                    status : {"waiting", "ok", "error"}]
      BY DEF PipelineInv, TypeOK
    <2> QED  BY <2>1
  <1>7. futures' = {IF f.order = q[1].doc
                    THEN [order |-> q[1].doc, inst |-> f.inst, status |-> status]
                    ELSE f : f \in futures}
    <2> DEFINE told(f) == IF f.order = q[1].doc
                          THEN [f EXCEPT !.status = status] ELSE f
               new(f) == IF f.order = q[1].doc
                         THEN [order |-> q[1].doc, inst |-> f.inst,
                               status |-> status]
                         ELSE f
    <2>1. \A f \in futures : told(f) = new(f)
      BY <1>6
    <2>2. futures' = {told(f) : f \in futures}
      BY <1>1
    <2> HIDE DEF told, new
    <2>3. futures' = {new(f) : f \in futures}
      BY <2>1, <2>2
    <2> QED  BY <2>3 DEF new
  <1>8. Store!NotifyUser(q[1].doc, status)
    BY <1>7 DEF Store!NotifyUser
  <1> QED  BY <1>1, <1>2, <1>4, <1>5, <1>8

(* A result is the store's HandleSuccessfulWrite, whatever is left to read. *)
LEMMA ResultRefines ==
    ASSUME PipelineInv, NEW rest \in Seq(Response),
           rs.responses # <<>> /\ Head(rs.responses).kind = "result",
           OnWriteStreamMutationResult(rest)
    PROVE  Store!StoreNext(Users, {0})
  <1>1. rs.responses # <<>> /\ Head(rs.responses).kind = "result"
    OBVIOUS
  <1>2. /\ rs.enabled /\ rs.ok /\ rs.pipeline # <<>>
        /\ Tail(rs.pipeline) \in Seq(Batch)
    BY <1>1, AnswerFacts
  <1>3. Head(rs.pipeline).doc \in server
    BY <1>1, ResultFacts
  <1>4. PICK n \in RemoteStore :
            /\ n = [rs EXCEPT !.pipeline = Tail(rs.pipeline),
                              !.responses = rest]
            /\ n.ok = rs.ok /\ n.enabled = rs.enabled
            /\ n.pipeline = Tail(rs.pipeline)
    <2>1. rs \in RemoteStore
      BY RemoteFacts
    <2>2. LET z == [rs EXCEPT !.pipeline = Tail(rs.pipeline), !.responses = rest]
          IN  /\ z \in RemoteStore /\ z.ok = rs.ok
              /\ z.enabled = rs.enabled /\ z.pipeline = Tail(rs.pipeline)
      BY <1>2, <2>1 DEF RemoteStore
    <2> QED  BY <2>2
  <1>5. /\ Settle(Head(rs.pipeline), "ok", n)
        /\ UNCHANGED <<placed, server, rejected>>
    BY <1>4 DEF OnWriteStreamMutationResult
  <1>6. /\ StoreQueue[user] # <<>>
        /\ Head(StoreQueue[user]) = Head(rs.pipeline).doc
        /\ StoreQueue' = [StoreQueue EXCEPT ![user] = Tail(StoreQueue[user])]
        /\ Store!NotifyUser(Head(StoreQueue[user]), "ok")
    BY <1>2, <1>4, <1>5, SettleRefines
  <1>7. Store!HandleSuccessfulWrite(user)
    BY <1>3, <1>5, <1>6 DEF Store!HandleSuccessfulWrite, StoreQueue
  <1>8. user \in Users
    BY RemoteFacts
  <1> QED  BY <1>7, <1>8 DEF Store!StoreNext

(* A refusal is the store's HandleRejectedWrite, of whichever write it was. *)
LEMMA RefusalRefines ==
    ASSUME PipelineInv, ReadRefusal
    PROVE  Store!StoreNext(Users, {0})
  <1>1. rs.responses # <<>> /\ Head(rs.responses).kind = "refusal"
    BY DEF ReadRefusal
  <1>2. /\ rs.enabled /\ rs.ok /\ rs.pipeline # <<>>
        /\ Tail(rs.pipeline) \in Seq(Batch)
    BY <1>1, AnswerFacts
  <1>3. rs \in RemoteStore /\ rs.stream \in Stream
    BY RemoteFacts
  <1>4. PICK s \in Stream : /\ s = InhibitBackoff(Close(rs.stream, FALSE))
                            /\ ~IsStarted(s) /\ ~s.idle
    <2>1. PICK t \in Stream : t = Close(rs.stream, FALSE) /\ ~t.idle
      <3>1. Close(rs.stream, FALSE) \in Stream /\ ~Close(rs.stream, FALSE).idle
        BY <1>3, StreamOps
      <3> QED  BY <3>1
    <2>2. /\ InhibitBackoff(t) \in Stream /\ ~IsStarted(InhibitBackoff(t))
          /\ InhibitBackoff(t).idle = t.idle
      BY StreamOps
    <2> QED  BY <2>1, <2>2
  <1>5. PICK m \in RemoteStore :
            /\ m = [rs EXCEPT !.pipeline = Tail(rs.pipeline)]
            /\ m.ok = rs.ok /\ m.enabled = rs.enabled
            /\ m.pipeline = Tail(rs.pipeline)
    <2>1. LET z == [rs EXCEPT !.pipeline = Tail(rs.pipeline)] IN
          /\ z \in RemoteStore /\ z.ok = rs.ok /\ z.enabled = rs.enabled
          /\ z.pipeline = Tail(rs.pipeline)
      BY <1>2, <1>3 DEF RemoteStore
    <2> QED  BY <2>1
  <1>6. PICK n \in RemoteStore :
            /\ n = Disconnected(m, s) /\ n.ok
            /\ n.pipeline = Tail(rs.pipeline) /\ n.enabled
    <2>1. m.ok /\ (~m.enabled => m.pipeline = <<>>)
      BY <1>2, <1>5
    <2>2. /\ Disconnected(m, s) \in RemoteStore
          /\ Wired(Disconnected(m, s), server, bad, overtaken)
          /\ Disconnected(m, s).pipeline = m.pipeline
          /\ Disconnected(m, s).enabled = m.enabled
      BY <1>4, <2>1, DisconnectedKeeps
    <2>3. Disconnected(m, s).ok
      BY <2>2 DEF Wired
    <2> QED  BY <1>2, <1>5, <2>2, <2>3
  <1>7. /\ Settle(Head(rs.pipeline), "error", n)
        /\ rejected' = rejected \cup {Head(rs.pipeline).doc}
        /\ UNCHANGED <<placed, server>>
    BY <1>4, <1>5, <1>6 DEF ReadRefusal
  <1>8. /\ StoreQueue[user] # <<>>
        /\ Head(StoreQueue[user]) = Head(rs.pipeline).doc
        /\ StoreQueue' = [StoreQueue EXCEPT ![user] = Tail(StoreQueue[user])]
        /\ Store!NotifyUser(Head(StoreQueue[user]), "error")
    BY <1>2, <1>6, <1>7, SettleRefines
  <1>9. Store!HandleRejectedWrite(user)
    BY <1>7, <1>8 DEF Store!HandleRejectedWrite, StoreQueue
  <1>10. user \in Users
    BY RemoteFacts
  <1> QED  BY <1>9, <1>10 DEF Store!StoreNext

(* What the backend commits is the first write of the queue that it does not  *)
(* have yet; it may have it from an earlier connection.                    *)
LEMMA ServerRefines ==
    ASSUME PipelineInv, ServerProcesses
    PROVE  Store!StoreNext(Users, {0}) \/ UNCHANGED Store!storeVars
  <1>1. UNCHANGED <<placed, mutationQueue, futures, rejected>>
    BY DEF ServerProcesses, diskVars, syncVars
  <1>2. CASE server' = server
    BY <1>1, <1>2 DEF Store!storeVars
  <1>3. CASE server' # server
    <2>1. rs.handshake
      BY <1>3, ServerGreets
    <2>2. PICK d : d = Head(rs.requests)
      OBVIOUS
    <2>3. /\ InStep(rs.pipeline, rs.responses, rs.requests)
          /\ Answered(rs.responses, server, bad)
          /\ \A j \in 1..Len(rs.responses) : rs.responses[j].kind # "refusal"
          /\ d = rs.requests[1] /\ server' = server \cup {d} /\ d \notin server
      BY <1>3, <2>1, <2>2, ServerCommits
    <2>4. PICK q \in Seq(Batch) : q = mutationQueue[user]
      BY RemoteFacts
    <2>5. /\ rs.pipeline \in Seq(Batch) /\ rs.responses \in Seq(Response)
          /\ rs.requests \in Seq(0..MaxOrders) /\ rs.requests # <<>>
          /\ user \in Users
      BY RemoteFacts DEF ServerProcesses
    <2>6. rs.enabled
      <3>1. Wired(rs, server, bad, overtaken) /\ rs.enabled \in BOOLEAN
        BY RemoteFacts
      <3>2. rs.stream \in Stream /\ IsOpen(rs.stream)
        BY <2>1, <3>1, RemoteFacts DEF Wired
      <3> QED  BY <3>1, <3>2, StreamOps DEF Wired
    <2>7. Begins(rs, q)
      BY <2>4, <2>6 DEF PipelineInv, Full
    <2>8. PICK i : i = Len(rs.responses) + 1
      OBVIOUS
    <2>9. /\ i \in 1..Len(rs.pipeline) /\ i \in 1..Len(q)
          /\ \A j \in 1..(i - 1) : j \in 1..Len(rs.responses)
          /\ \A j \in 1..i : j \in 1..Len(rs.pipeline) /\ j \in 1..Len(q)
          /\ 1 \in 1..Len(rs.requests)
      <3>1. /\ Len(rs.requests) \in Nat /\ Len(rs.requests) >= 1
            /\ Len(rs.responses) \in Nat /\ Len(q) \in Nat
        BY <2>5, Rest
      <3>2. /\ Len(rs.pipeline) = Len(rs.responses) + Len(rs.requests)
            /\ Len(rs.pipeline) <= Len(q)
        BY <2>3, <2>7 DEF InStep, Begins
      <3>3. \A a, b, c, p \in Nat : b >= 1 /\ p = a + b /\ p <= c =>
                a + 1 \in 1..p /\ a + 1 \in 1..c /\ 1 \in 1..b
        OBVIOUS
      <3>4. Len(rs.pipeline) \in Nat
        BY <2>5
      <3>5. i \in 1..Len(rs.pipeline) /\ i \in 1..Len(q) /\ 1 \in 1..Len(rs.requests)
        BY <2>8, <3>1, <3>2, <3>3, <3>4
      <3>6. \A a \in Nat : \A j \in 1..((a + 1) - 1) : j \in 1..a
        OBVIOUS
      <3>7. \A j \in 1..(i - 1) : j \in 1..Len(rs.responses)
        BY <2>8, <3>1, <3>6
      <3>8. \A n \in Nat : \A k \in 1..n : \A j \in 1..k : j \in 1..n
        OBVIOUS
      <3>9. \A j \in 1..i : j \in 1..Len(rs.pipeline) /\ j \in 1..Len(q)
        BY <3>1, <3>4, <3>5, <3>8
      <3> QED  BY <3>5, <3>7, <3>9
    <2>10. d = q[i].doc
      BY <2>3, <2>7, <2>8, <2>9 DEF InStep, Begins
    <2>11. \A j \in 1..(i - 1) : q[j].doc \in server
      <3> SUFFICES ASSUME NEW j \in 1..(i - 1) PROVE q[j].doc \in server
        OBVIOUS
      <3>1. j \in 1..Len(rs.responses) /\ j \in 1..Len(rs.pipeline)
        <4>1. i \in Nat
          BY <2>9
        <4>2. j \in 1..i
          BY <4>1
        <4> QED  BY <2>9, <4>2
      <3>2. rs.responses[j].doc \in server
        BY <2>3, <3>1 DEF Answered
      <3> QED  BY <2>3, <2>7, <3>1, <3>2 DEF InStep, Begins
    <2>12. PICK e \in Seq(1..MaxOrders) :
              /\ e = Docs(q) /\ Len(e) = Len(q)
              /\ \A j \in 1..Len(q) : e[j] = q[j].doc
      BY DocsType
    <2>13. StoreQueue[user] = e
      BY <2>4, <2>5, <2>12 DEF StoreQueue
    <2>14. /\ i \in 1..Len(e) /\ e[i] = d
           /\ \A j \in 1..(i - 1) : e[j] \in server
      <3>1. i \in Nat
        BY <2>9
      <3>2. \A j \in 1..(i - 1) : j \in 1..i
        BY <3>1
      <3> QED  BY <2>9, <2>10, <2>11, <2>12, <3>2
    <2>15. Store!ServerApply(user, i)
      BY <1>1, <2>3, <2>13, <2>14 DEF Store!ServerApply, StoreQueue
    <2>16. i \in 1..Len(StoreQueue[user])
      BY <2>13, <2>14
    <2> QED  BY <2>5, <2>15, <2>16 DEF Store!StoreNext, StoreQueue
  <1> QED  BY <1>2, <1>3

(* Every step of the write path is one of the store or a stutter.          *)
LEMMA StoreStep ==
    ASSUME PipelineInv, [Next]_vars
    PROVE  [Store!StoreNext(Users, {0})]_(Store!storeVars)
  <1>1. CASE WriteMutations
    BY <1>1, WriteRefines
  <1>2. CASE ServerProcesses
    BY <1>2, ServerRefines
  <1>3. CASE ReadResult
    <2>1. rs.responses # <<>> /\ Head(rs.responses).kind = "result"
      BY <1>3 DEF ReadResult
    <2>2. Tail(rs.responses) \in Seq(Response)
      BY <2>1, ResultFacts
    <2> QED  BY <1>3, <2>1, <2>2, ResultRefines DEF ReadResult
  <1>4. CASE ReadRefusal
    BY <1>4, RefusalRefines
  <1>5. CASE ReadResultThenSendFails
    <2>1. /\ rs.responses # <<>> /\ Head(rs.responses).kind = "result"
          /\ OnWriteStreamMutationResult(<<Last(rs.responses)>>)
      BY <1>5 DEF ReadResultThenSendFails, Ended
    <2>2. rs.responses \in Seq(Response)
      BY RemoteFacts
    <2>3. <<Last(rs.responses)>> \in Seq(Response)
      BY <2>1, <2>2 DEF Last
    <2> QED  BY <2>1, <2>3, ResultRefines
  <1>6. CASE Restart
    BY <1>6 DEF Restart, diskVars, Store!StoreNext, Store!StoreRestart
  <1>7. CASE UNCHANGED <<placed, mutationQueue, server, rejected, futures>>
    BY <1>7 DEF Store!storeVars
  <1>8. CASE RegisterPendingWritesCallback
    BY <1>7, <1>8 DEF RegisterPendingWritesCallback, diskVars
  <1>9. CASE CredentialsArrive \/ BackoffTimer \/ ReadHandshake \/ CredentialsFail
             \/ StaleCredentialsArrive \/ IdleTimer \/ ConnectionLost
             \/ DisableNetwork \/ EnableNetwork \/ ConnectivityChanged
    <2>1. \E r : RemoteStep(r)
      BY <1>9 DEF CredentialsArrive, BackoffTimer, ReadHandshake, CredentialsFail,
         StaleCredentialsArrive, IdleTimer, ConnectionLost, DisableNetwork,
         EnableNetwork, ConnectivityChanged
    <2> QED  BY <1>7, <2>1 DEF RemoteStep, diskVars, syncVars
  <1>10. CASE \E u \in Users : HandleCredentialChange(u)
    BY <1>7, <1>10 DEF HandleCredentialChange, diskVars
  <1>11. CASE UNCHANGED vars
    BY <1>7, <1>11 DEF vars
  <1> QED
    BY <1>1, <1>2, <1>3, <1>4, <1>5, <1>6, <1>8, <1>9, <1>10, <1>11
    DEF Next, Progress

(* The write path implements OrderStore: what SyncEngine, LocalStore,        *)
(* RemoteStore and the backend do to the documents, the queues on disk and   *)
(* the futures is what OrderStore allows, failed sends that overtake an      *)
(* answer included.                                                        *)
THEOREM ImplementsStore == Spec => ImplementsOrderStore
  <1>1. Init => Store!StoreInit
    <2>1. Docs(<<>>) = <<>>
      BY DEF Docs
    <2> QED  BY <2>1 DEF Init, Store!StoreInit
  <1>2. PipelineInv /\ [Next]_vars =>
            [Store!StoreNext(Users, {0})]_(Store!storeVars)
    BY StoreStep
  <1> QED  BY <1>1, <1>2, PipelineHolds, PTL DEF Spec, ImplementsOrderStore
=============================================================================
