------------------------- MODULE SearchHistoryProofs -------------------------
(***************************************************************************)
(* Proofs about SearchHistory for every cap, every number of saves and     *)
(* every interleaving.                                                     *)
(***************************************************************************)
EXTENDS SearchHistory, TLAPS

-----------------------------------------------------------------------------
(* Facts about the operators.                                              *)

(* AddSearch yields a list of texts that respects the cap if the old list   *)
(* did.                                                                    *)
LEMMA AddSearchType ==
    ASSUME NEW list \in Seq(Text), NEW q \in Text
    PROVE  /\ AddSearch(list, q) \in Seq(Text)
           /\ Len(list) <= MaxItems => Len(AddSearch(list, q)) <= MaxItems
  <1>1. MaxItems \in Nat /\ MaxItems >= 1
    BY SearchAssumption
  <1>2. CASE Len(list) = MaxItems
    <2>1. SubSeq(list, 1, MaxItems - 1) \in Seq(Text)
      BY <1>1, <1>2
    <2>2. Len(SubSeq(list, 1, MaxItems - 1)) = MaxItems - 1
      BY <1>1, <1>2
    <2> QED  BY <1>1, <1>2, <2>1, <2>2 DEF AddSearch
  <1>3. CASE Len(list) # MaxItems
    BY <1>1, <1>3 DEF AddSearch
  <1> QED  BY <1>2, <1>3

(* The head of the queue is a request, and Ask moves its owner to the end.  *)
LEMMA AskType ==
    ASSUME TypeOK, pending # <<>>,
           NEW op \in {"read", "init", "reread", "write"},
           NEW value \in Seq(Text)
    PROVE  LET r == Head(pending) p == Ask(r, op, value) IN
           /\ r \in Request
           /\ r.delegate \in 1..Len(queries) /\ r.save \in 1..saves
           /\ p \in Seq(Request)
           /\ Len(p) = Len(pending)
           /\ \A i \in 1..(Len(p) - 1) : p[i] = pending[i + 1]
           /\ p[Len(p)] = [op |-> op, save |-> r.save,
                        delegate |-> r.delegate, value |-> value]
  <1>1. /\ pending \in Seq(Request)
        /\ Len(pending) \in Nat /\ Len(pending) > 0
        /\ Head(pending) = pending[1] /\ Head(pending) \in Request
    BY DEF TypeOK
  <1>2. /\ Tail(pending) \in Seq(Request)
        /\ Len(Tail(pending)) = Len(pending) - 1
        /\ \A i \in 1..(Len(pending) - 1) : Tail(pending)[i] = pending[i + 1]
    BY <1>1
  <1>3. [op |-> op, save |-> Head(pending).save,
         delegate |-> Head(pending).delegate, value |-> value] \in Request
    BY <1>1 DEF Request
  <1>4. Head(pending).delegate \in 1..Len(queries)
        /\ Head(pending).save \in 1..saves
    BY <1>1 DEF TypeOK
  <1> QED  BY <1>1, <1>2, <1>3, <1>4 DEF Ask

-----------------------------------------------------------------------------
(* Type correctness.                                                       *)

(* The steps of the user interface preserve the types.                     *)
LEMMA BuildType ==
    ASSUME TypeOK, body # "closed", BuildResults,
           Len(queries') = Len(queries)
    PROVE  /\ pending' \in Seq(Request)
           /\ \A i \in 1..Len(pending') :
                /\ pending'[i].delegate \in 1..Len(queries')
                /\ pending'[i].save \in 1..saves'
           /\ saves' \in 0..MaxSaves
           /\ alone' \in BOOLEAN
           /\ writer' \in 0..saves' /\ firsts' \subseteq 1..saves'
  <1> DEFINE r == [op |-> "read", save |-> saves + 1,
                   delegate |-> Len(queries), value |-> <<>>]
  <1>1. /\ MaxSaves \in Nat /\ saves \in Nat
        /\ Len(queries) \in Nat /\ Len(queries) > 0
        /\ pending \in Seq(Request)
    BY SearchAssumption DEF TypeOK
  <1>2. r \in Request
    <2>1. <<>> \in Seq(Text)  OBVIOUS
    <2> QED  BY <1>1, <2>1 DEF Request
  <1>3. pending' = Append(pending, r)
    BY DEF BuildResults
  <1> HIDE DEF r
  <1>4. /\ pending' \in Seq(Request)
        /\ Len(pending') = Len(pending) + 1
        /\ \A i \in 1..Len(pending) : pending'[i] = pending[i]
        /\ pending'[Len(pending) + 1] = r
    BY <1>1, <1>2, <1>3
  <1>5. saves' = saves + 1 /\ saves' \in 0..MaxSaves
    BY <1>1 DEF BuildResults, TypeOK
  <1>6. \A i \in 1..Len(pending') :
            /\ pending'[i].delegate \in 1..Len(queries')
            /\ pending'[i].save \in 1..saves'
    <2>1. r.delegate = Len(queries) /\ r.save = saves + 1  BY DEF r
    <2>2. \A i \in 1..Len(pending) :
              pending[i].delegate \in 1..Len(queries) /\ pending[i].save \in 1..saves
      BY DEF TypeOK
    <2>3. Len(pending) \in Nat  BY <1>1
    <2> SUFFICES ASSUME NEW i \in 1..Len(pending')
                 PROVE  /\ pending'[i].delegate \in 1..Len(queries)
                        /\ pending'[i].save \in 1..(saves + 1)
      BY <1>5
    <2>4. CASE i = Len(pending) + 1
      BY <1>1, <1>4, <2>1, <2>4
    <2>5. CASE i \in 1..Len(pending)
      <3>1. pending'[i] = pending[i]  BY <1>4, <2>5
      <3> QED  BY <1>1, <2>2, <2>5, <3>1
    <2> QED  BY <1>4, <2>3, <2>4, <2>5
  <1>7. writer' \in 0..saves' /\ firsts' \subseteq 1..saves' /\ alone' \in BOOLEAN
    BY <1>1, <1>5 DEF BuildResults, TypeOK
  <1> QED  BY <1>4, <1>5, <1>6, <1>7

(* The open delegate's text field holds a text.                            *)
LEMMA QueryType ==
    ASSUME TypeOK, body # "closed"
    PROVE  query \in Text
  BY DEF TypeOK, query

(* Setting the query keeps the types of the fields.                        *)
LEMMA SetQueryType ==
    ASSUME TypeOK, body # "closed", NEW q \in Text, SetQuery(q)
    PROVE  /\ queries' \in Seq(Text)
           /\ Len(queries') = Len(queries)
           /\ queries' # <<>>
  BY DEF TypeOK, SetQuery

(* Every step keeps the types; the second read relies on there being a     *)
(* list.                                                                   *)
LEMMA TypeStep == TypeOK /\ RereadFindsList /\ [Next]_vars => TypeOK'
  <1> SUFFICES ASSUME TypeOK, RereadFindsList, [Next]_vars PROVE TypeOK'
    OBVIOUS
  <1>a. Empty \in Text /\ Terms \subseteq Text
    BY DEF Text
  <1>1. CASE OpenSearch
    <2>1. /\ queries' = Append(queries, Empty) /\ queries \in Seq(Text)
          /\ Len(queries) \in Nat
      BY <1>1 DEF OpenSearch, TypeOK, history
    <2>2. /\ queries' \in Seq(Text) /\ Len(queries') = Len(queries) + 1
          /\ queries' # <<>>
      BY <1>a, <2>1
    <2>3. Len(queries') <= MaxDelegates
      BY <1>1, <2>1, <2>2, SearchAssumption DEF OpenSearch
    <2>4. \A i \in 1..Len(pending) : pending[i].delegate \in 1..Len(queries')
      BY <2>1, <2>2 DEF TypeOK
    <2> QED  BY <1>1, <2>2, <2>3, <2>4 DEF OpenSearch, TypeOK, history
  <1>2. ASSUME NEW q \in Text, TypeQuery(q) PROVE TypeOK'
    BY <1>2, SetQueryType DEF TypeQuery, TypeOK, history
  <1>3. CASE Submit
    BY <1>3, QueryType, BuildType DEF Submit, TypeOK
  <1>4. ASSUME NEW t \in Terms, SuggestionTap(t) PROVE TypeOK'
    <2>1. t \in Text /\ body # "closed" /\ SetQuery(t) /\ BuildResults
      BY <1>a, <1>4 DEF SuggestionTap
    <2> QED  BY <1>4, <2>1, SetQueryType, BuildType DEF SuggestionTap, TypeOK
  <1>5. CASE FocusField
    BY <1>5 DEF FocusField, TypeOK, history
  <1>6. CASE Clear
    <2>1. body # "closed" /\ SetQuery(Empty)
      BY <1>6 DEF Clear
    <2>2. CASE body = "results" /\ BuildResults
      BY <1>a, <1>6, <2>1, <2>2, SetQueryType, BuildType DEF Clear, TypeOK, history
    <2>3. CASE UNCHANGED <<pending, saves, history>>
      BY <1>a, <1>6, <2>1, <2>3, SetQueryType DEF Clear, TypeOK, history
    <2> QED  BY <1>6, <2>2, <2>3 DEF Clear
  <1>7. CASE Rebuild
    BY <1>7, QueryType, BuildType DEF Rebuild, TypeOK
  <1>8. CASE Close
    BY <1>8 DEF Close, TypeOK, history
  <1>9. ASSUME NEW op \in {"read", "init", "reread", "write"},
               NEW value \in Seq(Text), pending # <<>>,
               pending' = Ask(Head(pending), op, value)
        PROVE  /\ pending' \in Seq(Request)
               /\ \A i \in 1..Len(pending') :
                    /\ pending'[i].delegate \in 1..Len(queries)
                    /\ pending'[i].save \in 1..saves
    <2> DEFINE r == Head(pending)
    <2>1. /\ r \in Request /\ r.delegate \in 1..Len(queries)
          /\ r.save \in 1..saves
          /\ pending' \in Seq(Request) /\ Len(pending') = Len(pending)
          /\ \A i \in 1..(Len(pending') - 1) : pending'[i] = pending[i + 1]
          /\ pending'[Len(pending')] =
                [op |-> op, save |-> r.save, delegate |-> r.delegate,
                 value |-> value]
      BY <1>9, AskType
    <2>2. /\ pending'[Len(pending')].delegate = r.delegate
          /\ pending'[Len(pending')].save = r.save
      BY <2>1
    <2>3. Len(pending) \in Nat
      BY DEF TypeOK
    <2> HIDE DEF r
    <2>4. ASSUME NEW i \in 1..Len(pending')
          PROVE  /\ pending'[i].delegate \in 1..Len(queries)
                 /\ pending'[i].save \in 1..saves
      <3>1. CASE i = Len(pending')
        BY <2>1, <2>2, <3>1
      <3>2. CASE i # Len(pending')
        <4>1. i + 1 \in 1..Len(pending) /\ pending'[i] = pending[i + 1]
          BY <2>1, <2>3, <3>2
        <4> QED  BY <4>1 DEF TypeOK
      <3> QED  BY <3>1, <3>2
    <2> QED  BY <2>1, <2>4
  <1>10. ASSUME pending # <<>>, stored # NoList
         PROVE  AddSearch(stored, queries[Head(pending).delegate]) \in Seq(Text)
    <2>1. Head(pending).delegate \in 1..Len(queries)
      <3>1. pending \in Seq(Request) /\ Head(pending) = pending[1]
            /\ 1 \in 1..Len(pending)
        BY <1>10 DEF TypeOK
      <3> QED  BY <3>1 DEF TypeOK
    <2>2. queries[Head(pending).delegate] \in Text /\ stored \in Seq(Text)
      BY <1>10, <2>1 DEF TypeOK
    <2> QED  BY <2>2, AddSearchType
  <1>11. CASE ServeRead
    <2>1. CASE stored = NoList
      <3>1. pending # <<>> /\ pending' = Ask(Head(pending), "init", <<>>)
        BY <1>11, <2>1 DEF ServeRead
      <3>2. <<>> \in Seq(Text)  OBVIOUS
      <3>3. firsts' \subseteq 1..saves
        <4>1. Head(pending) = pending[1] /\ 1 \in 1..Len(pending)
          BY <3>1 DEF TypeOK
        <4> QED  BY <1>11, <2>1, <4>1 DEF ServeRead, TypeOK
      <3> QED  BY <1>9, <1>11, <3>1, <3>2, <3>3 DEF ServeRead, TypeOK
    <2>2. CASE stored # NoList
      <3>1. /\ pending # <<>>
            /\ pending' = Ask(Head(pending), "write",
                    AddSearch(stored, queries[Head(pending).delegate]))
        BY <1>11, <2>2 DEF ServeRead
      <3> QED  BY <1>9, <1>10, <1>11, <2>2, <3>1 DEF ServeRead, TypeOK
    <2> QED  BY <2>1, <2>2
  <1>12. CASE ServeInit
    <2>1. pending # <<>> /\ pending' = Ask(Head(pending), "reread", <<>>)
      BY <1>12 DEF ServeInit
    <2>2. <<>> \in Seq(Text)  OBVIOUS
    <2> QED  BY <1>9, <1>12, <2>1, <2>2 DEF ServeInit, TypeOK, history
  <1>13. CASE ServeReread
    <2>1. pending # <<>>
      BY <1>13 DEF ServeReread
    <2>2. 1 \in 1..Len(pending) /\ pending[1].op = "reread"
      BY <1>13 DEF ServeReread, TypeOK, history
    <2>3. stored # NoList
      BY <2>2 DEF RereadFindsList
    <2> QED  BY <1>9, <1>10, <1>13, <2>1, <2>3 DEF ServeReread, TypeOK, history
  <1>14. CASE ServeWrite
    <2>1. /\ pending \in Seq(Request) /\ pending # <<>>
          /\ Head(pending) \in Request /\ pending' = Tail(pending)
      BY <1>14 DEF ServeWrite, TypeOK
    <2>2. /\ pending' \in Seq(Request) /\ Len(pending') = Len(pending) - 1
          /\ \A i \in 1..Len(pending') : pending'[i] = pending[i + 1]
      BY <2>1
    <2>3. stored' \in Seq(Text)
      BY <1>14, <2>1 DEF ServeWrite, Request
    <2>4. \A i \in 1..Len(pending') :
                /\ pending'[i].delegate \in 1..Len(queries)
                /\ pending'[i].save \in 1..saves
      BY <2>1, <2>2 DEF TypeOK
    <2>5. writer' \in 0..saves
      <3>1. Head(pending) = pending[1] /\ 1 \in 1..Len(pending)
        BY <2>1
      <3>2. Head(pending).save \in 1..saves /\ saves \in Nat
        BY <3>1, SearchAssumption DEF TypeOK
      <3> QED  BY <1>14, <3>2 DEF ServeWrite
    <2> QED  BY <1>14, <2>2, <2>3, <2>4, <2>5 DEF ServeWrite, TypeOK
  <1>15. CASE AppRestart
    BY <1>15 DEF AppRestart, TypeOK, history
  <1>16. CASE UNCHANGED vars
    BY <1>16 DEF vars, TypeOK
  <1> QED
    BY <1>1, <1>2, <1>3, <1>4, <1>5, <1>6, <1>7, <1>8, <1>11, <1>12, <1>13,
       <1>14, <1>15, <1>16 DEF Next, Serve

-----------------------------------------------------------------------------
(* The safety invariants.  Together with the types they are inductive: the  *)
(* cap needs only the lists that are about to be written, but "the empty    *)
(* list erases nothing" needs to know that no list can have been read, let  *)
(* alone written, before the first empty one was stored.                   *)
IInv ==
    /\ TypeOK
    /\ ListBounded
    /\ InitErasesNothing
    /\ RereadFindsList

(* A request joins the queue: only its own obligations are new.            *)
LEMMA SafeAppend ==
    ASSUME IInv, stored' = stored, NEW r,
           pending' = Append(pending, r), r.op = "read"
    PROVE  (ListBounded /\ InitErasesNothing /\ RereadFindsList)'
  <1>1. /\ Len(pending) \in Nat /\ Len(pending') = Len(pending) + 1
        /\ \A i \in 1..Len(pending) : pending'[i] = pending[i]
        /\ pending'[Len(pending) + 1].op = "read"
    BY DEF IInv, TypeOK
  <1>2. \A i \in 1..Len(pending') :
            pending'[i].op # "read" => i \in 1..Len(pending)
    BY <1>1
  <1>3. ListBounded'
    BY <1>1, <1>2 DEF IInv, ListBounded
  <1>4. InitErasesNothing'
    BY <1>1, <1>2 DEF IInv, InitErasesNothing
  <1>5. RereadFindsList'
    BY <1>1, <1>2 DEF IInv, RereadFindsList
  <1> QED  BY <1>3, <1>4, <1>5

(* The shape of the queue after the head was answered and its owner sent    *)
(* its next request.                                                       *)
LEMMA AskShape ==
    ASSUME TypeOK, pending # <<>>,
           NEW op \in {"read", "init", "reread", "write"},
           NEW value \in Seq(Text),
           pending' = Ask(Head(pending), op, value)
    PROVE  /\ Len(pending) \in Nat /\ Len(pending) > 0
           /\ Len(pending') = Len(pending)
           /\ \A i \in 1..(Len(pending) - 1) : pending'[i] = pending[i + 1]
           /\ pending'[Len(pending)].op = op
           /\ pending'[Len(pending)].value = value
  <1>1. Len(pending) \in Nat /\ Len(pending) > 0
    BY DEF TypeOK
  <1>2. /\ Len(pending') = Len(pending)
        /\ \A i \in 1..(Len(pending') - 1) : pending'[i] = pending[i + 1]
        /\ pending'[Len(pending')] =
                [op |-> op, save |-> Head(pending).save,
                 delegate |-> Head(pending).delegate, value |-> value]
    BY AskType
  <1> QED  BY <1>1, <1>2

(* The list an activation is about to write is within the cap.             *)
LEMMA NewListBounded ==
    ASSUME IInv, pending # <<>>, stored # NoList
    PROVE  LET v == AddSearch(stored, queries[Head(pending).delegate]) IN
           v \in Seq(Text) /\ Len(v) <= MaxItems
  <1>1. /\ Head(pending) = pending[1] /\ 1 \in 1..Len(pending)
        /\ pending \in Seq(Request)
    BY DEF IInv, TypeOK
  <1>2. Head(pending).delegate \in 1..Len(queries)
    BY <1>1 DEF IInv, TypeOK
  <1>3. queries[Head(pending).delegate] \in Text /\ stored \in Seq(Text)
    BY <1>2 DEF IInv, TypeOK
  <1>4. Len(stored) <= MaxItems
    BY DEF IInv, ListBounded
  <1> QED  BY <1>3, <1>4, AddSearchType

(* An answer with a list: the write goes to the end of the queue.          *)
LEMMA SafeAskWrite ==
    ASSUME IInv, pending # <<>>, stored # NoList, stored' = stored,
           NEW v \in Seq(Text), Len(v) <= MaxItems,
           pending' = Ask(Head(pending), "write", v)
    PROVE  (ListBounded /\ InitErasesNothing /\ RereadFindsList)'
  <1>1. /\ Len(pending) \in Nat /\ Len(pending) > 0
        /\ Len(pending') = Len(pending)
        /\ \A i \in 1..(Len(pending) - 1) : pending'[i] = pending[i + 1]
        /\ pending'[Len(pending)].op = "write"
        /\ pending'[Len(pending)].value = v
    BY AskShape DEF IInv
  <1>2. \A i \in 1..Len(pending') :
            \/ i = Len(pending)
            \/ i + 1 \in 1..Len(pending) /\ pending'[i] = pending[i + 1]
    BY <1>1
  <1>3. ListBounded'
    BY <1>1, <1>2 DEF IInv, ListBounded
  <1>4. InitErasesNothing'
    <2> SUFFICES ASSUME NEW i \in 1..Len(pending'), pending'[i].op = "init"
                 PROVE  /\ stored \in {NoList, <<>>}
                        /\ \A j \in 1..Len(pending') :
                                pending'[j].op = "write" => i < j
      BY DEF InitErasesNothing
    <2>1. i # Len(pending) /\ i + 1 \in 1..Len(pending)
          /\ pending[i + 1].op = "init"
      BY <1>1, <1>2
    <2>2. /\ stored \in {NoList, <<>>}
          /\ \A j \in 1..Len(pending) : pending[j].op = "write" => i + 1 < j
      BY <2>1 DEF IInv, InitErasesNothing
    <2>3. ASSUME NEW j \in 1..Len(pending'), pending'[j].op = "write"
          PROVE  i < j
      <3>1. i \in 1..Len(pending) /\ j \in 1..Len(pending)
        BY <1>1, <2>3
      <3>2. CASE j = Len(pending)
        BY <1>1, <2>1, <3>1, <3>2
      <3>3. CASE j + 1 \in 1..Len(pending) /\ pending'[j] = pending[j + 1]
        <4>1. i + 1 < j + 1  BY <2>2, <2>3, <3>3
        <4> QED  BY <3>1, <4>1
      <3> QED  BY <1>2, <2>3, <3>2, <3>3
    <2> QED  BY <2>2, <2>3
  <1>5. RereadFindsList'
    BY DEF RereadFindsList
  <1> QED  BY <1>3, <1>4, <1>5

(* Every step keeps the invariant of overlapping saves.                    *)
LEMMA SafeStep ==
    IInv /\ [Next]_vars => (ListBounded /\ InitErasesNothing /\ RereadFindsList)'
  <1> DEFINE Safe == ListBounded /\ InitErasesNothing /\ RereadFindsList
  <1> SUFFICES ASSUME IInv, [Next]_vars PROVE Safe'
    OBVIOUS
  <1>1. ASSUME BuildResults, stored' = stored PROVE Safe'
    BY <1>1, SafeAppend DEF BuildResults
  <1>2. ASSUME UNCHANGED <<stored, pending>> PROVE Safe'
    BY <1>2 DEF IInv, ListBounded, InitErasesNothing, RereadFindsList
  <1>3. CASE ServeRead
    <2>1. pending # <<>> /\ stored' = stored
      BY <1>3 DEF ServeRead
    <2>2. CASE stored = NoList
      <3>1. <<>> \in Seq(Text) /\ pending' = Ask(Head(pending), "init", <<>>)
        BY <1>3, <2>2 DEF ServeRead
      <3>2. /\ Len(pending) \in Nat /\ Len(pending) > 0
            /\ Len(pending') = Len(pending)
            /\ \A i \in 1..(Len(pending) - 1) : pending'[i] = pending[i + 1]
            /\ pending'[Len(pending)].op = "init"
        BY <2>1, <3>1, AskShape DEF IInv
      <3>3. \A i \in 1..Len(pending') :
                pending'[i].op \notin {"write", "reread"}
        BY <2>2, <3>2 DEF IInv, RereadFindsList
      <3> QED
        BY <2>1, <2>2, <3>3
           DEF ListBounded, InitErasesNothing, RereadFindsList
    <2>3. CASE stored # NoList
      BY <1>3, <2>1, <2>3, NewListBounded, SafeAskWrite DEF ServeRead
    <2> QED  BY <2>2, <2>3
  <1>4. CASE ServeInit
    <2>1. /\ pending # <<>> /\ <<>> \in Seq(Text) /\ stored' = <<>>
          /\ pending' = Ask(Head(pending), "reread", <<>>)
      BY <1>4 DEF ServeInit
    <2>2. /\ Len(pending) \in Nat /\ Len(pending) > 0
          /\ Len(pending') = Len(pending)
          /\ \A i \in 1..(Len(pending) - 1) : pending'[i] = pending[i + 1]
          /\ pending'[Len(pending)].op = "reread"
      BY <2>1, AskShape DEF IInv
    <2>3. \A i \in 1..Len(pending') : pending'[i].op # "reread" =>
                i + 1 \in 1..Len(pending) /\ pending'[i] = pending[i + 1]
      BY <2>2
    <2>4. stored' # NoList /\ Len(stored') <= MaxItems
      <3>1. stored' \in Seq(Text) /\ Len(stored') = 0
        BY <2>1
      <3>2. stored' # NoList
        BY <3>1, SearchAssumption
      <3>3. Len(stored') <= MaxItems
        BY <3>1, SearchAssumption
      <3> QED  BY <3>2, <3>3
    <2>5. ListBounded'
      BY <2>2, <2>3, <2>4 DEF IInv, ListBounded
    <2>6. InitErasesNothing'
      BY <2>1, <2>2, <2>3 DEF IInv, InitErasesNothing
    <2> QED  BY <2>4, <2>5, <2>6 DEF RereadFindsList
  <1>5. CASE ServeReread
    <2>1. /\ pending # <<>> /\ stored' = stored
          /\ pending' = Ask(Head(pending), "write",
                            AddSearch(stored, queries[Head(pending).delegate]))
      BY <1>5 DEF ServeReread
    <2>2. 1 \in 1..Len(pending) /\ pending[1].op = "reread"
      BY <1>5 DEF ServeReread, IInv, TypeOK
    <2>3. stored # NoList
      BY <2>2 DEF IInv, RereadFindsList
    <2> QED  BY <2>1, <2>3, NewListBounded, SafeAskWrite
  <1>6. CASE ServeWrite
    <2>1. /\ pending \in Seq(Request) /\ pending # <<>>
          /\ Head(pending) = pending[1] /\ pending[1] \in Request
          /\ pending[1].op = "write" /\ stored' = pending[1].value
          /\ Len(pending) \in Nat /\ 1 \in 1..Len(pending)
      BY <1>6 DEF ServeWrite, IInv, TypeOK
    <2>2. /\ Len(pending') = Len(pending) - 1
          /\ \A i \in 1..Len(pending') :
                i + 1 \in 1..Len(pending) /\ pending'[i] = pending[i + 1]
      BY <1>6, <2>1 DEF ServeWrite
    <2>3. stored' # NoList /\ Len(stored') <= MaxItems
      BY <2>1, SearchAssumption DEF IInv, ListBounded, Request
    <2>4. \A i \in 1..Len(pending) : pending[i].op # "init"
      BY <2>1 DEF IInv, InitErasesNothing
    <2>5. ListBounded'
      BY <2>2, <2>3 DEF IInv, ListBounded
    <2>6. InitErasesNothing'
      BY <2>2, <2>4 DEF InitErasesNothing
    <2> QED  BY <2>3, <2>5, <2>6 DEF RereadFindsList
  <1>7. CASE AppRestart
    BY <1>7 DEF AppRestart, IInv, ListBounded, InitErasesNothing,
                RereadFindsList
  <1>8. ASSUME \/ OpenSearch \/ FocusField \/ Close \/ UNCHANGED vars
               \/ \E q \in Text : TypeQuery(q)
        PROVE  Safe'
    BY <1>2, <1>8 DEF OpenSearch, FocusField, Close, vars, TypeQuery, history
  <1>9. ASSUME Submit \/ Rebuild \/ (\E t \in Terms : SuggestionTap(t))
        PROVE  Safe'
    BY <1>1, <1>9 DEF Submit, Rebuild, SuggestionTap
  <1>10. CASE Clear
    BY <1>1, <1>2, <1>10 DEF Clear
  <1> QED
    BY <1>3, <1>4, <1>5, <1>6, <1>7, <1>8, <1>9, <1>10 DEF Next, Serve

(* The invariant is inductive.                                             *)
LEMMA Inductive == Spec => []IInv
  <1>1. Init => IInv
    BY SearchAssumption DEF Init, IInv, TypeOK, ListBounded,
        InitErasesNothing, RereadFindsList
  <1>2. IInv /\ [Next]_vars => IInv'
    BY TypeStep, SafeStep DEF IInv
  <1> QED  BY <1>1, <1>2, PTL DEF Spec

(* Types are kept by every interleaving of saves, edits and restarts.      *)
THEOREM TypeCorrect == Spec => []TypeOK
  BY Inductive, PTL DEF IInv

(* The stored list is never longer than MaxItems, for every cap, although   *)
(* saveSearch() tests for the cap with ==.                                 *)
THEOREM CapHolds == Spec => []ListBounded
  BY Inductive, PTL DEF IInv

(* The empty list saveSearch() writes on a first use erases no search that  *)
(* an overlapping save has stored.                                         *)
THEOREM FirstUseIsSafe == Spec => []InitErasesNothing
  BY Inductive, PTL DEF IInv

(* stringOfItems! of saveSearch() never fails.                             *)
THEOREM SecondReadFindsList == Spec => []RereadFindsList
  BY Inductive, PTL DEF IInv

-----------------------------------------------------------------------------
(* A save that is alone.  `alone' says that the last save found the queue    *)
(* empty, so as long as it is true nothing else is in the queue.           *)
AloneInv ==
    /\ alone => Len(pending) <= 1
    /\ AloneLosesNothing

(* An answer with a list: the write puts one search in front of it.        *)
LEMMA AloneAskWrite ==
    ASSUME IInv, AloneInv, pending # <<>>, stored # NoList,
           UNCHANGED <<stored, alone>>,
           pending' = Ask(Head(pending), "write",
                          AddSearch(stored, queries[Head(pending).delegate]))
    PROVE  AloneInv'
  <1>1. PICK q \in Text : q = queries[Head(pending).delegate]
    <2>1. /\ Head(pending) = pending[1] /\ 1 \in 1..Len(pending)
          /\ pending \in Seq(Request)
      BY DEF IInv, TypeOK
    <2>2. Head(pending).delegate \in 1..Len(queries)
      BY <2>1 DEF IInv, TypeOK
    <2> QED  BY <2>2 DEF IInv, TypeOK
  <1>2. PICK v \in Seq(Text) : v = AddSearch(stored, q)
    BY <1>1, NewListBounded
  <1>3. /\ Len(pending) \in Nat /\ Len(pending) > 0
        /\ Len(pending') = Len(pending)
        /\ pending'[Len(pending)].value = v
    BY <1>1, <1>2, AskShape DEF IInv
  <1>4. alone' => Len(pending') <= 1
    BY <1>3 DEF AloneInv
  <1>5. ASSUME alone' PROVE Head(pending').value = v
    <2>a. Len(pending') <= 1
      BY <1>4, <1>5
    <2>b. \A n \in Nat : n > 0 /\ n <= 1 => n = 1
      OBVIOUS
    <2>1. Len(pending') = 1
      BY <1>3, <2>a, <2>b, Zenon
    <2>2. Head(pending') = pending'[1]
      OBVIOUS
    <2> QED  BY <1>3, <2>1, <2>2
  <1> QED  BY <1>1, <1>2, <1>4, <1>5 DEF AloneInv, AloneLosesNothing

(* The other steps do not come between its read and its write.             *)
LEMMA AloneStep == IInv /\ AloneInv /\ [Next]_vars => AloneInv'
  <1> SUFFICES ASSUME IInv, AloneInv, [Next]_vars PROVE AloneInv'
    OBVIOUS
  <1>a. /\ pending \in Seq(Request) /\ Len(pending) \in Nat
        /\ pending # <<>> => Len(pending) > 0
    BY DEF IInv, TypeOK
  <1>1. ASSUME BuildResults, stored' = stored PROVE AloneInv'
    <2>1. PICK r : r = [op |-> "read", save |-> saves + 1,
                        delegate |-> Len(queries), value |-> <<>>]
      OBVIOUS
    <2>2. pending' = Append(pending, r) /\ alone' = (pending = <<>>)
      BY <1>1, <2>1 DEF BuildResults
    <2>3. ASSUME pending = <<>>
          PROVE  Len(pending') = 1 /\ Head(pending').op = "read"
      <3>1. pending' = <<r>>
        BY <2>2, <2>3
      <3> QED  BY <2>1, <3>1
    <2>4. alone' => pending = <<>>
      BY <2>2
    <2>5. ASSUME alone' PROVE Len(pending') <= 1 /\ Head(pending').op # "write"
      <3>1. Len(pending') = 1 /\ Head(pending').op = "read"
        BY <2>3, <2>4, <2>5
      <3> QED  BY <3>1
    <2> QED  BY <2>5 DEF AloneInv, AloneLosesNothing
  <1>2. ASSUME UNCHANGED <<stored, pending, alone>> PROVE AloneInv'
    BY <1>2 DEF AloneInv, AloneLosesNothing
  <1>3. ASSUME pending # <<>>, NEW op \in {"init", "reread"},
               pending' = Ask(Head(pending), op, <<>>), alone' = alone
        PROVE  AloneInv'
    <2>1. <<>> \in Seq(Text)
      OBVIOUS
    <2>2. /\ Len(pending') = Len(pending) /\ pending'[Len(pending)].op = op
      BY <1>3, <2>1, AskShape DEF IInv
    <2>3. alone' => Len(pending') <= 1
      BY <1>3, <2>2 DEF AloneInv
    <2>4. ASSUME alone' PROVE Head(pending').op = op
      <3>a. Len(pending) <= 1 /\ Len(pending) > 0
        BY <1>a, <1>3, <2>2, <2>3, <2>4
      <3>1. Len(pending) = 1
        BY <1>a, <3>a
      <3> QED  BY <2>2, <3>1
    <2> QED  BY <1>3, <2>3, <2>4 DEF AloneInv, AloneLosesNothing
  <1>4. CASE ServeRead
    <2>1. CASE stored = NoList
      BY <1>3, <1>4, <2>1 DEF ServeRead
    <2>2. CASE stored # NoList
      BY <1>4, <2>2, AloneAskWrite DEF ServeRead
    <2> QED  BY <2>1, <2>2
  <1>5. CASE ServeInit
    BY <1>3, <1>5 DEF ServeInit, history
  <1>6. CASE ServeReread
    <2>1. 1 \in 1..Len(pending) /\ pending[1].op = "reread"
      BY <1>6 DEF ServeReread, IInv, TypeOK
    <2>2. stored # NoList
      BY <2>1 DEF IInv, RereadFindsList
    <2> QED  BY <1>6, <2>2, AloneAskWrite DEF ServeReread, history
  <1>7. CASE ServeWrite
    <2>1. /\ Len(pending') = Len(pending) - 1 /\ pending' \in Seq(Request)
          /\ pending # <<>> /\ alone' = alone
      BY <1>a, <1>7 DEF ServeWrite
    <2>2. alone' => Len(pending') = 0
      BY <1>a, <2>1 DEF AloneInv
    <2>3. Len(pending') = 0 => pending' = <<>>
      BY <2>1
    <2> QED  BY <2>2, <2>3 DEF AloneInv, AloneLosesNothing
  <1>8. CASE AppRestart
    BY <1>8 DEF AppRestart, history, AloneInv, AloneLosesNothing
  <1>9. ASSUME \/ OpenSearch \/ FocusField \/ Close \/ UNCHANGED vars
               \/ \E q \in Text : TypeQuery(q)
        PROVE  AloneInv'
    BY <1>2, <1>9 DEF OpenSearch, FocusField, Close, vars, TypeQuery, history
  <1>10. ASSUME Submit \/ Rebuild \/ (\E t \in Terms : SuggestionTap(t))
         PROVE  AloneInv'
    BY <1>1, <1>10 DEF Submit, Rebuild, SuggestionTap
  <1>11. CASE Clear
    BY <1>1, <1>2, <1>11 DEF Clear, history
  <1> QED
    BY <1>4, <1>5, <1>6, <1>7, <1>8, <1>9, <1>10, <1>11 DEF Next, Serve

(* A save that no other overlaps loses no search but the oldest of a full    *)
(* list: its read is still true when its write is served.                  *)
THEOREM AloneIsSafe == Spec => []AloneLosesNothing
  <1>1. Init => AloneInv
    BY DEF Init, AloneInv, AloneLosesNothing
  <1>2. IInv /\ AloneInv /\ [Next]_vars => AloneInv'
    BY AloneStep
  <1>3. AloneInv => AloneLosesNothing
    BY DEF AloneInv
  <1> QED  BY <1>1, <1>2, <1>3, Inductive, PTL DEF Spec

-----------------------------------------------------------------------------
(* Which save wrote the list.  Saves read in the order they began in; a save *)
(* that found a list began after every save that has written or went the     *)
(* longer way, and writes in the order of the reads.                       *)
Newer(n, w, fs) == w < n /\ \A f \in fs : f < n

OrderInv ==
    /\ \A i \in 1..Len(pending) :
        /\ pending[i].op = "read" => Newer(pending[i].save, writer, firsts)
        /\ pending[i].op \in {"init", "reread"} => pending[i].save \in firsts
        /\ pending[i].op = "write" =>
                pending[i].save \in firsts \/ Newer(pending[i].save, writer, firsts)
    /\ \A i, j \in 1..Len(pending) :
        pending[i].op # "read" /\ pending[j].op = "read" =>
            pending[i].save < pending[j].save
    /\ \A i, j \in 1..Len(pending) :
        i < j /\ pending[i].op = pending[j].op =>
            \/ pending[i].save < pending[j].save
            \/ pending[i].save \in firsts
            \/ pending[j].save \in firsts

(* The results are built: the read is the newest request of all.            *)
LEMMA OrderBuild ==
    ASSUME TypeOK, OrderInv, BuildResults
    PROVE  OrderInv'
  <1> DEFINE r == [op |-> "read", save |-> saves + 1,
                   delegate |-> Len(queries), value |-> <<>>]
  <1>1. /\ pending \in Seq(Request) /\ Len(pending) \in Nat /\ saves \in Nat
        /\ writer \in 0..saves /\ firsts \subseteq 1..saves
        /\ \A i \in 1..Len(pending) : pending[i].save \in 1..saves
    BY SearchAssumption DEF TypeOK
  <1>2. /\ pending' = Append(pending, r) /\ writer' = writer /\ firsts' = firsts
        /\ r.op = "read" /\ r.save = saves + 1
    BY DEF BuildResults
  <1> HIDE DEF r
  <1>3. /\ Len(pending') = Len(pending) + 1
        /\ \A i \in 1..Len(pending) : pending'[i] = pending[i]
        /\ pending'[Len(pending) + 1] = r
    BY <1>1, <1>2
  <1>4. Newer(r.save, writer, firsts)
    BY <1>1, <1>2 DEF Newer
  <1>6. \A i \in 1..Len(pending') :
            \/ i = Len(pending) + 1
            \/ i \in 1..Len(pending) /\ pending'[i] = pending[i]
    BY <1>1, <1>3
  <1>7. \A i \in 1..Len(pending) : pending[i].save < r.save
    BY <1>1, <1>2
  <1>8. \A i \in 1..Len(pending') :
        /\ pending'[i].op = "read" => Newer(pending'[i].save, writer, firsts)
        /\ pending'[i].op \in {"init", "reread"} => pending'[i].save \in firsts
        /\ pending'[i].op = "write" =>
                pending'[i].save \in firsts \/ Newer(pending'[i].save, writer, firsts)
    BY <1>2, <1>3, <1>4, <1>6 DEF OrderInv
  <1>9. \A i, j \in 1..Len(pending') :
        pending'[i].op # "read" /\ pending'[j].op = "read" =>
            pending'[i].save < pending'[j].save
    BY <1>2, <1>3, <1>6, <1>7 DEF OrderInv
  <1>10. \A i, j \in 1..Len(pending') :
        i < j /\ pending'[i].op = pending'[j].op =>
            \/ pending'[i].save < pending'[j].save
            \/ pending'[i].save \in firsts
            \/ pending'[j].save \in firsts
    <2> SUFFICES ASSUME NEW i \in 1..Len(pending'), NEW j \in 1..Len(pending'),
                        i < j, pending'[i].op = pending'[j].op
                 PROVE  \/ pending'[i].save < pending'[j].save
                        \/ pending'[i].save \in firsts
                        \/ pending'[j].save \in firsts
      OBVIOUS
    <2>1. i \in 1..Len(pending) /\ pending'[i] = pending[i]
      BY <1>1, <1>3
    <2>2. CASE j = Len(pending) + 1
      BY <1>3, <1>7, <2>1, <2>2
    <2>3. CASE j \in 1..Len(pending) /\ pending'[j] = pending[j]
      BY <2>1, <2>3 DEF OrderInv
    <2> QED  BY <1>6, <2>2, <2>3
  <1> QED  BY <1>2, <1>8, <1>9, <1>10 DEF OrderInv

(* The head is answered and its save goes on with another request, not a      *)
(* read: a new request of a save that found no list, or the write of one     *)
(* that found a list and is newer than all that do not wait to read.        *)
LEMMA OrderAsk ==
    ASSUME TypeOK, OrderInv, pending # <<>>,
           NEW op \in {"init", "reread", "write"}, NEW v \in Seq(Text),
           pending' = Ask(Head(pending), op, v), writer' = writer,
           firsts' \subseteq firsts \cup {Head(pending).save},
           firsts \subseteq firsts',
           \/ Head(pending).save \in firsts'
           \/ op = "write" /\ Head(pending).op = "read",
           \/ firsts' = firsts
           \/ /\ Head(pending).op = "read"
              /\ \A i \in 1..Len(pending) : pending[i].op # "write"
    PROVE  OrderInv'
  <1> DEFINE h == Head(pending)
             n == Len(pending)
  <1>1. /\ pending \in Seq(Request) /\ n \in Nat /\ n > 0
        /\ h = pending[1] /\ 1 \in 1..n /\ saves \in Nat
        /\ writer \in 0..saves /\ firsts \subseteq 1..saves
        /\ \A i \in 1..n : pending[i].save \in 1..saves
    BY SearchAssumption DEF TypeOK
  <1>2. /\ Len(pending') = n
        /\ \A i \in 1..(n - 1) : pending'[i] = pending[i + 1]
        /\ pending'[n].op = op /\ pending'[n].save = h.save
    <2>1. op \in {"read", "init", "reread", "write"}
      OBVIOUS
    <2>2. /\ Len(pending') = n
          /\ \A i \in 1..(Len(pending') - 1) : pending'[i] = pending[i + 1]
          /\ pending'[Len(pending')] =
                [op |-> op, save |-> h.save, delegate |-> h.delegate,
                 value |-> v]
      BY <2>1, AskType
    <2> QED  BY <2>2
  <1>3. \A i \in 1..Len(pending') :
            \/ i = n
            \/ i + 1 \in 1..n /\ i + 1 > 1 /\ pending'[i] = pending[i + 1]
    BY <1>1, <1>2
  <1>4. ASSUME NEW k \in 1..n, k > 1, pending[k].op = "read"
        PROVE  h.save < pending[k].save
    <2>1. CASE h.op = "read"
      <3>1. Newer(pending[k].save, writer, firsts)
        BY <1>4 DEF OrderInv
      <3>2. \/ h.save < pending[k].save
            \/ h.save \in firsts \/ pending[k].save \in firsts
        BY <1>1, <1>4, <2>1 DEF OrderInv
      <3> QED  BY <1>1, <3>1, <3>2 DEF Newer
    <2>2. CASE h.op # "read"
      BY <1>1, <1>4, <2>2 DEF OrderInv
    <2> QED  BY <2>1, <2>2
  <1>5. ASSUME NEW k \in 1..n, k > 1, pending[k].op # "read", op = "write",
               h.save \notin firsts'
        PROVE  pending[k].save < h.save
    BY <1>1, <1>5 DEF OrderInv
  <1>6. ASSUME NEW k \in 1..n, k > 1
        PROVE  /\ pending[k].op = "read" => Newer(pending[k].save, writer', firsts')
               /\ pending[k].op \in {"init", "reread"} => pending[k].save \in firsts'
               /\ pending[k].op = "write" =>
                    pending[k].save \in firsts' \/ Newer(pending[k].save, writer', firsts')
    <2>1. CASE firsts' = firsts
      BY <1>6, <2>1 DEF OrderInv
    <2>2. CASE firsts' # firsts
      BY <1>4, <1>6, <2>2 DEF OrderInv, Newer
    <2> QED  BY <2>1, <2>2
  <1>7. ASSUME h.save \notin firsts'
        PROVE  Newer(h.save, writer', firsts')
    <2>1. firsts' = firsts /\ h.op = "read"
      BY <1>7
    <2> QED  BY <1>1, <2>1 DEF OrderInv
  <1>8. \A i \in 1..Len(pending') :
        /\ pending'[i].op = "read" => Newer(pending'[i].save, writer', firsts')
        /\ pending'[i].op \in {"init", "reread"} => pending'[i].save \in firsts'
        /\ pending'[i].op = "write" =>
                \/ pending'[i].save \in firsts'
                \/ Newer(pending'[i].save, writer', firsts')
    <2> SUFFICES ASSUME NEW i \in 1..Len(pending')
                 PROVE  /\ pending'[i].op = "read" =>
                                Newer(pending'[i].save, writer', firsts')
                        /\ pending'[i].op \in {"init", "reread"} =>
                                pending'[i].save \in firsts'
                        /\ pending'[i].op = "write" =>
                                \/ pending'[i].save \in firsts'
                                \/ Newer(pending'[i].save, writer', firsts')
      OBVIOUS
    <2>1. CASE i = n
      BY <1>2, <1>7, <2>1
    <2>2. CASE i + 1 \in 1..n /\ i + 1 > 1 /\ pending'[i] = pending[i + 1]
      BY <1>6, <2>2
    <2> QED  BY <1>3, <2>1, <2>2
  <1>9. ASSUME NEW i \in 1..Len(pending'), NEW j \in 1..Len(pending'),
               pending'[i].op # "read", pending'[j].op = "read"
        PROVE  pending'[i].save < pending'[j].save
    <2>1. j + 1 \in 1..n /\ j + 1 > 1 /\ pending'[j] = pending[j + 1]
      BY <1>2, <1>3, <1>9
    <2>2. CASE i = n
      BY <1>2, <1>4, <1>9, <2>1, <2>2
    <2>3. CASE i + 1 \in 1..n /\ pending'[i] = pending[i + 1]
      BY <1>9, <2>1, <2>3 DEF OrderInv
    <2> QED  BY <1>3, <2>2, <2>3
  <1>10. ASSUME NEW i \in 1..Len(pending'), NEW j \in 1..Len(pending'),
                i < j, pending'[i].op = pending'[j].op
         PROVE  \/ pending'[i].save < pending'[j].save
                \/ pending'[i].save \in firsts'
                \/ pending'[j].save \in firsts'
    <2>1. i \in 1..n /\ j \in 1..n /\ i # n
      BY <1>1, <1>2, <1>10
    <2>2. i + 1 \in 1..n /\ i + 1 > 1 /\ pending'[i] = pending[i + 1]
      BY <1>2, <1>3, <2>1
    <2>3. CASE j = n
      <3>1. pending[i + 1].op = op /\ pending'[j].save = h.save
        BY <1>2, <1>10, <2>2, <2>3
      <3>2. CASE h.save \in firsts'
        BY <3>1, <3>2
      <3>3. CASE h.save \notin firsts'
        <4>1. op = "write" /\ pending[i + 1].op # "read"
          BY <3>1, <3>3
        <4> QED  BY <1>5, <2>2, <3>1, <3>3, <4>1
      <3> QED  BY <3>2, <3>3
    <2>4. CASE j + 1 \in 1..n /\ pending'[j] = pending[j + 1]
      <3>1. i + 1 < j + 1 /\ pending[i + 1].op = pending[j + 1].op
        BY <1>10, <2>1, <2>2, <2>4
      <3>2. \/ pending[i + 1].save < pending[j + 1].save
            \/ pending[i + 1].save \in firsts
            \/ pending[j + 1].save \in firsts
        BY <2>2, <2>4, <3>1 DEF OrderInv
      <3> QED  BY <2>2, <2>4, <3>2
    <2> QED  BY <1>3, <2>3, <2>4
  <1> QED  BY <1>8, <1>9, <1>10 DEF OrderInv

(* A list is written: every request still waiting is of a later save or of    *)
(* one that found no list.                                                 *)
LEMMA OrderWrite ==
    ASSUME TypeOK, OrderInv, ServeWrite
    PROVE  OrderInv'
  <1> DEFINE h == Head(pending)
             n == Len(pending)
  <1>1. /\ pending \in Seq(Request) /\ n \in Nat /\ n > 0
        /\ h = pending[1] /\ 1 \in 1..n /\ h.op = "write"
        /\ pending' = Tail(pending) /\ writer' = h.save /\ firsts' = firsts
        /\ saves \in Nat /\ firsts \subseteq 1..saves
        /\ \A i \in 1..n : pending[i].save \in 1..saves
    BY SearchAssumption DEF TypeOK, ServeWrite
  <1>2. /\ Len(pending') = n - 1
        /\ \A i \in 1..Len(pending') :
                /\ i + 1 \in 1..n /\ i + 1 > 1 /\ pending'[i] = pending[i + 1]
    BY <1>1
  <1>3. ASSUME NEW k \in 1..n, k > 1, pending[k].op \in {"read", "write"},
               pending[k].save \notin firsts
        PROVE  Newer(pending[k].save, h.save, firsts)
    <2>1. Newer(pending[k].save, writer, firsts)
      BY <1>3 DEF OrderInv
    <2>2. CASE pending[k].op = "read"
      BY <1>1, <1>3, <2>1, <2>2 DEF OrderInv, Newer
    <2>3. CASE pending[k].op = "write"
      <3>1. \/ h.save < pending[k].save \/ h.save \in firsts
        BY <1>1, <1>3, <2>3 DEF OrderInv
      <3> QED  BY <2>1, <3>1 DEF Newer
    <2> QED  BY <1>3, <2>2, <2>3
  <1>4. \A i \in 1..n : pending[i].op = "read" => pending[i].save \notin firsts
    BY <1>1 DEF OrderInv, Newer
  <1>5. ASSUME NEW i \in 1..Len(pending')
        PROVE  /\ pending'[i].op = "read" => Newer(pending'[i].save, h.save, firsts)
               /\ pending'[i].op \in {"init", "reread"} => pending'[i].save \in firsts
               /\ pending'[i].op = "write" =>
                    \/ pending'[i].save \in firsts
                    \/ Newer(pending'[i].save, h.save, firsts)
    <2>1. i + 1 \in 1..n /\ i + 1 > 1 /\ pending'[i] = pending[i + 1]
      BY <1>2
    <2> QED  BY <1>3, <1>4, <2>1 DEF OrderInv
  <1>6. ASSUME NEW i \in 1..Len(pending'), NEW j \in 1..Len(pending')
        PROVE  /\ pending'[i].op # "read" /\ pending'[j].op = "read" =>
                    pending'[i].save < pending'[j].save
               /\ i < j /\ pending'[i].op = pending'[j].op =>
                    \/ pending'[i].save < pending'[j].save
                    \/ pending'[i].save \in firsts
                    \/ pending'[j].save \in firsts
    <2>1. /\ i + 1 \in 1..n /\ pending'[i] = pending[i + 1]
          /\ j + 1 \in 1..n /\ pending'[j] = pending[j + 1]
          /\ i < j => i + 1 < j + 1
      BY <1>1, <1>2
    <2> QED  BY <2>1 DEF OrderInv
  <1> QED  BY <1>1, <1>5, <1>6 DEF OrderInv

(* Every step keeps the order of the saves.                                *)
LEMMA OrderStep == IInv /\ OrderInv /\ [Next]_vars => OrderInv'
  <1> SUFFICES ASSUME IInv, OrderInv, [Next]_vars PROVE OrderInv'
    OBVIOUS
  <1>a. /\ TypeOK /\ <<>> \in Seq(Text)
        /\ pending # <<>> => Head(pending) = pending[1] /\ 1 \in 1..Len(pending)
    BY DEF IInv, TypeOK
  <1>1. ASSUME UNCHANGED <<pending, writer, firsts>> PROVE OrderInv'
    BY <1>1 DEF OrderInv
  <1>2. CASE ServeRead
    <2>1. CASE stored = NoList
      <3>1. \A i \in 1..Len(pending) : pending[i].op # "write"
        BY <2>1 DEF IInv, RereadFindsList
      <3>2. /\ pending # <<>> /\ Head(pending).op = "read" /\ writer' = writer
            /\ pending' = Ask(Head(pending), "init", <<>>)
            /\ firsts' = firsts \cup {Head(pending).save}
        BY <1>2, <2>1 DEF ServeRead
      <3> QED  BY <1>a, <3>1, <3>2, OrderAsk
    <2>2. CASE stored # NoList
      <3>1. /\ pending # <<>> /\ Head(pending).op = "read" /\ writer' = writer
            /\ pending' = Ask(Head(pending), "write",
                              AddSearch(stored, queries[Head(pending).delegate]))
            /\ firsts' = firsts
        BY <1>2, <2>2 DEF ServeRead
      <3>2. PICK v \in Seq(Text) :
                v = AddSearch(stored, queries[Head(pending).delegate])
        BY <2>2, <3>1, NewListBounded
      <3>3. pending' = Ask(Head(pending), "write", v)
        BY <3>1, <3>2
      <3> QED  BY <1>a, <3>1, <3>3, OrderAsk
    <2> QED  BY <2>1, <2>2
  <1>3. CASE ServeInit
    <2>1. /\ pending # <<>> /\ Head(pending).op = "init" /\ writer' = writer
          /\ pending' = Ask(Head(pending), "reread", <<>>) /\ firsts' = firsts
      BY <1>3 DEF ServeInit, history
    <2>2. Head(pending).save \in firsts
      BY <1>a, <2>1 DEF OrderInv
    <2> QED  BY <1>a, <2>1, <2>2, OrderAsk
  <1>4. CASE ServeReread
    <2>1. /\ pending # <<>> /\ Head(pending).op = "reread" /\ writer' = writer
          /\ pending' = Ask(Head(pending), "write",
                            AddSearch(stored, queries[Head(pending).delegate]))
          /\ firsts' = firsts
      BY <1>4 DEF ServeReread, history
    <2>2. Head(pending).save \in firsts /\ stored # NoList
      BY <1>a, <2>1 DEF OrderInv, IInv, RereadFindsList
    <2>3. PICK v \in Seq(Text) :
                v = AddSearch(stored, queries[Head(pending).delegate])
      BY <2>1, <2>2, NewListBounded
    <2>4. pending' = Ask(Head(pending), "write", v)
      BY <2>1, <2>3
    <2> QED  BY <1>a, <2>1, <2>2, <2>4, OrderAsk
  <1>5. CASE ServeWrite
    BY <1>a, <1>5, OrderWrite
  <1>6. CASE AppRestart
    BY <1>6 DEF AppRestart, history, OrderInv
  <1>7. ASSUME \/ OpenSearch \/ FocusField \/ Close \/ UNCHANGED vars
               \/ \E q \in Text : TypeQuery(q)
        PROVE  OrderInv'
    BY <1>1, <1>7 DEF OpenSearch, FocusField, Close, vars, TypeQuery, history
  <1>8. ASSUME Submit \/ Rebuild \/ (\E t \in Terms : SuggestionTap(t))
        PROVE  OrderInv'
    BY <1>a, <1>8, OrderBuild DEF Submit, Rebuild, SuggestionTap
  <1>9. CASE Clear
    BY <1>a, <1>1, <1>9, OrderBuild DEF Clear, history
  <1> QED
    BY <1>2, <1>3, <1>4, <1>5, <1>6, <1>7, <1>8, <1>9 DEF Next, Serve

(* However many saves overlap, none replaces the list of a later one by its   *)
(* own older one, unless it found no list and had to write an empty one.    *)
THEOREM SavesKeepOrder == Spec => []LaterSaveWins
  <1>1. Init => OrderInv
    BY DEF Init, OrderInv
  <1>2. IInv /\ OrderInv /\ [Next]_vars => OrderInv'
    BY OrderStep
  <1>3. IInv /\ OrderInv => LaterSaveWins
    <2> SUFFICES ASSUME IInv, OrderInv, NEW i \in 1..Len(pending)
                 PROVE  pending[i].save > writer \/ pending[i].save \in firsts
      BY DEF LaterSaveWins
    <2>1. pending[i] \in Request /\ writer \in Nat
      BY SearchAssumption DEF IInv, TypeOK
    <2>2. /\ pending[i].op \in {"read", "init", "reread", "write"}
          /\ pending[i].save \in Nat
      BY <2>1 DEF Request
    <2> QED  BY <2>1, <2>2 DEF OrderInv, Newer
  <1> QED  BY <1>1, <1>2, <1>3, Inductive, PTL DEF Spec
=============================================================================
