---------------------------- MODULE SearchHistory ----------------------------
(***************************************************************************)
(* The search page's delegate (class Searching, lib/pages/home/            *)
(* search_page.dart) and the list of latest searches that saveSearch()     *)
(* keeps in FlutterSecureStorage under the key 'searchingList'.            *)
(*                                                                         *)
(* saveSearch() is started by every build of the results and awaited by    *)
(* nobody, so several activations may run at once.  Each one reads the     *)
(* list, writes an empty one and reads again if there was none, puts the   *)
(* delegate's query in front and writes the list back.  An activation has  *)
(* one request at a time at the storage plugin, which serves requests in   *)
(* the order they arrive; `pending' is that queue.  A request is served    *)
(* and its answer handled in one step: until the answer is handled the     *)
(* activation does nothing, and later requests are answered after it.      *)
(***************************************************************************)
EXTENDS Naturals, Sequences

CONSTANTS
    Terms,          \* the non-empty texts that are typed or suggested
    Empty,          \* the empty text
    NoList,         \* nothing stored under the key
    MaxItems,       \* the length at which the list is full: 6 in the code
    MaxSaves,       \* bound: how often the results are built
    MaxDelegates    \* bound: how often the search is opened

Text == Terms \cup {Empty}

ASSUME SearchAssumption ==
    /\ Empty \notin Terms
    /\ NoList \notin Seq(Text)
    /\ MaxItems \in Nat \ {0}
    /\ MaxSaves \in Nat
    /\ MaxDelegates \in Nat

VARIABLES
    stored,         \* the value of 'searchingList'
    pending,        \* requests at the storage plugin, oldest first
    body,           \* what the search route shows
    queries,        \* queries[d]: the text field of the d-th delegate
    saves,          \* how often saveSearch() was started
    alone,          \* history: no save overlapped the ones pending
    writer,         \* history: the save that wrote the stored list, 0 if none
    firsts          \* history: the saves that found no list

history == <<alone, writer, firsts>>
vars == <<stored, pending, body, queries, saves, alone, writer, firsts>>

Request == [op : {"read", "init", "reread", "write"},
            save : Nat, delegate : Nat, value : Seq(Text)]

Init ==
    /\ stored = NoList
    /\ pending = <<>>
    /\ body = "closed"
    /\ queries = <<>>
    /\ saves = 0
    /\ alone = TRUE
    /\ writer = 0
    /\ firsts = {}

-----------------------------------------------------------------------------
(* buildResults(): saveSearch() sends its first read.                      *)
BuildResults ==
    /\ saves < MaxSaves
    /\ saves' = saves + 1
    /\ pending' = Append(pending,
            [op |-> "read", save |-> saves + 1, delegate |-> Len(queries),
             value |-> <<>>])
    /\ alone' = (pending = <<>>)
    /\ UNCHANGED <<writer, firsts>>

(* The text field of the open delegate changes to q.                       *)
SetQuery(q) == queries' = [queries EXCEPT ![Len(queries)] = q]

query == queries[Len(queries)]

(* Mutant: the route is pushed before its delegate is set up.              *)
OpenWithoutDelegate ==
    /\ body = "closed"
    /\ body' = "suggestions"
    /\ UNCHANGED <<stored, pending, queries, saves, history>>

(* showSearch(): a new delegate with an empty text field.                  *)
OpenSearch ==
    /\ body = "closed"
    /\ Len(queries) < MaxDelegates
    /\ body' = "suggestions"
    /\ queries' = Append(queries, Empty)
    /\ UNCHANGED <<stored, pending, saves, history>>

(* The user types; only suggestions are rebuilt.                           *)
TypeQuery(q) ==
    /\ body = "suggestions"
    /\ query # q
    /\ SetQuery(q)
    /\ UNCHANGED <<stored, pending, body, saves, history>>

(* The keyboard's search key: showResults().                               *)
Submit ==
    /\ body = "suggestions"
    /\ body' = "results"
    /\ BuildResults
    /\ UNCHANGED <<stored, queries>>

(* A tap on a suggested title: showResults(), then query = title, then one  *)
(* build of both.                                                          *)
SuggestionTap(t) ==
    /\ body = "suggestions"
    /\ query # Empty
    /\ body' = "results"
    /\ SetQuery(t)
    /\ BuildResults
    /\ UNCHANGED stored

(* The text field gets the focus: back to the suggestions.                 *)
FocusField ==
    /\ body = "results"
    /\ body' = "suggestions"
    /\ UNCHANGED <<stored, pending, queries, saves, history>>

(* The clear button.  With the results on screen they are built again, for  *)
(* the empty text.                                                         *)
Clear ==
    /\ body # "closed"
    /\ query # Empty
    /\ SetQuery(Empty)
    /\ \/ body = "results" /\ BuildResults
       \/ body # "results" /\ UNCHANGED <<pending, saves, history>>
    /\ UNCHANGED <<stored, body>>

(* The framework builds the results again (rotation, keyboard, metrics).   *)
Rebuild ==
    /\ body = "results"
    /\ BuildResults
    /\ UNCHANGED <<stored, body, queries>>

(* close(): the delegate goes, its saves go on.                            *)
Close ==
    /\ body # "closed"
    /\ body' = "closed"
    /\ UNCHANGED <<stored, pending, queries, saves, history>>

-----------------------------------------------------------------------------
(* Mutant: insert(0, query) without removeLast().                          *)
AddUncapped(list, q) == <<q>> \o list

(* The list with q in front; the last item makes room when it is full.     *)
AddSearch(list, q) ==
    <<q>> \o IF Len(list) = MaxItems THEN SubSeq(list, 1, MaxItems - 1)
                                     ELSE list

(* The activation that request r belongs to sends its next request.        *)
Ask(r, op, value) ==
    Append(Tail(pending), [op |-> op, save |-> r.save,
                           delegate |-> r.delegate, value |-> value])

(* Mutant: a list that was found is not kept.                              *)
ReadForgets ==
    LET r == Head(pending) IN
    /\ pending # <<>>
    /\ r.op = "read"
    /\ \/ /\ stored = NoList
          /\ pending' = Ask(r, "init", <<>>)
          /\ firsts' = firsts \cup {r.save}
       \/ /\ stored # NoList
          /\ pending' = Ask(r, "write", AddSearch(<<>>, queries[r.delegate]))
          /\ UNCHANGED firsts
    /\ UNCHANGED <<stored, body, queries, saves, alone, writer>>

(* The answer to the first read.  Without a list, an empty one is written   *)
(* first.  The query is the delegate's query now.                          *)
ServeRead ==
    LET r == Head(pending) IN
    /\ pending # <<>>
    /\ r.op = "read"
    /\ \/ /\ stored = NoList
          /\ pending' = Ask(r, "init", <<>>)
          /\ firsts' = firsts \cup {r.save}
       \/ /\ stored # NoList
          /\ pending' = Ask(r, "write", AddSearch(stored, queries[r.delegate]))
          /\ UNCHANGED firsts
    /\ UNCHANGED <<stored, body, queries, saves, alone, writer>>

(* Mutant: the list is not read again, the new one is written at once.     *)
InitThenWrite ==
    LET r == Head(pending) IN
    /\ pending # <<>>
    /\ r.op = "init"
    /\ stored' = <<queries[r.delegate]>>
    /\ pending' = Tail(pending)
    /\ UNCHANGED <<body, queries, saves, history>>

(* Mutant: the write of the empty list has no effect.                      *)
InitWithoutEffect ==
    LET r == Head(pending) IN
    /\ pending # <<>>
    /\ r.op = "init"
    /\ pending' = Ask(r, "reread", <<>>)
    /\ UNCHANGED <<stored, body, queries, saves, history>>

(* write('searchingList', "[]") is done.                                   *)
ServeInit ==
    LET r == Head(pending) IN
    /\ pending # <<>>
    /\ r.op = "init"
    /\ stored' = <<>>
    /\ pending' = Ask(r, "reread", <<>>)
    /\ UNCHANGED <<body, queries, saves, history>>

(* The answer to the second read.                                          *)
ServeReread ==
    LET r == Head(pending) IN
    /\ pending # <<>>
    /\ r.op = "reread"
    /\ pending' = Ask(r, "write", AddSearch(stored, queries[r.delegate]))
    /\ UNCHANGED <<stored, body, queries, saves, history>>

(* Mutant: the write fails silently and is tried for ever.                 *)
RetryWrite ==
    LET r == Head(pending) IN
    /\ pending # <<>>
    /\ r.op = "write"
    /\ pending' = Append(Tail(pending), r)
    /\ UNCHANGED <<stored, body, queries, saves, history>>

(* Mutant: a write that fails is tried again, behind the other requests.   *)
WriteOrRetry ==
    LET r == Head(pending) IN
    /\ pending # <<>>
    /\ r.op = "write"
    /\ \/ /\ stored' = r.value
          /\ pending' = Tail(pending)
          /\ writer' = r.save
       \/ /\ pending' = Append(Tail(pending), r)
          /\ UNCHANGED <<stored, writer>>
    /\ UNCHANGED <<body, queries, saves, alone, firsts>>

(* The list is written; the activation ends.                               *)
ServeWrite ==
    LET r == Head(pending) IN
    /\ pending # <<>>
    /\ r.op = "write"
    /\ stored' = r.value
    /\ pending' = Tail(pending)
    /\ writer' = r.save
    /\ UNCHANGED <<body, queries, saves, alone, firsts>>

Serve == ServeRead \/ ServeInit \/ ServeReread \/ ServeWrite

(* The app is killed and started again; requests not served are gone.      *)
AppRestart ==
    /\ pending' = <<>>
    /\ body' = "closed"
    /\ UNCHANGED <<stored, queries, saves, history>>

Next ==
    \/ OpenSearch
    \/ \E q \in Text : TypeQuery(q)
    \/ Submit
    \/ \E t \in Terms : SuggestionTap(t)
    \/ FocusField
    \/ Clear
    \/ Rebuild
    \/ Close
    \/ Serve
    \/ AppRestart

Spec == Init /\ [][Next]_vars

(* The storage plugin answers every request.                               *)
FairSpec == Spec /\ WF_vars(Serve)

-----------------------------------------------------------------------------
(* Type invariant; every pending request belongs to a delegate that        *)
(* saveSearch() was called on, whose query it will read.                   *)
TypeOK ==
    /\ stored \in Seq(Text) \cup {NoList}
    /\ pending \in Seq(Request)
    /\ body \in {"closed", "suggestions", "results"}
    /\ queries \in Seq(Text)
    /\ Len(queries) <= MaxDelegates
    /\ body # "closed" => queries # <<>>
    /\ saves \in 0..MaxSaves
    /\ \A i \in 1..Len(pending) :
            /\ pending[i].delegate \in 1..Len(queries)
            /\ pending[i].save \in 1..saves
    /\ alone \in BOOLEAN
    /\ writer \in 0..saves
    /\ firsts \subseteq 1..saves

(* The list never grows past MaxItems, although saveSearch() tests for that *)
(* length with == and overlapping saves write lists read at other times.   *)
ListBounded ==
    /\ stored # NoList => Len(stored) <= MaxItems
    /\ \A i \in 1..Len(pending) :
            pending[i].op = "write" => Len(pending[i].value) <= MaxItems

(* The write of the empty list, decided on an earlier read, never erases a  *)
(* list with searches in it: when it is pending, nothing else was saved and *)
(* no write of a list will be served before it.                            *)
InitErasesNothing ==
    \A i \in 1..Len(pending) : pending[i].op = "init" =>
        /\ stored \in {NoList, <<>>}
        /\ \A j \in 1..Len(pending) : pending[j].op = "write" => i < j

(* The second read always finds a list: stringOfItems! never throws.       *)
RereadFindsList ==
    \A i \in 1..Len(pending) :
        pending[i].op \in {"reread", "write"} => stored # NoList

(* A save that no other overlaps adds one search to the list as it is when  *)
(* written, and loses none but the oldest of a full list.                  *)
AloneLosesNothing ==
    pending # <<>> /\ alone /\ Head(pending).op = "write" =>
        \E q \in Text : Head(pending).value = AddSearch(stored, q)

(* A save never puts its list in the place of one that a later save wrote:  *)
(* both take one read and one write, and are served in order.  Only a save  *)
(* that found no list, and so has two requests more, can be overtaken; its  *)
(* list then replaces the later one.                                       *)
LaterSaveWins ==
    \A i \in 1..Len(pending) :
        pending[i].save > writer \/ pending[i].save \in firsts

(* Save n waits for an answer.                                             *)
Saving(n) == \E i \in 1..Len(pending) : pending[i].save = n

(* Every activation of saveSearch() comes to its end, however many others   *)
(* are started meanwhile.                                                  *)
SavesEnd == \A n \in 1..MaxSaves : Saving(n) ~> ~Saving(n)
=============================================================================
