------------------------------ MODULE LiveList ------------------------------
(***************************************************************************)
(* The dashboard's list of the latest messages (latest-messages.tsx): one  *)
(* first page, then an event stream whose events name messages that are    *)
(* fetched one by one; with SseService and EventsController, which hand an *)
(* event to the streams that are open and keep nothing.                    *)
(*                                                                         *)
(* A message is its rank in the order of publication.  Messages may be     *)
(* saved, announced and fetched in any order.  first.pc is "failed" while  *)
(* the component's error is set, which nothing resets.                     *)
(***************************************************************************)
EXTENDS Naturals, Sequences, SequencesExt, FiniteSetsExt

CONSTANTS
  LastMessage,  \* the messages are 1 .. LastMessage
  MaxItems      \* MAX_ITEMS, also the size of the first page

ASSUME LiveListAssumption == LastMessage \in Nat /\ MaxItems \in Nat \ {0}

VARIABLES
  saved,      \* the messages in the table
  announced,  \* those whose message.created was emitted
  stream,     \* the EventSource: "open", "closed" or "refused"
  events,     \* the events on their way to the page, in order
  fetching,   \* the messages that are being fetched
  first,      \* the request for the first page, and what it was answered
  list,       \* the state "messages" of the component
  received,   \* history: the messages whose fetch succeeded
  early       \* history: those received before the first page arrived

liveVars ==
  <<saved, announced, stream, events, fetching, first, list, received, early>>

----------------------------------------------------------------------------
Messages == 1 .. LastMessage

FirstPages == [pc : {"sent", "served", "done", "failed"}, read : SUBSET Messages]

LiveInit ==
  /\ saved = {} /\ announced = {}
  /\ stream = "closed" /\ events = <<>>
  /\ fetching = {}
  /\ first = [pc |-> "sent", read |-> {}]
  /\ list = <<>> /\ received = {} /\ early = {}

\* The component is mounted when these messages are in the table.
LiveMount(messages) ==
  /\ saved' = messages /\ announced' = messages
  /\ stream' = "closed" /\ events' = <<>>
  /\ fetching' = {}
  /\ first' = [pc |-> "sent", read |-> {}]
  /\ list' = <<>> /\ received' = {} /\ early' = {}

Take(s, n) == SubSeq(s, 1, IF Len(s) < n THEN Len(s) ELSE n)

\* MessageService.list for page 1: the newest messages, newest first.
Newer(m, messages) == {n \in messages : n > m}

NewestFirst(messages) ==
  [i \in 1 .. Cardinality(messages) |->
     CHOOSE m \in messages : Cardinality(Newer(m, messages)) = i - 1]

FirstPage(messages) == Take(NewestFirst(messages), MaxItems)

\* MessageService.create saves a message and then emits message.created.
SaveMessage ==
  /\ \E m \in Messages \ saved : saved' = saved \cup {m}
  /\ UNCHANGED <<announced, stream, events, fetching, first, list, received, early>>

Announce ==
  /\ \E m \in saved \ announced :
       /\ announced' = announced \cup {m}
       /\ events' = IF stream = "open" THEN Append(events, m) ELSE events
  /\ UNCHANGED <<saved, stream, fetching, first, list, received, early>>

\* The EventSource connects, and again by itself when the connection broke.
StreamOpens ==
  /\ stream = "closed"
  /\ stream' = "open"
  /\ UNCHANGED <<saved, announced, events, fetching, first, list, received, early>>

StreamBreaks ==
  /\ stream = "open"
  /\ stream' = "closed"
  /\ events' = <<>>
  /\ UNCHANGED <<saved, announced, fetching, first, list, received, early>>

\* Any other answer than 200, a 401 too, and it never tries again.
StreamRefused ==
  /\ stream = "closed"
  /\ stream' = "refused"
  /\ UNCHANGED <<saved, announced, events, fetching, first, list, received, early>>

\* onmessage
OnMessage ==
  /\ events # <<>>
  /\ events' = Tail(events)
  /\ fetching' = fetching \cup {Head(events)}
  /\ UNCHANGED <<saved, announced, stream, first, list, received, early>>

\* A plausible bug: the message is put in front without a look at the list.
PrependAlways(m) == list' = Take(<<m>> \o list, MaxItems)

\* A plausible bug: the state of the first render is extended instead of the
\* current one.
PrependToFirst(m) ==
  list' = IF m \in Range(list) THEN list
          ELSE Take(<<m>> \o (IF first.pc = "done" THEN FirstPage(first.read) ELSE <<>>),
                    MaxItems)

\* A plausible bug: the list is never cut.
PrependUncut(m) == list' = IF m \in Range(list) THEN list ELSE <<m>> \o list

Prepend(m) ==
  list' = IF m \in Range(list) THEN list ELSE Take(<<m>> \o list, MaxItems)

Fetched(m) ==
  /\ m \in fetching
  /\ fetching' = fetching \ {m}
  /\ received' = received \cup {m}
  /\ Prepend(m)
  /\ UNCHANGED <<saved, announced, stream, events, first, early>>

\* fetchMessage returns null, and the event is forgotten.
FetchFails(m) ==
  /\ m \in fetching
  /\ fetching' = fetching \ {m}
  /\ UNCHANGED <<saved, announced, stream, events, first, list, received, early>>

FirstPageServed ==
  /\ first.pc = "sent"
  /\ first' = [pc |-> "served", read |-> saved]
  /\ UNCHANGED <<saved, announced, stream, events, fetching, list, received, early>>

\* Whatever was prepended meanwhile is replaced.
FirstPageArrives ==
  /\ first.pc = "served"
  /\ first' = [first EXCEPT !.pc = "done"]
  /\ list' = FirstPage(first.read)
  /\ early' = received
  /\ UNCHANGED <<saved, announced, stream, events, fetching, received>>

\* setError
FirstPageFails ==
  /\ first.pc \in {"sent", "served"}
  /\ first' = [pc |-> "failed", read |-> {}]
  /\ UNCHANGED <<saved, announced, stream, events, fetching, list, received, early>>

\* The steps that the API takes for a request it has verified.
LiveServed ==
  \/ \E m \in fetching : Fetched(m)
  \/ FirstPageServed \/ StreamOpens

LiveStep ==
  \/ SaveMessage \/ Announce
  \/ StreamBreaks \/ StreamRefused \/ OnMessage
  \/ \E m \in fetching : FetchFails(m)
  \/ FirstPageArrives \/ FirstPageFails

\* What is rendered: the error, once there is one, in place of the list.
Displayed == IF first.pc = "failed" THEN <<>> ELSE list

LiveAsking == first.pc = "sent" \/ fetching # {}

----------------------------------------------------------------------------
(***************************************************************************)
(* Properties.                                                             *)
(***************************************************************************)
\* Every variable stays within its type.
LiveTypeOK ==
  /\ saved \subseteq Messages
  /\ announced \subseteq saved
  /\ stream \in {"open", "closed", "refused"}
  /\ Range(events) \subseteq announced
  /\ fetching \subseteq announced
  /\ first \in FirstPages
  /\ Range(list) \subseteq saved /\ Len(list) <= MaxItems
  /\ received \subseteq announced /\ early \subseteq received

\* A message appears once, although the first page and an event may both bring
\* it, in either order (the list is keyed by the id).
NoDuplicates == \A i, j \in 1 .. Len(list) : list[i] = list[j] => i = j

\* A message that was received over the stream is displayed until others have
\* filled the list, unless it was received before the first page arrived and
\* saved after that page was read: the page that arrives late hides only such.
\* If the first page failed, nothing is displayed for as long as the dashboard
\* is shown.
ReceivedIsListed ==
  \A m \in received :
     \/ m \in Range(Displayed) \/ Len(Displayed) = MaxItems
     \/ m \in early \ first.read
     \/ first.pc = "failed"
============================================================================
