------------------------------ MODULE EventStream ------------------------------
(***************************************************************************)
(* One dispatched request between its upstream and its client: the loops   *)
(* of application/gateway.rs over the attempts and over the events of a    *)
(* stream, the decoder of codex/provider/events.rs, the cleanup of         *)
(* provider/recovery.rs and the classification of errors in                *)
(* provider/mod.rs.  Scheduling and storing are the subject of Gateway.    *)
(***************************************************************************)
EXTENDS Integers, Sequences, FiniteSets, SequencesExt

CONSTANTS
  Event,        \* what an upstream sends: records of the fields of EventFields
  Input,        \* encrypted parts of an input, subsets of Encrypted
  MaxEvents,    \* bound on the events of an attempt
  MaxPreamble,  \* events held back at most, 16 in the code
  None

Encrypted == {"reasoning", "tool"}
Failure == Encrypted \cup {"policy", "oauth", "quota", "other"}
EventFields ==
  [kind : {"created", "delta", "item", "limits", "completed", "failed"},
   work : BOOLEAN,         \* usage or output is reported
   tokens : Nat \cup {None},  \* usage so far
   images : SUBSET {"i", "j"},
   body : Failure \cup {None}]

VARIABLES
  kind,      \* "stream", "document" (both Responses) or "unary" (the other kinds)
  input,     \* encrypted parts of the prepared body
  upstream,  \* the decoded events of each attempt
  decoder,   \* CodexDecoder
  chunk,     \* events of the last chunk not handled yet
  hold,      \* buffering and preamble
  record,    \* RequestRecord, while it is in memory
  row,       \* the record as finish_request has stored it
  latched,   \* Execution.safety_rejection is set
  disable,   \* reason given to disable_observed
  sent,      \* what the client was sent: events <<attempt, number>> and Failed
  task       \* where the task is, its error, finalized and terminal_delivered

vars == <<kind, input, upstream, decoder, chunk, hold, record, row, latched, disable, sent, task>>

Stage == {"checking", "sending", "reading", "unary", "handling", "draining", "observing",
          "delivering", "finishing", "last", "recovering", "ended", "answering", "done"}
Error == {"upstream_invalid_request", "upstream_content_policy_violation",
          "oauth_invalid", "upstream_quota_exhausted", "interrupted", "blocked", "storage", "cancelled"}
Usage == [tokens : Nat \cup {None}, images : 0..2]
Row == [state : {"completed", "failed", "cancelled"}, attempts : 0..2, usage : Usage]

StreamAssumption ==
  /\ Event \subseteq EventFields /\ Input \subseteq SUBSET Encrypted
  /\ \A e \in Event : e.body # None => e.kind = "failed"
  /\ MaxEvents \in Nat /\ MaxPreamble \in Nat
  /\ None \notin Nat /\ None \notin Failure /\ None \notin Error /\ None \notin Row

TypeOK ==
  /\ kind \in {"stream", "document", "unary"}
  /\ input \in SUBSET Encrypted
  /\ upstream \in [1..2 -> BoundedSeq(Event, MaxEvents)]
  /\ decoder \in [terminal : BOOLEAN, tokens : Nat \cup {None}, images : SUBSET {"i", "j"}]
  /\ hold.on \in BOOLEAN /\ hold.events \in BoundedSeq(1..MaxEvents, MaxPreamble)
  /\ record \in [attempts : 0..2, usage : Usage]
  /\ row \in Row \cup {None}
  /\ latched \in BOOLEAN
  /\ disable \in {None, "oauth_invalid", "quota_exhausted"}
  /\ task \in [at : Stage, error : Error \cup {None}, finalized : BOOLEAN, delivered : BOOLEAN, client : BOOLEAN]

-----------------------------------------------------------------------------
(* The provider. *)

\* The gateway's own failure.
Failed == <<0, 0>>

NoUsage == [tokens |-> None, images |-> 0]
FreshDecoder == [terminal |-> FALSE, tokens |-> None, images |-> {}]

Terminal(e) == e.kind \in {"completed", "failed"}
IsPreamble(e) == e.kind = "created" /\ ~e.work

\* encrypted_rejection of an event.
Rejection(e) == IF e.kind = "failed" /\ ~e.work /\ e.body \in Encrypted THEN e.body ELSE None

\* The last figure among the first events of a sequence, and the images in them.
Tokens(events, n) ==
  LET told == {i \in 1..n : events[i].tokens # None}
      latest == CHOOSE i \in told : \A j \in told : j <= i
  IN IF told = {} THEN None ELSE events[latest].tokens
Images(events, n) == UNION {events[i].images : i \in 1..n}

\* The decoder after the first n of some events: observe_usage keeps the last figure,
\* observe_item each image once.
Decode(d, events, n) ==
  [terminal |-> Terminal(events[n]), images |-> d.images \cup Images(events, n),
   tokens |-> IF Tokens(events, n) = None THEN d.tokens ELSE Tokens(events, n)]

\* classify_error: the safety policy comes first, whatever the status.
Code(status, body) ==
  CASE body = "policy" -> "upstream_content_policy_violation"
    [] body # "policy" /\ (body = "oauth" \/ status = 401) -> "oauth_invalid"
    [] body = "quota" /\ status # 401 -> "upstream_quota_exhausted"
    [] OTHER -> "upstream_invalid_request"

Reason(code) ==
  CASE code = "oauth_invalid" -> "oauth_invalid"
    [] code = "upstream_quota_exhausted" -> "quota_exhausted"
    [] OTHER -> None

\* Observation.error of an event.
Observed(e) == IF e.kind = "failed" THEN Code(502, e.body) ELSE None

\* recovery::clean removes what the error names; without an effect there is no recovery.
Cleaned(rejection) == input \ {rejection}
Recoverable(rejection) == rejection # None /\ Cleaned(rejection) # input

-----------------------------------------------------------------------------
(* Steps of the task. *)

At(stage) == task.at = stage
Go(stage) == task' = [task EXCEPT !.at = stage]
End(error) == task' = [task EXCEPT !.at = "ended", !.error = error]
Attempt == record.attempts

\* The body is cleaned, the events that were held back are dropped.
BeginRecovery(rejection) ==
  /\ input' = Cleaned(rejection)
  /\ hold' = [on |-> FALSE, events |-> <<>>]
  /\ Go("recovering")

\* check_session_safety before every attempt; upstream_attempts is what was sent.
Check ==
  /\ At("checking")
  /\ \/ Go("sending") /\ UNCHANGED record
     \/ record' = [record EXCEPT !.attempts = @ - 1] /\ End("blocked")
  /\ UNCHANGED <<kind, input, upstream, decoder, chunk, hold, row, latched, disable, sent>>

\* Headers of success; only the first attempt holds events back.
Accepted ==
  /\ At("sending")
  /\ Go(IF kind = "unary" THEN "unary" ELSE "reading")
  /\ decoder' = FreshDecoder
  /\ hold' = [on |-> Attempt = 1 /\ kind # "unary" /\ input # {}, events |-> <<>>]
  /\ UNCHANGED <<kind, input, upstream, chunk, record, row, latched, disable, sent>>

\* A status of failure with its body.
Refused ==
  /\ At("sending")
  /\ \E status \in {400, 401, 502}, body \in Failure :
       LET rejection == IF body \in Encrypted /\ status = 400 /\ kind # "unary" THEN body ELSE None
           code == Code(status, body)
       IN IF Attempt = 1 /\ Recoverable(rejection)
          THEN BeginRecovery(rejection) /\ UNCHANGED <<latched, disable>>
          ELSE /\ End(code)
               /\ latched' = (latched \/ body = "policy")
               /\ disable' = IF Reason(code) # None THEN Reason(code) ELSE disable
               /\ UNCHANGED <<input, hold>>
  /\ UNCHANGED <<kind, upstream, decoder, chunk, record, row, sent>>

\* Rejections are noted before anything else is done with the chunk.
Latch(events) == latched' = (latched \/ \E i \in DOMAIN events : Observed(events[i]) = "upstream_content_policy_violation")

\* decoder.push: the events of a chunk up to a terminal one.
Push ==
  /\ At("reading") /\ ~decoder.terminal
  /\ \E events \in BoundedSeq(Event, 2) \ {<<>>} :
       /\ Len(upstream[Attempt]) + Len(events) <= MaxEvents
       /\ \A i \in 1..Len(events) - 1 : ~Terminal(events[i])
       /\ upstream' = [upstream EXCEPT ![Attempt] = @ \o events]
       /\ LET after(i) == Decode(decoder, events, i) IN
          /\ chunk' = [i \in DOMAIN events |->
               [event |-> events[i], number |-> Len(upstream[Attempt]) + i,
                usage |-> [tokens |-> after(i).tokens, images |-> Cardinality(after(i).images)]]]
          /\ decoder' = after(Len(events))
       /\ Latch(events)
  /\ Go("handling")
  /\ UNCHANGED <<kind, input, hold, record, row, disable, sent>>

\* A silent, broken, closed, oversized or undecodable stream, a connection that fails.
Interrupted ==
  /\ At("sending") \/ At("reading") \/ At("unary")
  /\ End("interrupted")
  /\ UNCHANGED <<kind, input, upstream, decoder, chunk, hold, record, row, latched, disable, sent>>

Current == Head(chunk)
Number == Current.number
Outcome == IF kind = "unary" THEN None ELSE Observed(Current.event)

\* MUTANT: what was held back is forgotten.
Forgotten == <<>>

\* The client of a stream is owed what was held back.
Owed == IF kind = "stream" THEN hold.events ELSE <<>>

\* Recovery, or the event is held back, or it ends the holding back.
Handle ==
  /\ At("handling")
  /\ LET e == Current.event IN
     IF hold.on /\ Recoverable(Rejection(e))
     THEN BeginRecovery(Rejection(e))
     ELSE /\ UNCHANGED input
          /\ IF hold.on /\ IsPreamble(e) /\ Len(hold.events) < MaxPreamble
             THEN hold' = [hold EXCEPT !.events = Append(@, Number)] /\ Go("observing")
             ELSE IF hold.on
             THEN /\ hold' = [on |-> FALSE, events |-> Owed]
                  /\ Go("draining")
             ELSE UNCHANGED hold /\ Go("observing")
  /\ UNCHANGED <<kind, upstream, decoder, chunk, record, row, latched, disable, sent>>

\* The client gets what was held back, one event at a time.
Drain ==
  /\ At("draining")
  /\ IF hold.events = <<>>
     THEN Go("observing") /\ UNCHANGED <<hold, sent>>
     ELSE /\ sent' = Append(sent, <<Attempt, Head(hold.events)>>)
          /\ hold' = [hold EXCEPT !.events = Tail(@)]
          /\ UNCHANGED task
  /\ UNCHANGED <<kind, input, upstream, decoder, chunk, record, row, latched, disable>>

Following == IF Len(chunk) = 1 THEN "reading" ELSE "handling"

\* Usage, quotas and the account are noted; the event goes to the client.
Observe ==
  /\ At("observing")
  /\ record' = [record EXCEPT !.usage = Current.usage]
  /\ LET e == Current.event  reason == Reason(Observed(e)) IN
     /\ disable' = IF reason # None THEN reason ELSE disable
     /\ IF Terminal(e) THEN Go("finishing") /\ UNCHANGED chunk
        ELSE IF kind = "stream" /\ ~hold.on THEN Go("delivering") /\ UNCHANGED chunk
        ELSE Go(Following) /\ chunk' = Tail(chunk)
  /\ UNCHANGED <<kind, input, upstream, decoder, hold, row, latched, sent>>

Deliver ==
  /\ At("delivering")
  /\ sent' = Append(sent, <<Attempt, Number>>)
  /\ chunk' = Tail(chunk)
  /\ Go(Following)
  /\ UNCHANGED <<kind, input, upstream, decoder, hold, record, row, latched, disable>>

\* finish_request; a row that is closed stays as it is.
Store(error) ==
  row' = IF row # None THEN row
         ELSE [state |-> IF error = None THEN "completed"
                         ELSE IF error = "cancelled" THEN "cancelled" ELSE "failed",
               attempts |-> Attempt,
               usage |-> IF Attempt = 0 THEN NoUsage ELSE record.usage]

\* finalize inside execute, before the terminal event is delivered.
Finish ==
  /\ At("finishing")
  /\ \/ /\ Store(Outcome)
        /\ task' = [task EXCEPT !.at = "last", !.finalized = TRUE]
     \/ (Store(Outcome) \/ UNCHANGED row) /\ End("storage")
  /\ UNCHANGED <<kind, input, upstream, decoder, chunk, hold, record, latched, disable, sent>>

DeliverLast ==
  /\ At("last")
  /\ sent' = IF kind = "stream" THEN Append(sent, <<Attempt, Number>>) ELSE sent
  /\ task' = [task EXCEPT !.at = "ended", !.delivered = TRUE, !.error = Outcome]
  /\ UNCHANGED <<kind, input, upstream, decoder, chunk, hold, record, row, latched, disable>>

\* receive_unary: the whole document; the rest is that of a terminal event.
Document ==
  /\ At("unary")
  /\ \E tokens \in {None, 1} : record' = [record EXCEPT !.usage = [tokens |-> tokens, images |-> 0]]
  /\ Go("finishing")
  /\ UNCHANGED <<kind, input, upstream, decoder, chunk, hold, row, latched, disable, sent>>

\* begin_recovery: the model is still there and the lease agrees.
Recover ==
  /\ At("recovering")
  /\ record' = [attempts |-> 2, usage |-> NoUsage]
  /\ Go("checking")
  /\ chunk' = <<>>
  /\ UNCHANGED <<kind, input, upstream, decoder, hold, row, latched, disable, sent>>

\* A write, a model, the lease or a send to the client fails at an await.
Fails ==
  /\ \E stage \in {"sending", "handling", "draining", "observing", "delivering", "last", "recovering"} : At(stage)
  /\ End("storage")
  /\ UNCHANGED <<kind, input, upstream, decoder, chunk, hold, record, row, latched, disable, sent>>

\* The client leaves or the gateway stops: execute is dropped where it waits.
Cancel ==
  /\ task.at \notin {"ended", "answering", "done"}
  /\ \E client \in BOOLEAN :
       task' = [task EXCEPT !.at = "ended", !.error = "cancelled", !.client = client]
  /\ UNCHANGED row \/ (At("finishing") /\ Store(Outcome))
  /\ UNCHANGED <<kind, input, upstream, decoder, chunk, hold, record, latched, disable, sent>>

-----------------------------------------------------------------------------
(* After execute. *)

Conclude ==
  /\ At("ended")
  /\ IF task.finalized THEN UNCHANGED row ELSE Store(task.error) \/ UNCHANGED row
  /\ Go("answering")
  /\ UNCHANGED <<kind, input, upstream, decoder, chunk, hold, record, latched, disable, sent>>

\* A stream that ends without a terminal event gets one of the gateway.
Answer ==
  /\ At("answering")
  /\ \/ UNCHANGED sent
     \/ /\ kind = "stream" /\ task.error # None /\ ~task.delivered /\ task.client
        /\ sent' = Append(sent, Failed)
  /\ Go("done")
  /\ UNCHANGED <<kind, input, upstream, decoder, chunk, hold, record, row, latched, disable>>

Done == At("done") /\ UNCHANGED vars

Init ==
  /\ kind \in {"stream", "document", "unary"}
  /\ input \in Input
  /\ upstream = [a \in 1..2 |-> <<>>]
  /\ decoder = FreshDecoder /\ chunk = <<>>
  /\ hold = [on |-> FALSE, events |-> <<>>]
  /\ record = [attempts |-> 1, usage |-> NoUsage]
  /\ row = None /\ latched = FALSE /\ disable = None /\ sent = <<>>
  /\ task = [at |-> "checking", error |-> None, finalized |-> FALSE, delivered |-> FALSE, client |-> TRUE]

Next ==
  \/ Check \/ Accepted \/ Refused \/ Push \/ Interrupted \/ Handle \/ Drain \/ Observe \/ Deliver
  \/ Finish \/ DeliverLast \/ Document \/ Recover \/ Fails \/ Cancel \/ Conclude \/ Answer \/ Done

Spec == Init /\ [][Next]_vars

-----------------------------------------------------------------------------
(* Properties. *)

\* The places of events in what the client was sent.
Delivered == {i \in DOMAIN sent : sent[i] # Failed}
Source(i) == sent[i][1]

\* The client's stream is a beginning of one attempt's events, in their order and
\* without a gap, although the first ones are held back and an attempt is repeated;
\* the gateway's own failure comes last, and never after the upstream's end.
OneAttemptDelivered ==
  /\ \A i \in Delivered : sent[i] = <<Source(1), i>>
  /\ \A i \in DOMAIN sent \ Delivered :
       i = Len(sent) /\ \A j \in Delivered : ~Terminal(upstream[Source(j)][j])

\* An upstream that has reported work is not asked again, nor a client's view of it
\* taken back; what was rejected is not sent a second time.
RepeatedWithoutWork ==
  (upstream[2] # <<>> \/ Attempt = 2) =>
    /\ \A i \in DOMAIN upstream[1] : ~upstream[1][i].work
    /\ \A i \in Delivered : Source(i) = 2
    /\ upstream[1] # <<>> => Last(upstream[1]).body \notin input

\* The stored outcome is that of the last attempt alone: complete only if the upstream
\* has said so, with its last figure for tokens and each of its images once. The
\* client has not seen the end before it was stored.
Charged(a) ==
  [tokens |-> Tokens(upstream[a], Len(upstream[a])),
   images |-> Cardinality(Images(upstream[a], Len(upstream[a])))]

OutcomeOfLastAttempt ==
  kind # "unary" =>
    /\ row # None /\ row.state = "completed" =>
         /\ upstream[row.attempts] # <<>> /\ Last(upstream[row.attempts]).kind = "completed"
         /\ row.usage = Charged(row.attempts)
    /\ \A i \in Delivered : Terminal(upstream[Source(i)][i]) => row # None

\* A safety rejection that was decoded is remembered, wherever the task is dropped.
RejectionsLatched ==
  (\E a \in 1..2 : \E i \in DOMAIN upstream[a] : upstream[a][i].body = "policy") => latched

=============================================================================
