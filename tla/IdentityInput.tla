----------------------------- MODULE IdentityInput -----------------------------
(***************************************************************************)
(* The identities that a client gives with a request, and those that go to *)
(* the upstream for it: the resolution in codex/identity_input.rs and      *)
(* ingress.rs, search.rs, and the projection in provider/request.rs.       *)
(* Pure functions, so a behaviour is one request on its way.               *)
(***************************************************************************)
EXTENDS Integers, FiniteSets

CONSTANTS
  Value,   \* identities that a client may give
  Given,   \* inputs: records of the fields of Inputs
  None,    \* nothing was given
  Blank,   \* an empty string was given
  Bad      \* too long, with control characters, or no string

\* Where an identity may stand: an HTTP header, client_metadata of the body, or the
\* turn metadata in a header.
Source == {"header", "meta", "turn"}
Signal == Value \cup {None, Blank, Bad}
Inputs == [kind : {"responses", "search"},
           session : [Source -> Signal], conversation : [Source -> Signal],
           thread : [Source -> Signal], window : [Source -> Signal],
           cache : Signal, id : Value]

InputAssumption ==
  /\ Given \subseteq Inputs
  /\ None \notin Value /\ Blank \notin Value /\ None \notin [session : Value, thread : Value]

VARIABLES
  input,
  stage,     \* "received", "failed", "resolved" or "prepared"
  resolved,  \* session and thread, None for a stateless request
  out        \* the identities of the prepared request, as sets of those in each place

vars == <<input, stage, resolved, out>>

\* IdentityMap::outbound: a name of the binding for a name of the client.
Mapped(kind, v) == <<kind, v>>
\* The scope of a cache key is the account and the gateway key.
Partition(v) == <<"partition", v>>

Place == {"session header", "thread header", "client request header", "turn session", "turn thread",
          "turn window", "window header", "meta session", "meta thread", "meta conversation",
          "cache", "cache headers"}

TypeOK ==
  /\ input \in Given
  /\ stage \in {"received", "failed", "resolved", "prepared"}
  /\ resolved = None \/ resolved \in [session : Value, thread : Value]
  /\ \A p \in DOMAIN out : p \in Place

-----------------------------------------------------------------------------
(* identity_input.rs *)

Values(field) == {field[s] : s \in Source} \ {None, Blank}
Coherent(field) == Bad \notin Values(field) /\ Cardinality(Values(field)) <= 1
Has(field) == Values(field) # {}
The(field) == CHOOSE v \in Values(field) : TRUE

\* ingress::coherent takes a blank for an error, where identity_input ignores it.
StrictlyCoherent(field) == Coherent(field) /\ \A s \in Source : field[s] # Blank

\* The order of the fallbacks; a search is known by its own id at last.
SessionOf(i) ==
  CASE Has(i.session) -> The(i.session)
    [] ~Has(i.session) /\ Has(i.conversation) -> The(i.conversation)
    [] ~Has(i.session) /\ ~Has(i.conversation) /\ Has(i.thread) -> The(i.thread)
    [] OTHER -> IF i.kind = "search" THEN i.id ELSE None

ThreadOf(i) ==
  CASE Has(i.thread) -> The(i.thread)
    [] ~Has(i.thread) /\ Has(i.conversation) -> The(i.conversation)
    [] OTHER -> SessionOf(i)

Valid(i) ==
  /\ Coherent(i.session) /\ Coherent(i.thread) /\ Coherent(i.conversation)
  /\ i.cache # Bad
  /\ StrictlyCoherent(i.window)

Parse ==
  /\ stage = "received"
  /\ IF Valid(input)
     THEN /\ stage' = "resolved"
          /\ resolved' = IF SessionOf(input) = None THEN None
                         ELSE [session |-> SessionOf(input), thread |-> ThreadOf(input)]
     ELSE stage' = "failed" /\ UNCHANGED resolved
  /\ UNCHANGED <<input, out>>

-----------------------------------------------------------------------------
(* provider/request.rs *)

Stateless == resolved = None
Name(v) == IF v \in Value THEN {Mapped("thread", v)} ELSE {}

\* An explicit session header, even a blank one, keeps a conversation out of it.
FromHeader ==
  IF input.session["header"] # None THEN Name(input.session["header"])
  ELSE Name(input.conversation["header"])

OrElse(given, default) == IF given # {} THEN given ELSE default

\* A temporary identity is for the schedule only.
ResolvedSession == IF Stateless THEN {} ELSE Name(resolved.session)
ResolvedThread == IF Stateless THEN {} ELSE Name(resolved.thread)

\* Projected turn metadata: what the client's own says, even if blank, stays.
Turn(field, default) == IF field["turn"] # None THEN Name(field["turn"]) ELSE default

Window == IF Has(input.window) THEN {Mapped("window", The(input.window))} ELSE {}

\* A cache key that is the session or the thread follows it; a search keeps its own.
Cache ==
  IF input.cache \notin Value THEN {}
  ELSE IF input.kind = "search" THEN {input.cache}
  ELSE IF ~Stateless /\ input.cache \in {resolved.session, resolved.thread}
       THEN Name(input.cache)
       ELSE {Partition(input.cache)}

Prepare ==
  /\ stage = "resolved"
  /\ stage' = "prepared"
  /\ out' = [p \in Place |->
       CASE p = "session header" -> OrElse(FromHeader, ResolvedSession)
         [] p = "thread header" -> OrElse(Name(input.thread["header"]), ResolvedThread)
         [] p = "client request header" -> ResolvedThread
         [] p = "turn session" -> Turn(input.session, ResolvedSession)
         [] p = "turn thread" -> Turn(input.thread, ResolvedThread)
         [] p \in {"turn window", "window header"} -> Window
         [] p = "meta session" -> Name(input.session["meta"])
         [] p = "meta thread" -> Name(input.thread["meta"])
         [] p = "meta conversation" -> Name(input.conversation["meta"])
         [] p = "cache" -> Cache
         [] p = "cache headers" -> IF Stateless THEN Cache ELSE {}]
  /\ UNCHANGED <<input, resolved>>

Done == stage \in {"failed", "prepared"} /\ UNCHANGED vars

Init ==
  /\ input \in Given
  /\ stage = "received"
  /\ resolved = None
  /\ out = [p \in {} |-> {}]

Next == Parse \/ Prepare \/ Done

Spec == Init /\ [][Next]_vars

-----------------------------------------------------------------------------
(* Properties. *)

SessionPlaces == {"session header", "turn session", "meta session"}
ThreadPlaces == {"thread header", "client request header", "turn thread", "meta thread"}
\* The header of a conversation names the session of a request that gives its session in
\* metadata only: this place then disagrees with the others.
Shadowed == input.session["header"] = None /\ input.conversation["header"] \in Value

\* Wherever and in whatever combination a client gives its identities, a prepared
\* request names one session and one thread, those under which it was scheduled, as
\* names of its binding. A request without a session names none, its temporary one
\* included, but for the partition of its cache key. The header of a conversation is
\* the exception (Shadowed).
OneIdentityUpstream ==
  stage = "prepared" =>
    /\ ~Stateless =>
         /\ \A p \in SessionPlaces \ {"session header"} : out[p] \subseteq {Mapped("thread", resolved.session)}
         /\ out["session header"] = {Mapped("thread", resolved.session)} \/ Shadowed
         /\ \A p \in ThreadPlaces : out[p] \subseteq {Mapped("thread", resolved.thread)}
         /\ out["thread header"] # {} /\ out["client request header"] # {}
    /\ Stateless =>
         \A p \in SessionPlaces \cup ThreadPlaces \cup {"meta conversation"} : out[p] = {}
    /\ out["cache headers"] # {} => Stateless /\ out["cache headers"] = {Partition(input.cache)}

\* No request that is given an identity runs without one, and none that is given
\* contradictory ones runs at all.
NoIdentityLost ==
  stage \in {"resolved", "prepared"} =>
    /\ resolved = None <=> ~(Has(input.session) \/ Has(input.thread) \/ Has(input.conversation)
                             \/ input.kind = "search")
    /\ resolved # None =>
         /\ Has(input.session) => resolved.session \in Values(input.session)
         /\ Has(input.thread) => resolved.thread \in Values(input.thread)
         /\ Has(input.conversation) /\ ~(Has(input.session) /\ Has(input.thread)) =>
              \E v \in Values(input.conversation) : v \in {resolved.session, resolved.thread}

=============================================================================
