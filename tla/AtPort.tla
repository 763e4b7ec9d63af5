------------------------------- MODULE AtPort -------------------------------
(***************************************************************************)
(* The serial port of modem/at/parser.go: commands (Client.Exchange) and   *)
(* submissions of a text (Client.SendPDU), which write to the port and     *)
(* read from it until an answer or their deadline, and Client.Run, which   *)
(* reads what comes while no command has the port.  Bytes arrive in chunks *)
(* that respect neither lines nor answers; each reader has a Parser of its *)
(* own.  A deadline leaves the port open and the modem as it is.           *)
(*                                                                         *)
(* A line is its kind and the command or the event it is about.  It comes  *)
(* in two pieces; the prompt for a body is one piece that ends no line.    *)
(***************************************************************************)
EXTENDS Integers, Sequences

CONSTANTS
    Exchanges,      \* calls of Exchange, each one command
    Submissions,    \* calls of SendPDU
    Urcs,           \* unsolicited lines the modem sends
    NoOne,
    ChunkSize,      \* bound: pieces that one read returns
    MaxDeadlines    \* bound: deadlines that pass

Commands == Exchanges \union Submissions

ASSUME PortConstants ==
    /\ Exchanges \intersect Submissions = {} /\ NoOne \notin Commands \union Urcs
    /\ ChunkSize \in Nat \ {0} /\ MaxDeadlines \in Nat

VARIABLES
    input,      \* what the modem was written and has not processed
    prompting,  \* the submission whose body the modem waits for
    toSend,     \* events the modem has not sent yet
    wire,       \* pieces the modem sent and nobody has read
    port,       \* ioCh: whose the port is; Run holds it for one read only
    client,     \* the goroutine of a command
    buffer,     \* its Parser, and pollParser under NoOne
    held,       \* complete lines with the events it has still to hand on, and Run under NoOne
    chunk,      \* what Run has read and not fed to its parser
    handled,    \* how often lineHandle was given an event
    given,      \* given[k]: whose final line the caller of k was given
    submitted,  \* <<k, b>>: the modem sent the body of b for the command k
    deadlines   \* deadlines that passed so far

modem == <<input, prompting, toSend, submitted>>
readers == <<buffer, held, chunk, handled>>
portVars == <<modem, wire, port, client, readers, given, deadlines>>

Lines == [kind : {"ok", "error"}, of : Commands] \union [kind : {"urc"}, of : Urcs]
Pieces == [line : Lines, part : {"head", "tail"}]
          \union [line : [kind : {"prompt"}, of : Submissions], part : {"head"}]

PortTypeOK ==
    /\ input \in Seq({"command", "body"} \X Commands) /\ prompting \in Submissions \union {NoOne}
    /\ wire \in Seq(Pieces) /\ chunk \in Seq(Pieces) /\ toSend \subseteq Urcs
    /\ port \in Commands \union {NoOne}
    /\ client \in [Commands -> {"idle", "prompt", "final", "dispatch", "done"}]
    /\ buffer \in [Commands \union {NoOne} -> Seq(Pieces)]
    /\ held \in [Commands \union {NoOne} -> Seq(Pieces)] /\ handled \in [Urcs -> Nat]
    /\ given \in [Commands -> Commands \union {NoOne}]
    /\ submitted \subseteq Submissions \X Commands /\ deadlines \in 0..MaxDeadlines

PortInit ==
    /\ input = <<>> /\ prompting = NoOne /\ wire = <<>> /\ toSend = Urcs /\ submitted = {}
    /\ port = NoOne /\ client = [k \in Commands |-> "idle"]
    /\ buffer = [k \in Commands \union {NoOne} |-> <<>>]
    /\ held = [k \in Commands \union {NoOne} |-> <<>>]
    /\ chunk = <<>> /\ handled = [u \in Urcs |-> 0]
    /\ given = [k \in Commands |-> NoOne] /\ deadlines = 0

-----------------------------------------------------------------------------
(* Parser.Feed and the kinds of lines.  A line is named by where it ends.  *)

Piece(kind, of, part) == [line |-> [kind |-> kind, of |-> of], part |-> part]
Line(kind, of) == <<Piece(kind, of, "head"), Piece(kind, of, "tail")>>

Ends(pieces) == {i \in DOMAIN pieces : pieces[i].part = "tail"}

\* Feed returns the lines that are complete, the first e pieces, and keeps the rest.
Feed(pieces, e) == e \in {0} \union Ends(pieces) /\ \A i \in Ends(pieces) : i <= e

\* A line put together from pieces of several ones is neither an answer nor an event.
Whole(pieces, i) ==
    /\ i - 1 \in DOMAIN pieces \ Ends(pieces) /\ pieces[i - 1].line = pieces[i].line
    /\ i - 2 \in {0} \union Ends(pieces)

\* Mutant: the first line that is no event of a known kind ends the command.
FinalsAnyLine(pieces) == {i \in Ends(pieces) : Whole(pieces, i)}
Finals(pieces) ==
    {i \in Ends(pieces) : Whole(pieces, i) /\ pieces[i].line.kind \in {"ok", "error"}}
Unsolicited(pieces) == {i \in Ends(pieces) : Whole(pieces, i) /\ pieces[i].line.kind = "urc"}

First(i, lines) == i \in lines /\ \A j \in lines : i <= j

-----------------------------------------------------------------------------
(* The modem: it answers what it is written, in that order.                *)

ModemEvent(u) ==
    /\ u \in toSend /\ toSend' = toSend \ {u}
    /\ wire' = wire \o Line("urc", u)
    /\ UNCHANGED <<input, prompting, submitted, port, client, readers, given, deadlines>>

Answers(k) ==
    /\ prompting = NoOne
    /\ \/ /\ k \in Exchanges /\ wire' = wire \o Line("ok", k) /\ UNCHANGED prompting
       \/ /\ k \in Submissions /\ wire' = wire \o Line("error", k) /\ UNCHANGED prompting
       \/ /\ k \in Submissions /\ wire' = Append(wire, Piece("prompt", k, "head"))
          /\ prompting' = k
    /\ UNCHANGED submitted

\* What it is written while it waits for a body is part of that body.
Swallows ==
    /\ prompting # NoOne /\ UNCHANGED <<wire, prompting, submitted>>

TakesBody(b) ==
    /\ prompting # NoOne
    /\ submitted' = submitted \union {<<prompting, b>>}
    /\ wire' = wire \o Line("ok", prompting) /\ prompting' = NoOne

ModemProcesses ==
    /\ input # <<>> /\ input' = Tail(input)
    /\ LET item == Head(input)
       IN \/ item[1] = "command" /\ (Answers(item[2]) \/ Swallows)
          \/ item[1] = "body" /\ TakesBody(item[2])
          \/ item[1] = "body" /\ prompting = NoOne /\ UNCHANGED <<wire, prompting, submitted>>
    /\ UNCHANGED <<toSend, port, client, readers, given, deadlines>>

-----------------------------------------------------------------------------
(* A command.                                                              *)

\* Mutant: without ioCh.
BeginAnyway(k) ==
    /\ client[k] = "idle"
    /\ port' = k /\ input' = Append(input, <<"command", k>>)
    /\ client' = [client EXCEPT ![k] = IF k \in Submissions THEN "prompt" ELSE "final"]
    /\ UNCHANGED <<prompting, toSend, submitted, wire, readers, given, deadlines>>

Begin(k) ==
    /\ client[k] = "idle" /\ port = NoOne
    /\ port' = k /\ input' = Append(input, <<"command", k>>)
    /\ client' = [client EXCEPT ![k] = IF k \in Submissions THEN "prompt" ELSE "final"]
    /\ UNCHANGED <<prompting, toSend, submitted, wire, readers, given, deadlines>>

\* acquireIO: the deadline passes while somebody else has the port.
Refused(k) ==
    /\ client[k] = "idle" /\ port # NoOne /\ deadlines < MaxDeadlines
    /\ client' = [client EXCEPT ![k] = "done"] /\ deadlines' = deadlines + 1
    /\ UNCHANGED <<modem, wire, port, readers, given>>

\* It goes on reading with what was fed to its parser, or stops with these lines.
Continues(k, fed) ==
    /\ \E e \in 0..Len(fed) :
          /\ Feed(fed, e)
          /\ buffer' = [buffer EXCEPT ![k] = SubSeq(fed, e + 1, Len(fed))]
          /\ held' = [held EXCEPT ![k] = @ \o SubSeq(fed, 1, e)]
    /\ UNCHANGED <<input, client, given>>
Stops(k, state, lines) ==
    /\ client' = [client EXCEPT ![k] = state]
    /\ buffer' = [buffer EXCEPT ![k] = <<>>] /\ held' = [held EXCEPT ![k] = @ \o lines]

Consumes(n) == n <= Len(wire) /\ wire' = SubSeq(wire, n + 1, Len(wire))
Reads(k, n) ==
    port = k /\ Consumes(n) /\ UNCHANGED <<prompting, toSend, submitted, port, chunk, handled, deadlines>>

\* Exchange, and SendPDU after the body: up to the first final line; what else came
\* with it is dropped.
ReadFinal(k, n) ==
    LET fed == buffer[k] \o SubSeq(wire, 1, n)
    IN /\ client[k] = "final" /\ Reads(k, n)
       /\ \/ Finals(fed) = {} /\ Continues(k, fed)
          \/ \E i \in Finals(fed) :
                /\ First(i, Finals(fed)) /\ given' = [given EXCEPT ![k] = fed[i].line.of]
                /\ Stops(k, "dispatch", SubSeq(fed, 1, i)) /\ UNCHANGED input

\* SendPDU before the body: a chunk with a prompt ends the wait, and so does an OK.
ReadPrompt(k, n) ==
    LET fed == buffer[k] \o SubSeq(wire, 1, n)
        prompted == \E i \in 1..n : wire[i].line.kind = "prompt"
        WriteBody == input' = Append(input, <<"body", k>>) /\ UNCHANGED given
    IN /\ client[k] = "prompt" /\ Reads(k, n)
       /\ \/ prompted /\ Stops(k, "final", <<>>) /\ WriteBody
          \/ ~prompted /\ Finals(fed) = {} /\ Continues(k, fed)
          \/ /\ ~prompted
             /\ \E i \in Finals(fed) :
                   /\ First(i, Finals(fed))
                   /\ \/ /\ fed[i].line.kind = "ok" /\ WriteBody
                         /\ Stops(k, "final", SubSeq(fed, 1, i))
                      \/ /\ fed[i].line.kind = "error" /\ UNCHANGED input
                         /\ given' = [given EXCEPT ![k] = fed[i].line.of]
                         /\ Stops(k, "dispatch", SubSeq(fed, 1, i))

\* readWithContext: the deadline passes before the answer, and what the read under way may
\* still get is lost.  The port stays open.
GiveUp(k) ==
    /\ client[k] \in {"prompt", "final"} /\ deadlines < MaxDeadlines
    /\ Stops(k, "dispatch", <<>>)
    /\ deadlines' = deadlines + 1 /\ \E n \in 0..ChunkSize : Consumes(n)
    /\ UNCHANGED <<modem, port, chunk, handled, given>>

\* dispatchUnsolicited, without Client.mu and before releaseIO.
Handle(k) ==
    \E i \in Unsolicited(held[k]) :
        /\ First(i, Unsolicited(held[k]))
        /\ handled' = [handled EXCEPT ![held[k][i].line.of] = @ + 1]
        /\ held' = [held EXCEPT ![k] = SubSeq(@, i + 1, Len(@))]

Dispatch(k) ==
    /\ client[k] = "dispatch"
    /\ \/ Handle(k) /\ UNCHANGED <<port, client>>
       \/ /\ Unsolicited(held[k]) = {} /\ held' = [held EXCEPT ![k] = <<>>]
          /\ port' = NoOne /\ client' = [client EXCEPT ![k] = "done"] /\ UNCHANGED handled
    /\ UNCHANGED <<modem, wire, buffer, chunk, given, deadlines>>

Command(k) ==
    \/ Begin(k) \/ Refused(k) \/ GiveUp(k) \/ Dispatch(k)
    \/ \E n \in 1..ChunkSize : ReadPrompt(k, n) \/ ReadFinal(k, n)

-----------------------------------------------------------------------------
(* Run: one goroutine.  It has the port for the read alone.                *)

PollRead(n) ==
    /\ chunk = <<>> /\ Unsolicited(held[NoOne]) = {} /\ port = NoOne
    /\ Consumes(n) /\ chunk' = SubSeq(wire, 1, n)
    /\ UNCHANGED <<modem, port, client, buffer, held, handled, given, deadlines>>

\* Mutant: every poll has a new Parser.
PollFeedAnew ==
    /\ chunk # <<>> /\ chunk' = <<>>
    /\ \A k \in Commands : client[k] \notin {"prompt", "final"}
    /\ \E e \in 0..Len(chunk) :
          Feed(chunk, e) /\ held' = [held EXCEPT ![NoOne] = SubSeq(chunk, 1, e)]
    /\ UNCHANGED <<modem, wire, port, client, buffer, handled, given, deadlines>>

\* It waits for Client.mu, which a command has until it dispatches.
PollFeed ==
    LET fed == buffer[NoOne] \o chunk
    IN /\ chunk # <<>> /\ chunk' = <<>>
       /\ \A k \in Commands : client[k] \notin {"prompt", "final"}
       /\ \E e \in 0..Len(fed) :
             /\ Feed(fed, e)
             /\ buffer' = [buffer EXCEPT ![NoOne] = SubSeq(fed, e + 1, Len(fed))]
             /\ held' = [held EXCEPT ![NoOne] = SubSeq(fed, 1, e)]
       /\ UNCHANGED <<modem, wire, port, client, handled, given, deadlines>>

PollHandle ==
    /\ Handle(NoOne)
    /\ UNCHANGED <<modem, wire, port, client, buffer, chunk, given, deadlines>>

Run == (\E n \in 1..ChunkSize : PollRead(n)) \/ PollFeed \/ PollHandle

PortNext ==
    \/ \E u \in Urcs : ModemEvent(u)
    \/ ModemProcesses
    \/ \E k \in Commands : Command(k)
    \/ Run

PortSpec == PortInit /\ [][PortNext]_portVars

-----------------------------------------------------------------------------
(* Properties                                                              *)

\* Until a deadline passes, the final line a caller of Exchange or SendPDU is given is the
\* one its own command was answered with, however the chunks fall and whatever Run reads.
AnswersMatch ==
    deadlines = 0 =>
        \A k \in Commands : client[k] \in {"dispatch", "done"} => given[k] = k

\* SendPDU is atomic: the modem sends the body of one submission for another command, or
\* one body twice, only after a deadline passed.
BodiesMatch ==
    \A s \in submitted : s[1] # s[2] => deadlines > 0

\* Where an unsolicited line is before lineHandle is given it.
Underway(u) ==
    LET Holds(pieces) == \E i \in DOMAIN pieces : pieces[i].line.kind = "urc" /\ pieces[i].line.of = u
    IN \/ u \in toSend \/ Holds(wire) \/ Holds(chunk)
       \/ \E r \in Commands \union {NoOne} :
             \/ Holds(buffer[r])
             \/ \E i \in Unsolicited(held[r]) : held[r][i].line.of = u

\* Exactly once: no event is handed on twice, by a command and by Run or by the two readings
\* of one SendPDU; and as long as no command has had the port every event is still underway
\* or was handed on, however the lines fall into the chunks that Run reads.  (A command does
\* lose events: what came with its prompt, after its final line, or half before it began.)
EventsOnce ==
    \A u \in Urcs :
        /\ handled[u] <= 1 /\ (handled[u] = 1 => ~Underway(u))
        /\ (\A k \in Commands : client[k] = "idle") => Underway(u) \/ handled[u] = 1
=============================================================================
