------------------------------- MODULE Reactor -------------------------------
(***************************************************************************)
(* The reactor of 4_reactor/reactor.cc: it sleeps in a level-triggered     *)
(* epoll_wait on standard input and gets one line for each event.  getline *)
(* reads ahead: what one read() returns beyond the line stays in a buffer  *)
(* that epoll knows nothing of.  Input comes in pieces of lines; a piece   *)
(* is [line, end], with end TRUE if it holds the newline.                  *)
(* A definition with a suffix is a seeded fault of the one that follows.   *)
(***************************************************************************)
EXTENDS Integers, Sequences, ListOps

CONSTANTS MaxTyped    \* bound: lines the other side writes

ASSUME MaxTypedAssumption == MaxTyped \in Nat

VARIABLES
  kind,     \* standard input is a "tty" or a "pipe"; never changes
  pc,       \* "wait" in epoll_wait, or "getline"
  input,    \* what read() would return: pieces, oldest first
  begun,    \* lines begun by the other side
  closed,   \* it has closed the pipe, or typed end-of-file
  buffer,   \* what getline has read ahead
  failed,   \* std::cin is at its end
  handled,  \* the lines looked up in the handlers table, in order
  lastRead  \* the first line of which the last read() brought the end (history)

reactorVars == <<kind, pc, input, begun, closed, buffer, failed, handled, lastRead>>

ReactorInit ==
  /\ kind \in {"tty", "pipe"}
  /\ pc = "wait" /\ input = <<>> /\ buffer = <<>> /\ handled = <<>>
  /\ begun = 0 /\ lastRead = 0 /\ closed = FALSE /\ failed = FALSE

\* The pieces that hold a newline, one for each complete line.
Lines(pieces) == Kept(pieces, [line : Nat, end : {TRUE}])

LineRead_AllRead(pieces) == pieces

\* The pieces up to and with the first newline.
LineRead(pieces) ==
  SubSeq(pieces, 1, CHOOSE n \in DOMAIN pieces :
    pieces[n].end /\ \A m \in 1..(n - 1) : ~pieces[m].end)
After(pieces, part) == SubSeq(pieces, Len(part) + 1, Len(pieces))

\* EPOLLIN or EPOLLHUP
Event == input # <<>> \/ closed
-----------------------------------------------------------------------------
Wait ==
  /\ pc = "wait" /\ Event
  /\ pc' = "getline"
  /\ UNCHANGED <<kind, input, begun, closed, buffer, failed, handled, lastRead>>

\* A terminal gives a line at a time, a pipe all there is.
ReadResult == IF kind = "tty" THEN LineRead(input) ELSE input

\* getline needs more: a read(), which waits in the middle of a line.
Read ==
  /\ pc = "getline" /\ ~failed /\ Lines(buffer) = <<>> /\ input # <<>>
  /\ kind = "tty" => Lines(input) # <<>>
  /\ buffer' = buffer \o ReadResult
  /\ input' = After(input, ReadResult)
  /\ lastRead' = IF Lines(ReadResult) = <<>> THEN lastRead
                 ELSE Lines(ReadResult)[1].line
  /\ UNCHANGED <<kind, pc, begun, closed, failed, handled>>

Rest_Flushed(line) == <<>>

\* what stays buffered once getline has returned the line
Rest(line) == After(buffer, line)

\* handlers.at(input), which may find no handler.
Handle(line) ==
  /\ handled' = Append(handled, line[1].line)
  /\ buffer' = Rest(line)
  /\ pc' = "wait"

GetLine ==
  /\ pc = "getline" /\ ~failed /\ Lines(buffer) # <<>>
  /\ Handle(LineRead(buffer))
  /\ UNCHANGED <<kind, input, begun, closed, failed, lastRead>>

\* read() returns 0: a last line without a newline is handled as well, and
\* from then on getline fails at once and the empty string has no handler.
AtEnd ==
  /\ pc = "getline" /\ Lines(buffer) = <<>> /\ input = <<>> /\ closed
  /\ failed' = TRUE
  /\ IF buffer # <<>> THEN Handle(buffer)
                      ELSE pc' = "wait" /\ UNCHANGED <<handled, buffer>>
  /\ UNCHANGED <<kind, input, begun, closed, lastRead>>
-----------------------------------------------------------------------------
(* The other side.                                                         *)

\* The last piece written has no newline yet.
MidLine == LET written == buffer \o input IN
           written # <<>> /\ ~written[Len(written)].end

Feed(piece) ==
  /\ ~closed
  /\ input' = Append(input, piece)
  /\ begun' = piece.line
  /\ UNCHANGED <<kind, pc, closed, buffer, failed, handled, lastRead>>

\* Part of a line or all of it, or the rest of a line begun; a terminal
\* passes on whole lines only.
Type == \/ ~MidLine /\ begun < MaxTyped /\ kind = "pipe"
              /\ Feed([line |-> begun + 1, end |-> FALSE])
        \/ ~MidLine /\ begun < MaxTyped /\ Feed([line |-> begun + 1, end |-> TRUE])
        \/ MidLine /\ Feed([line |-> begun, end |-> TRUE])

CloseInput ==
  /\ ~closed /\ closed' = TRUE
  /\ UNCHANGED <<kind, pc, input, begun, buffer, failed, handled, lastRead>>

Run == Wait \/ Read \/ GetLine \/ AtEnd

ReactorNext == Run \/ Type \/ CloseInput

\* The reactor's thread runs whenever it has something to do.
ReactorSpec == ReactorInit /\ [][ReactorNext]_reactorVars /\ WF_reactorVars(Run)
-----------------------------------------------------------------------------
(* Properties.                                                             *)

IsBuffered(i) == \E n \in DOMAIN buffer : buffer[n].line = i /\ buffer[n].end

\* No line is lost, repeated or overtaken on its way through the two
\* buffers; and a line is left in the second one while the reactor sleeps
\* only together with a line that the same read() brought and that has been
\* handled: never on a terminal, and never two reads of them.
WaitsBehindItsRead ==
  /\ handled = [i \in 1..Len(handled) |-> i]
  /\ [i \in DOMAIN Lines(buffer \o input) |-> Lines(buffer \o input)[i].line]
       = [i \in DOMAIN Lines(buffer \o input) |-> Len(handled) + i]
  /\ pc = "wait" /\ Lines(buffer) # <<>> =>
       kind = "pipe" /\ lastRead \in 1..Len(handled)

\* A line that was left behind is handled once any input follows, or the
\* input ends; after its end every line that was begun has been.
NextInputWakes ==
  \A i \in 1..MaxTyped :
    /\ IsBuffered(i) /\ Event ~> Len(handled) >= i
    /\ begun >= i /\ closed ~> Len(handled) >= i
=============================================================================
