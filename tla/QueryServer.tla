------------------------------ MODULE QueryServer ------------------------------
(***************************************************************************)
(* The server and the client of 8_protobuf over the codec.  A client sends *)
(* frames; the server dispatches each message by its type and answers      *)
(* every Query; the client's own codec takes the answers apart again.  The *)
(* two ends differ in what they do with a frame they cannot read: the      *)
(* client shuts its side down (the codec's default), the server only logs, *)
(* and the frame stays at the head of its buffer.                          *)
(***************************************************************************)
EXTENDS ProtobufCodec, MuduoConn

CONSTANTS Conn,       \* the connections, one client on each
          Frames,     \* the frames a client may send
          Growth,     \* bytes by which an Answer is longer than its Query
          Held,       \* bound: what a client may hold back of its last frame
          MaxFrames   \* bound: frames one client sends

ASSUME MaxFramesAssumption ==
  MaxFrames \in Nat /\ Growth \in Nat /\ Held \subseteq Nat

\* A client may send any lengths, also absurd ones.
ASSUME FramesAssumption ==
  \A f \in Frames : f \in [len : Int, sum : BOOLEAN, nameLen : Int,
                           type : {f.type}, parses : BOOLEAN]

\* query.proto is linked into the server.
ASSUME TypesAssumption == {"Query", "Answer"} \subseteq KnownTypes

VARIABLES
  conn,      \* conn[c]: the server's TcpConnection; its units are frames
  client,    \* client[c]: "up", "shut" once its write side is shut, or "gone"
  sent,      \* sent[c]: the frames client c has sent
  held,      \* held[c]: bytes that the last of them claims and c never sends
  got,       \* got[c]: bytes of them in the server's input buffer so far
  used,      \* used[c]: frames the server has retrieved
  errors,    \* connections whose error callback the server has called
  handled,   \* handled[c]: types of the messages dispatched (history)
  back,      \* back[c]: bytes of the answers in the client's input buffer
  answers    \* answers[c]: frames the client has retrieved

vars == <<conn, client, sent, held, got, used, errors, handled, back, answers>>

Init ==
  /\ conn = [c \in Conn |-> ConnectEstablished(Connecting)]
  /\ client = [c \in Conn |-> "up"]
  /\ sent = [c \in Conn |-> <<>>] /\ held = [c \in Conn |-> 0]
  /\ got = [c \in Conn |-> 0] /\ back = [c \in Conn |-> 0]
  /\ used = [c \in Conn |-> 0] /\ answers = [c \in Conn |-> 0]
  /\ errors = {}
  /\ handled = [c \in Conn |-> <<>>]

Gone(c) == client[c] = "gone"

\* the bytes client c has put on the wire
Put(c) == SizeOf(sent[c], Len(sent[c])) - held[c]
-----------------------------------------------------------------------------
(* The server.                                                             *)

\* registerMessageCallback: the types the server has a callback for
Callbacks == {"Query", "Answer"}

AnswerTo_BadSum(f) ==
  [FillEmptyBuffer("Answer", DataLen(f) + Growth) EXCEPT !.sum = FALSE]

\* The Answer repeats the Query and adds an answerer and " ok" to each question.
AnswerTo(f) == FillEmptyBuffer("Answer", DataLen(f) + Growth)

\* onQuery sends one Answer, of whatever length.
OnQuery(k, f, gone) == {o.conn : o \in Send(k, <<AnswerTo(f)>>, gone)}

OnProtobufMessage_AnswersAll(k, f, gone) == OnQuery(k, f, gone)

\* onProtobufMessage: onQuery answers, onAnswer and the default callback log.
OnProtobufMessage(k, f, gone) ==
  IF f.type \in Callbacks /\ f.type = "Query" THEN OnQuery(k, f, gone) ELSE {k}

\* What dispatching one message may make of one of the connections ks.
AfterMessage(ks, f, gone) == UNION {OnProtobufMessage(q, f, gone) : q \in ks}

\* What dispatching some messages may leave of a connection.
DispatchAll(k, frames, gone) ==
  LET after[i \in 0..Len(frames)] ==
        IF i = 0 THEN {k} ELSE AfterMessage(after[i - 1], frames[i], gone)
  IN  after[Len(frames)]

OnPbErrMessage_Skips(c, n) == n + 1

\* onPbErrMssage: the frame stays where it is.
OnPbErrMessage(c, n) == n

\* The codec's onMessage in the server, up to the g-th byte.
ServerOnMessage(c, g) ==
  LET n == LoopEnd(sent[c], g, used[c])
      frames == SubSeq(sent[c], used[c] + 1, n)
      refused == Refuses(sent[c], g, n)
  IN
  /\ conn[c].state = "kConnected"
  /\ got[c] < g /\ g <= Put(c)
  /\ got' = [got EXCEPT ![c] = g]
  /\ used' = [used EXCEPT ![c] = IF refused THEN OnPbErrMessage(c, n) ELSE n]
  /\ errors' = IF refused THEN errors \cup {c} ELSE errors
  /\ handled' = [handled EXCEPT ![c] = @ \o [i \in DOMAIN frames |-> frames[i].type]]
  /\ \E k \in DispatchAll(conn[c], frames, Gone(c)) :
       conn' = [conn EXCEPT ![c] = k]
  /\ UNCHANGED <<client, sent, held, back, answers>>

ServerWritable(c) ==
  /\ \E o \in HandleWrite(conn[c]) : conn' = [conn EXCEPT ![c] = o.conn]
  /\ UNCHANGED <<client, sent, held, got, used, errors, handled, back, answers>>

\* End-of-file comes after everything the client sent before its shutdown;
\* a client that is gone may have reset the connection.
ServerOnDown(c) ==
  /\ conn[c].state # "kDisconnected"
  /\ \/ client[c] = "gone"
     \/ client[c] = "shut" /\ got[c] = Put(c)
  /\ conn' = [conn EXCEPT ![c] = HandleClose(@)]
  /\ UNCHANGED <<client, sent, held, got, used, errors, handled, back, answers>>
-----------------------------------------------------------------------------
(* The client.                                                             *)

\* A client sends a frame, all but the last h bytes of what it claims; what
\* it sends afterwards, if anything, are more bytes of the same frame.  The
\* one of client.cc sends a whole Query when it is up.
ClientSend(c, f, h) ==
  /\ client[c] = "up" /\ Len(sent[c]) < MaxFrames /\ held[c] = 0
  /\ h < Size(f)
  /\ sent' = [sent EXCEPT ![c] = Append(@, f)]
  /\ held' = [held EXCEPT ![c] = h]
  /\ UNCHANGED <<conn, client, got, used, errors, handled, back, answers>>

\* The codec's default error callback: shut the connection down.
DefaultErrorCallback(s) == IF s = "up" THEN "shut" ELSE s

\* The codec's onMessage in the client: onAnswer only logs.
ClientOnMessage(c, g) ==
  LET n == LoopEnd(conn[c].wire, g, answers[c]) IN
  /\ ~Gone(c)
  /\ back[c] < g /\ g <= SizeOf(conn[c].wire, Len(conn[c].wire))
  /\ back' = [back EXCEPT ![c] = g]
  /\ answers' = [answers EXCEPT ![c] = n]
  /\ client' = [client EXCEPT ![c] =
                  IF Refuses(conn[c].wire, g, n) THEN DefaultErrorCallback(@) ELSE @]
  /\ UNCHANGED <<conn, sent, held, got, used, errors, handled>>

\* A client process may end at any time.
ClientExit(c) ==
  /\ ~Gone(c)
  /\ client' = [client EXCEPT ![c] = "gone"]
  /\ UNCHANGED <<conn, sent, held, got, used, errors, handled, back, answers>>

ServerReads(c) ==
  \E g \in 1..Put(c) : ServerOnMessage(c, g)
ClientReads(c) ==
  \E g \in 1..SizeOf(conn[c].wire, Len(conn[c].wire)) : ClientOnMessage(c, g)

Next == \E c \in Conn : \/ ServerReads(c) \/ ServerWritable(c) \/ ServerOnDown(c)
                        \/ ClientReads(c) \/ ClientExit(c)
                        \/ \E f \in Frames, h \in Held : ClientSend(c, f, h)

Spec == Init /\ [][Next]_vars

\* Both loops serve their ready sockets.
FairSpec == Spec /\ \A c \in Conn : /\ WF_vars(ServerReads(c))
                                    /\ WF_vars(ServerWritable(c))
                                    /\ WF_vars(ClientReads(c))
-----------------------------------------------------------------------------
(* Properties.                                                             *)

\* What the client sent is cut up the same way however it arrives: the
\* server has dispatched the readable frames that are complete, in order,
\* up to the first one it cannot read.
CutByContent ==
  \A c \in Conn :
    LET complete == {n \in 0..Len(sent[c]) : SizeOf(sent[c], n) <= got[c]}
        readable == {n \in complete : \A i \in 1..n : Verdict(sent[c][i]) = "kNoError"}
        most == CHOOSE n \in readable : \A m \in readable : m <= n
    IN  handled[c] = [i \in 1..most |-> sent[c][i].type]

\* The i-th frame of c was a Query and has been dispatched.
Asked(c) == {i \in DOMAIN handled[c] : handled[c][i] = "Query"}

\* The n-th of them, 0 if there are fewer.
NthAsked(c, n) ==
  LET asked == Kept([i \in DOMAIN handled[c] |-> i], Asked(c))
  IN  IF n <= Len(asked) THEN asked[n] ELSE 0

\* Whatever the mix of frames and however they are cut, the server sends one
\* Answer for each Query it dispatched and for nothing else, in order, and
\* loses one only with the conversation.
Queries == INSTANCE RequestReply WITH
  Client <- Conn,
  Request <- 1..MaxFrames,
  up <- {c \in Conn : client[c] = "up" /\ conn[c].state = "kConnected"},
  accepted <- [c \in Conn |-> Asked(c)],
  replies <- [c \in Conn |-> [n \in DOMAIN conn[c].wire |-> NthAsked(c, n)]]

AnswersQueries == Queries!Spec

\* The part of it that says what may happen, without what must.
QueriesSafety == Queries!Init /\ [][Queries!Next]_(Queries!vars)

\* A frame the server cannot read poisons the connection: nothing that
\* arrives after it is ever dispatched, while the connection stays open.
PoisonedForGood ==
  [][\A c \in errors : handled'[c] = handled[c] /\ used'[c] = used[c]]_vars

\* The client's codec takes the error path, and shuts the connection down,
\* only over an Answer beyond kMaxMessageLen, which send() does not check.
ClientRefusesOnlyTooLong ==
  \A c \in Conn : client[c] = "shut" =>
    \E i \in DOMAIN conn[c].wire : conn[c].wire[i].len > kMaxMessageLen

\* A client that stays reads an answer to each readable Query that it sent
\* to the end, if it sent nothing unreadable before and no answer outgrew
\* kMaxMessageLen.  A frame that claims more bytes than ever come keeps
\* nothing waiting that is in front of it.
QueryAnswered ==
  \A c \in Conn : \A n \in 1..MaxFrames :
    /\ n <= Len(sent[c]) /\ SizeOf(sent[c], n) <= Put(c)
    /\ \A i \in 1..n : LET f == sent[c][i] IN
         Verdict(f) = "kNoError" /\ f.type = "Query" /\ InRange(AnswerTo(f))
    ~> answers[c] >= n \/ Gone(c)
=============================================================================
