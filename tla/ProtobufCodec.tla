---------------------------- MODULE ProtobufCodec ----------------------------
(***************************************************************************)
(* The length-prefixed protobuf codec of 8_protobuf/codec.cc.  On the wire *)
(* a message is                                                            *)
(*     len | nameLen | typeName NUL | data | checkSum                      *)
(* where len counts everything after itself.  A frame stands for those     *)
(* bytes by what the receiver looks at: its two lengths, whether the       *)
(* checksum fits, which type the name denotes, and whether the data parse. *)
(* A definition with a suffix is a seeded fault of the one that follows.   *)
(***************************************************************************)
EXTENDS Integers, Sequences, ListOps

CONSTANTS kHeaderLen,       \* sizeof(int32_t)
          kMaxMessageLen,
          KnownTypes,       \* the messages linked into the program
          NameSize          \* NameSize[t]: length of the name of type t

ASSUME CodecAssumption ==
  /\ kHeaderLen \in Nat \ {0} /\ kMaxMessageLen \in Nat
  /\ NameSize \in [KnownTypes -> Nat \ {0}]

\* nameLen, an empty name with its NUL and one more byte, checkSum
kMinMessageLen == 2 * kHeaderLen + 2

Frame(len, sum, nameLen, type, parses) ==
  [len |-> len, sum |-> sum, nameLen |-> nameLen, type |-> type, parses |-> parses]

\* Encode a message of the type with byteSize bytes of data.
FillEmptyBuffer(type, byteSize) ==
  LET nameLen == NameSize[type] + 1 IN
  Frame(kHeaderLen + nameLen + byteSize + kHeaderLen, TRUE, nameLen, type, TRUE)

\* The bytes of data in a frame that parses.
DataLen(f) == f.len - f.nameLen - 2 * kHeaderLen

\* The length the loop of onMessage believes.
InRange(f) == f.len <= kMaxMessageLen /\ f.len >= kMinMessageLen

\* The bytes a frame takes up.  With a length out of range there is no
\* telling; the sender has then sent at least what the receiver waits for.
Size(f) == kHeaderLen + (IF InRange(f) THEN f.len ELSE kMinMessageLen)

\* parse(): the first check that fails gives the error.
Parse(f) ==
  IF ~f.sum THEN "kCheckSumError"
  ELSE IF ~(f.nameLen >= 2 /\ f.nameLen <= f.len - 2 * kHeaderLen)
       THEN "kInvalidNameLen"
  ELSE IF f.type \notin KnownTypes THEN "kUnknownMessageType"
  ELSE IF ~f.parses THEN "kParseError" ELSE "kNoError"

\* What onMessage makes of a whole frame at the head of the buffer.
Verdict(f) == IF InRange(f) THEN Parse(f) ELSE "kInvalidLength"
-----------------------------------------------------------------------------
(* The loop of onMessage.  A connection's input is a sequence of frames of *)
(* which g bytes have arrived and n frames have been retrieved.            *)

SizeOf(frames, n) == AddUp([i \in 1..n |-> Size(frames[i])])

Readable(frames, g, n) == g - SizeOf(frames, n)

Waits_ForOneMore(frames, g, n) ==
  \/ Readable(frames, g, n) < kMinMessageLen + kHeaderLen
  \/ /\ InRange(frames[n + 1])
     /\ Readable(frames, g, n) <= frames[n + 1].len + kHeaderLen

\* Not enough bytes for the frame at the head: the loop waits for more.
Waits(frames, g, n) ==
  \/ Readable(frames, g, n) < kMinMessageLen + kHeaderLen
  \/ /\ InRange(frames[n + 1])
     /\ Readable(frames, g, n) < frames[n + 1].len + kHeaderLen

\* The head of the buffer is refused; the loop leaves it there.
Refuses(frames, g, n) ==
  ~Waits(frames, g, n) /\ Verdict(frames[n + 1]) # "kNoError"

\* The number of frames retrieved when the loop that began after n ends.
LoopEnd(frames, g, n) ==
  CHOOSE m \in n..Len(frames) :
    /\ Waits(frames, g, m) \/ Refuses(frames, g, m)
    /\ \A i \in n..(m - 1) : ~Waits(frames, g, i) /\ ~Refuses(frames, g, i)
=============================================================================
