----------------------------- MODULE FramePath ------------------------------
(***************************************************************************)
(* What becomes of a message between the writers of one end of the serial  *)
(* line and the readers of the other: PPP frames cut into the frames of    *)
(* the multiplexer, the line, which may damage a byte, FrameParser, the    *)
(* routing of CmuxHarness._handle_frame(), PppParser and the AT channel    *)
(* with the console that waits for an answer.                              *)
(*                                                                         *)
(* "rx": modem to host over the multiplexer. "serial": the same without    *)
(* it. "tx": host to peer, where two threads send on one channel; the peer *)
(* is external and taken to parse as the host does.                        *)
(***************************************************************************)
EXTENDS PppFrames

CONSTANTS
    Ways,           \* the scenarios to look at
    N1,             \* information bytes of a frame (frame_size)
    Packets,        \* PPP packets to send, each with the form of its frame
    Texts,          \* pieces of answers, sequences of bytes
    FcsValues,      \* values a frame's checksum may have
    Noise,          \* what a damaged byte may turn into
    MaxSends,       \* bound: packets and texts sent
    MaxFaults,      \* bound: bytes damaged or lost, chunks dropped
    MaxLead,        \* bound: bytes not read yet when the next chunk is written
    MaxSplits,      \* bound: reads that find a part of what was written
    MaxCommands     \* bound: AT commands

Way == [dir : {"rx", "tx", "serial"}, ppp : BOOLEAN]
AtDlci == 1
PppDlci == 2
Control == 15

(* A protocol sent in one byte is 0x21: odd, and no address field (0xFF).  *)
Sendable(p) ==
    /\ p.packet \in [proto : Byte, info : Seq(PlainByte)]
    /\ p.compressed => p.packet.proto % 2 = 1 /\ p.packet.proto # PppAddr

(* A length fits its two bytes; no address of a channel in use is the flag *)
(* (0xF9 would be DLCI 62).                                                *)
ASSUME PathAssumption ==
    /\ Ways \subseteq Way
    /\ LenBase >= 8 /\ Flag # Val(Address(AtDlci, 0)) /\ Flag # Val(Address(PppDlci, 0))
    /\ N1 \in Nat \ {0} /\ N1 < 2 * LenBase * LenBase
    /\ \A p \in Packets : Sendable(p)
    /\ \A t \in Texts : t \in Seq(Byte) /\ Len(t) \in 1 .. N1
    /\ FcsValues \subseteq Byte /\ Noise \subseteq Byte
    /\ {MaxSends, MaxFaults, MaxLead, MaxSplits, MaxCommands} \subseteq Nat

VARIABLES
    way,            \* SharedState.mode, and ppp_running
    running,        \* CmuxHarness._running, with the AT channels created
    left,           \* bytes of its PPP frame that a thread has yet to send
    wire,           \* bytes sent and not read
    buf, queue,     \* FrameParser: buffer, and frames not dispatched
    ppp,            \* PppParser.buffer
    at,             \* AtChannel: response buffer and event
    console,        \* the console: "idle", or in read_all()
    sends, faults, splits, commands,
    sent, got       \* history: frames, packets and text at either end

vars == <<way, running, left, wire, buf, queue, ppp, at, console,
          sends, faults, splits, commands, sent, got>>

Writer == {"one", "two"}

Init ==
    /\ way \in Ways
    /\ running = (way.dir = "tx")
    /\ left = [w \in Writer |-> <<>>]
    /\ wire = <<>> /\ buf = <<>> /\ queue = <<>> /\ ppp = <<>>
    /\ at = [buffer |-> <<>>, event |-> FALSE]
    /\ console = "idle"
    /\ sends = 0 /\ faults = 0 /\ splits = 0 /\ commands = 0
    /\ sent = [frames |-> <<>>, packets |-> <<>>, mixed |-> FALSE]
    /\ got = [frames |-> <<>>, packets |-> <<>>, fed |-> <<>>, told |-> <<>>, mark |-> 0]

-----------------------------------------------------------------------------
(* External: the line loses a byte or changes one.                         *)
Damaged(bytes) ==
    {RemoveAt(bytes, i) : i \in DOMAIN bytes}
    \union {ReplaceAt(bytes, i, Plain(v)) : i \in DOMAIN bytes, v \in Noise}

OnWire(bytes) ==
    \/ wire' = wire \o bytes /\ UNCHANGED faults
    \/ /\ faults < MaxFaults /\ faults' = faults + 1
       /\ wire' \in {wire \o b : b \in Damaged(bytes)}

Room == Len(wire) <= MaxLead

(* send_uih(), with the C/R bit set by the host.                           *)
Uih(dlci, info) ==
    \E v \in FcsValues :
        OnWire(MakeFrame(dlci, IF way.dir = "tx" THEN 1 ELSE 0, Control, info, v))

Header(dlci, info) == [dlci |-> dlci, len |-> Len(info)]

(* The loop of _send_ppp(): a chunk of at most frame_max bytes is sent and *)
(* the offset moves on, whether or not send() dropped it for the modem's   *)
(* flow control. In serial mode the frame goes out in one write().         *)
SendChunk(w, bytes, packets, mixed) ==
    LET n == IF Len(bytes) < N1 THEN Len(bytes) ELSE N1
        chunk == SubSeq(bytes, 1, n)
    IN  IF way.dir = "serial"
        THEN /\ OnWire(bytes)
             /\ sent' = [sent EXCEPT !.packets = packets]
             /\ UNCHANGED left
        ELSE /\ left' = [left EXCEPT ![w] = SubSeq(bytes, n + 1, Len(bytes))]
             /\ \/ /\ Uih(PppDlci, chunk)
                   /\ sent' = [sent EXCEPT !.packets = packets, !.mixed = mixed,
                                           !.frames = Append(@, Header(PppDlci, chunk))]
                \/ /\ way.dir = "tx"
                   /\ faults < MaxFaults /\ faults' = faults + 1
                   /\ sent' = [sent EXCEPT !.packets = packets, !.mixed = mixed]
                   /\ UNCHANGED wire

Unread == UNCHANGED <<way, running, buf, queue, ppp, at, console, splits, commands, got>>

(* _send_ppp() up to its first chunk. Only the host has two threads that   *)
(* send, the engine and the forwarder. PPP is dialed after start().        *)
SendPacket(w) ==
    /\ way.ppp /\ running /\ sends < MaxSends /\ Room
    /\ w = "two" => way.dir = "tx"
    /\ left[w] = <<>>
    /\ \E p \in Packets :
           SendChunk(w, MakePppFrame(p.packet, p.compressed), Append(sent.packets, p.packet),
                     sent.mixed \/ \E o \in Writer : left[o] # <<>>)
    /\ sends' = sends + 1
    /\ Unread

NextChunk(w) ==
    /\ left[w] # <<>> /\ Room
    /\ SendChunk(w, left[w], sent.packets, sent.mixed)
    /\ UNCHANGED sends
    /\ Unread

(* External: the modem writes a piece of an answer, or a text of its own.  *)
ModemText ==
    /\ way.dir # "tx" /\ sends < MaxSends /\ Room
    /\ \E t \in Texts :
        LET info == [i \in DOMAIN t |-> Plain(t[i])] IN
        IF way.dir = "serial"
        THEN OnWire(info) /\ UNCHANGED sent
        ELSE /\ Uih(AtDlci, info)
             /\ sent' = [sent EXCEPT !.frames = Append(@, Header(AtDlci, info))]
    /\ sends' = sends + 1
    /\ UNCHANGED left
    /\ Unread

-----------------------------------------------------------------------------
(* CmuxHarness.start() after start_reader(): the services are registered   *)
(* and the AT channels created while the reader reads already.             *)
Register ==
    /\ ~running
    /\ running' = TRUE
    /\ UNCHANGED <<way, left, wire, buf, queue, ppp, at, console,
                   sends, faults, splits, commands, sent, got>>

(* _reader_loop(): it reads what has arrived and feeds the parser; without *)
(* a multiplexer the bytes are passed on as they are.                      *)
Read ==
    /\ queue = <<>>
    /\ \E n \in 1 .. Len(wire) :
        LET raw == SubSeq(wire, 1, n)
            parsed == Parse(buf \o raw)
            frames == parsed.frames
        IN  /\ n < Len(wire) => splits < MaxSplits
            /\ splits' = splits + IF n < Len(wire) THEN 1 ELSE 0
            /\ wire' = SubSeq(wire, n + 1, Len(wire))
            /\ IF way.dir = "serial"
               THEN /\ queue' = <<[dlci |-> 0, info |-> raw]>>
                    /\ UNCHANGED <<buf, got>>
               ELSE /\ buf' = parsed.buffer
                    /\ queue' = frames
                    /\ got' = [got EXCEPT !.frames = @ \o
                           [i \in DOMAIN frames |-> Header(frames[i].dlci, frames[i].info)]]
    /\ UNCHANGED <<way, running, left, ppp, at, console, sends, faults, commands, sent>>

ToPpp(dlci) == way.ppp /\ (way.dir = "serial" \/ dlci = PppDlci)
ToAt(dlci) == ~ToPpp(dlci) /\ (way.dir = "serial" \/ dlci = AtDlci)

(* PppService.feed()                                                       *)
FeedPpp(info) ==
    LET parsed == PppParse(ppp \o info) IN
    /\ ppp' = parsed.buffer
    /\ got' = [got EXCEPT !.packets = @ \o parsed.packets]
    /\ UNCHANGED at

(* AtChannel.feed_response(), under its lock.                              *)
FeedAt(info) ==
    /\ at' = [buffer |-> at.buffer \o info, event |-> TRUE]
    /\ got' = [got EXCEPT !.fed = @ \o info]
    /\ UNCHANGED ppp

(* _handle_frame()                                                         *)
Dispatch ==
    /\ queue # <<>>
    /\ LET f == Head(queue) IN
       IF ~running \/ f.info = <<>> \/ ~(ToPpp(f.dlci) \/ ToAt(f.dlci))
       THEN UNCHANGED <<ppp, at, got>>
       ELSE IF ToPpp(f.dlci) THEN FeedPpp(f.info) ELSE FeedAt(f.info)
    /\ queue' = Tail(queue)
    /\ UNCHANGED <<way, running, left, wire, buf, console, sends, faults,
                   splits, commands, sent>>

-----------------------------------------------------------------------------
(* dispatch() of an AT command: in serial mode the channel is cleared      *)
(* first; then the console waits in read_all().                            *)
Command ==
    /\ console = "idle" /\ running /\ commands < MaxCommands
    /\ way.dir # "tx" /\ (way.dir = "serial" => ~way.ppp)
    /\ IF way.dir = "serial"
       THEN /\ at' = [buffer |-> <<>>, event |-> FALSE]
            /\ got' = [got EXCEPT !.told = @ \o at.buffer, !.mark = Len(got.fed)]
       ELSE UNCHANGED <<at, got>>
    /\ console' = "reading"
    /\ commands' = commands + 1
    /\ UNCHANGED <<way, running, left, wire, buf, queue, ppp, sends, faults, splits, sent>>

(* The event is set: what is there is taken, and the deadline put off.     *)
(* Mutant: it is copied and stays in the buffer.                           *)
TakeCopies ==
    /\ console = "reading" /\ at.event
    /\ at' = [at EXCEPT !.event = FALSE]
    /\ got' = [got EXCEPT !.told = @ \o at.buffer]
    /\ UNCHANGED <<way, running, left, wire, buf, queue, ppp, console,
                   sends, faults, splits, commands, sent>>

Take ==
    /\ console = "reading" /\ at.event
    /\ at' = [buffer |-> <<>>, event |-> FALSE]
    /\ got' = [got EXCEPT !.told = @ \o at.buffer]
    /\ UNCHANGED <<way, running, left, wire, buf, queue, ppp, console,
                   sends, faults, splits, commands, sent>>

(* The deadline passes, whatever has come by then.                         *)
Answered ==
    /\ console = "reading"
    /\ console' = "idle"
    /\ UNCHANGED <<way, running, left, wire, buf, queue, ppp, at,
                   sends, faults, splits, commands, sent, got>>

-----------------------------------------------------------------------------
Next ==
    \/ \E w \in Writer : SendPacket(w) \/ NextChunk(w)
    \/ ModemText
    \/ Register \/ Read \/ Dispatch
    \/ Command \/ Take \/ Answered

Spec == Init /\ [][Next]_vars

-----------------------------------------------------------------------------
(* Buffers and queues hold bytes; a PPP buffer that is not empty begins    *)
(* with a flag, and a thread has bytes left only of a frame of several     *)
(* chunks (PppParser._parse(), _send_ppp()).                               *)
IsBytes(s) == \A i \in DOMAIN s : Val(s[i]) \in Byte

TypeOK ==
    /\ way \in Ways /\ running \in BOOLEAN /\ console \in {"idle", "reading"}
    /\ \A s \in {wire, buf, ppp, at.buffer, left["one"], left["two"]} : IsBytes(s)
    /\ \A i \in DOMAIN queue : queue[i].dlci \in Byte /\ IsBytes(queue[i].info)
    /\ at.event \in BOOLEAN
    /\ ppp # <<>> => ppp[1] = Plain(PppFlag)
    /\ \A w \in Writer : left[w] # <<>> => way.dir # "serial"
    /\ sends \in 0 .. MaxSends /\ faults \in 0 .. MaxFaults /\ commands \in 0 .. MaxCommands
    /\ splits \in 0 .. MaxSplits

(* However the bytes arrive, a line that damages none delivers every frame *)
(* in order and unaltered, and every packet as well unless two threads of  *)
(* the host sent at once (FrameParser and PppParser over every split of    *)
(* the input; make_frame() on both sides of the one-byte length).          *)
Idle == wire = <<>> /\ queue = <<>> /\ \A w \in Writer : left[w] = <<>>

CleanLineKeepsAll ==
    faults = 0 /\ Idle =>
        /\ got.frames = sent.frames
        /\ ~sent.mixed => got.packets = sent.packets

(* One damaged byte costs frames that follow each other: once the parser   *)
(* has found a frame again it misses none, and it does not come out of     *)
(* step a second time (resynchronisation in FrameParser._parse()).         *)
OneGapPerFault ==
    LET g == got.frames
        s == sent.frames
    IN  faults <= 1 =>
        \E i, j \in 0 .. Len(s) :
            /\ i <= Len(g) /\ j + Len(g) - i <= Len(s)
            /\ SubSeq(g, 1, i) = SubSeq(s, 1, i)
            /\ SubSeq(g, i + 1, Len(g)) = SubSeq(s, j + 1, j + Len(g) - i)

(* The reader and the console share the AT channel: every byte fed to it   *)
(* is told once and in order, or is still there with the event set; and    *)
(* in serial mode an answer holds nothing that came before its command     *)
(* (feed_response(), read_all(), clear_buffer()).                          *)
AnswersKept ==
    /\ got.fed = got.told \o at.buffer
    /\ at.event <=> at.buffer # <<>>
    /\ console = "reading" => Len(got.told) >= got.mark

(* The frames the parser yields are those of a lossy FIFO: channel and     *)
(* length are as sent, whatever byte was damaged (FrameParser._parse()).   *)
Frames == INSTANCE LossyFifo WITH sent <- sent.frames, got <- got.frames
FramesKept == Frames!Spec

(* So are the PPP packets: no mixture of two threads' chunks, no hole left *)
(* by a dropped chunk and no damage that the multiplexer's checksum does   *)
(* not cover makes a packet that was not sent (PppParser._parse()).        *)
Packages == INSTANCE LossyFifo WITH sent <- sent.packets, got <- got.packets
PacketsKept == Packages!Spec
=============================================================================
