----------------------------- MODULE WriteCache -----------------------------
(***************************************************************************)
(* The write cache of CmuxTE (transport/cmux.py): send_raw() appends one   *)
(* frame under `lock' and writes the whole cache when the frame is shorter *)
(* than a full-size one or when CACHE_FRAMES frames have accumulated.  The *)
(* lock is held from the append to the end of the write, so a call is one  *)
(* step.  A frame is known by who sent it and by which bytes of which      *)
(* packet it carries; its bytes are not modelled, its length is.           *)
(***************************************************************************)
EXTENDS Integers, Sequences

CONSTANTS
    Source,         \* the threads that send, and Ctrl
    Ctrl,           \* source of frames that carry no packet data
    FrameSize,      \* CmuxTE.frame_size: N1 asked for, 0 for the default
    CacheFrames,    \* CACHE_FRAMES
    DeviceMayFail   \* bound: whether the serial device may go away

ASSUME CacheAssumption ==
    /\ Ctrl \in Source
    /\ FrameSize \in Nat
    /\ CacheFrames \in Nat \ {0}
    /\ DeviceMayFail \in BOOLEAN

VARIABLES
    cache,          \* _write_cache, as the sequence of frames in it
    cacheFrames,    \* _cache_frames
    portOk,         \* the serial device still accepts writes
    sent,           \* history: frames accepted by send_raw()
    wire            \* history: frames written to the port

cacheVars == <<cache, cacheFrames, portOk, sent, wire>>

(* A frame: bytes off .. off+len-1 of packet pkt of a source. *)
Frame == [src : Source, pkt : Nat, off : Nat, len : Nat]

Fifo == INSTANCE TxFifo

(* make_frame(): flag, address, control, length (1 or 2), FCS, flag. *)
WireSize(n) == n + (IF n > 127 THEN 7 ELSE 6)

N1 == IF FrameSize > 0 THEN FrameSize ELSE 127

FullFrameSize == WireSize(N1)

(* Mutant of FlushCache: the cache is not cleared after the write.          *)
FlushKeeps(c, n) ==
    /\ wire' = wire \o c
    /\ cache' = c /\ cacheFrames' = n
    /\ UNCHANGED portOk

(* _flush_cache_locked(): the cache is cleared only after write() and      *)
(* flush() have both returned; either may raise when the device goes away, *)
(* and then the frames stay in the cache.                                  *)
FlushCache(c, n) ==
    \/ /\ portOk
       /\ wire' = wire \o c
       /\ cache' = <<>> /\ cacheFrames' = 0
       /\ UNCHANGED portOk
    \/ /\ DeviceMayFail
       /\ wire' \in {wire} \union (IF portOk THEN {wire \o c} ELSE {})
       /\ cache' = c /\ cacheFrames' = n
       /\ portOk' = FALSE

(* Mutants of SendRaw: the length test dropped; a short frame written       *)
(* directly, past the cached ones.                                         *)
SendRawNoTail(f) ==
    LET c == Append(cache, f) IN
    /\ sent' = Append(sent, f)
    /\ IF cacheFrames + 1 >= CacheFrames
       THEN FlushCache(c, cacheFrames + 1)
       ELSE cache' = c /\ cacheFrames' = cacheFrames + 1 /\ UNCHANGED <<wire, portOk>>

SendRawOvertakes(f) ==
    /\ sent' = Append(sent, f)
    /\ IF WireSize(f.len) < FullFrameSize
       THEN /\ wire' = Append(wire, f)
            /\ UNCHANGED <<cache, cacheFrames, portOk>>
       ELSE /\ cache' = Append(cache, f) /\ cacheFrames' = cacheFrames + 1
            /\ UNCHANGED <<wire, portOk>>

SendRaw(f) ==
    LET c == Append(cache, f)
        n == cacheFrames + 1
    IN  /\ sent' = Append(sent, f)
        /\ IF WireSize(f.len) < FullFrameSize \/ n >= CacheFrames
           THEN FlushCache(c, n)
           ELSE cache' = c /\ cacheFrames' = n /\ UNCHANGED <<wire, portOk>>

CacheInit ==
    /\ cache = <<>> /\ cacheFrames = 0
    /\ portOk = TRUE
    /\ sent = <<>> /\ wire = <<>>

-----------------------------------------------------------------------------
CacheType ==
    /\ cache \in Seq(Frame) /\ sent \in Seq(Frame) /\ wire \in Seq(Frame)
    /\ cacheFrames \in Nat /\ portOk \in BOOLEAN

(* Everything accepted is on the wire or in the cache, in order, while the *)
(* device works; once it failed the wire is still a prefix of what was     *)
(* accepted.                                                               *)
CacheHoldsRest ==
    /\ portOk => sent = wire \o cache
    /\ wire = SubSeq(sent, 1, Len(wire)) /\ Len(wire) <= Len(sent)

(* Control frames and packet tails "must not be delayed" (send_raw()       *)
(* docstring): as long as the device works, only full-size frames are held *)
(* back, and fewer of them than CACHE_FRAMES.                              *)
OnlyFullFramesWait ==
    portOk => /\ cacheFrames = Len(cache) /\ Len(cache) < CacheFrames
              /\ \A i \in 1..Len(cache) : WireSize(cache[i].len) >= FullFrameSize
=============================================================================
