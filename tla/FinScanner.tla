----------------------------- MODULE FinScanner -----------------------------
(***************************************************************************)
(* How zproxy sees that its PS2 ends the battle (pkg/proto/fin.go): the    *)
(* end frame in a TCP stream whose reads may be cut anywhere.  A stream    *)
(* begins with the join and goes on with frames, which begin with their    *)
(* size.  The scanner is compared with the framing of the whole stream.    *)
(***************************************************************************)
EXTENDS Naturals, SequencesExt, FiniteSetsExt

CONSTANTS
  PS2JoinSize,  \* bytes of a join (22)
  Bytes,        \* the values of bytes that streams are made of
  MaxBytes      \* bound: bytes after the join

ASSUME FinAssumption ==
  Bytes \subseteq 0 .. 255 /\ PS2JoinSize \in Nat \ {0} /\ MaxBytes \in Nat \ {0}

FinFrame == <<4, 240, 0, 0>>

FinScanner == [joined |-> 0, frame |-> <<>>, lost |-> FALSE, fin |-> FALSE]

(* A byte of a read: it begins a frame or is the next of one, which it may *)
(* complete.  A frame of size zero cannot be stepped over.                 *)
Framed(s, byte) ==
  LET frame == Append(s.frame, byte)
  IN  IF s.lost \/ (s.frame = <<>> /\ byte = 0) THEN [s EXCEPT !.lost = TRUE]
      ELSE IF Len(frame) < frame[1] THEN [s EXCEPT !.frame = frame]
      ELSE [s EXCEPT !.frame = <<>>, !.fin = @ \/ frame = FinFrame]

(* Mutant of Scan: every read is taken to begin with a frame. *)
ScanByRead(s, data) ==
  IF s.joined < PS2JoinSize THEN [s EXCEPT !.joined = @ + Len(data)]
  ELSE IF s.lost THEN [s EXCEPT !.fin = data = FinFrame]
  ELSE FoldLeft(Framed, [s EXCEPT !.fin = FALSE, !.frame = <<>>], data)

(* Scan: reads are dropped until the join came; without framing only a     *)
(* read that is the end frame is trusted.                                  *)
Scan(s, data) ==
  IF s.joined < PS2JoinSize THEN [s EXCEPT !.joined = @ + Len(data)]
  ELSE IF s.lost THEN [s EXCEPT !.fin = data = FinFrame]
  ELSE FoldLeft(Framed, [s EXCEPT !.fin = FALSE], data)

-----------------------------------------------------------------------------
(* The reference: where frames begin in a stream without its join.         *)
Begins(stream) ==
  LET begins[i \in 1 .. Len(stream)] ==
        i = 1 \/ \E j \in 1 .. i - 1 : begins[j] /\ stream[j] # 0 /\ j + stream[j] = i
  IN  {i \in 1 .. Len(stream) : begins[i]}

(* Scanners that have read a join: in one read, with more bytes after it,  *)
(* or in two reads.                                                        *)
JoinBytes(n) == [i \in 1 .. n |-> 130]
Joined ==
  LET read(n) == Scan(FinScanner, JoinBytes(n))
  IN  {read(PS2JoinSize), read(PS2JoinSize + 1)}
        \cup {Scan(read(n), JoinBytes(PS2JoinSize - n)) : n \in 1 .. PS2JoinSize - 1}

(* What is said of a read of the bytes from .. to of the stream, less the  *)
(* join.  Either an end frame ends in it; or framing was lost before, and  *)
(* it is that frame.                                                       *)
HoldsFin(stream, from, to) ==
  LET starts == Begins(stream)
  IN  \/ \E i \in starts : /\ i + 3 \in from .. to
                           /\ SubSeq(stream, i, i + 3) = FinFrame
      \/ /\ \E i \in starts : i < from /\ stream[i] = 0
         /\ SubSeq(stream, from, to) = FinFrame

(* Wherever the stream is cut into reads, each end frame is reported once, *)
(* in the read that completes it, and nothing else is while framing lasts: *)
(* neither the bytes of an end frame inside another frame, nor a part of   *)
(* one.  A battle does not end early, nor goes on for ever.                *)
FinsFound ==
  \A stream \in [1 .. MaxBytes -> Bytes], cuts \in SUBSET (1 .. MaxBytes - 1), joined \in Joined :
    LET ends == cuts \cup {MaxBytes}
        from(k) == Max({0} \cup {e \in ends : e < k}) + 1
        scanned[k \in 0 .. MaxBytes] ==
          IF k = 0 THEN joined
          ELSE Scan(scanned[from(k) - 1], SubSeq(stream, from(k), k))
    IN  ~ joined.fin /\ \A k \in ends : scanned[k].fin <=> HoldsFin(stream, from(k), k)
=============================================================================
