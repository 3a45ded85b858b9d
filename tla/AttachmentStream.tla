---------------------------- MODULE AttachmentStream ----------------------------
(***************************************************************************)
(* An attachment's way through the two streams of attachmentCrypto.ts: it   *)
(* is encrypted chunk by chunk as a reader delivers it in pieces of any     *)
(* size, stored, and decrypted frame by frame.  The stored copy may lose    *)
(* its tail or have frames moved, repeated or missing, the damage           *)
(* attachmentCryptoCore.ts binds each frame to its place against.           *)
(* Bytes are their positions: a frame holds [from, to) of the file.         *)
(***************************************************************************)
EXTENDS Naturals, Sequences, SequencesExt

CONSTANTS
    CHUNK_SIZE,    \* plaintext bytes per chunk, 1 MiB in the code
    HEADER_BYTES,  \* 9 in the code
    MaxSize        \* bound: the size of a file

VARIABLES
    file,   \* [size, legacy]: legacy files were stored as they are
    enc,    \* encryptFileToTemp: [pc, read, out], bytes delivered and emitted
    frames, \* the frames of the stored copy
    hurt,   \* what happened to the stored copy: cut in its header, after a frame
            \* (or in the next one's length), in a frame, or its frames disordered
    dec     \* decryptFileToTemp: [pc, index, out], out the frames written

vars == <<file, enc, frames, hurt, dec>>

Init ==
    /\ file \in [size : 0..MaxSize, legacy : BOOLEAN]
    /\ enc = [pc |-> IF file.legacy THEN "stored" ELSE "reading", read |-> 0, out |-> 0]
    /\ frames = <<>> /\ hurt = "no"
    /\ dec = [pc |-> "no", index |-> 0, out |-> <<>>]

encryptChunk(from, to, index, isLast) ==
    [from |-> from, to |-> to, index |-> index, last |-> isLast]

\* Mistake: a full buffer is emitted though nothing may follow it.
eager(q) == q \div CHUNK_SIZE

\* Chunks that can be emitted from q queued bytes: more data must follow each.
emitted(q) == IF q = 0 THEN 0 ELSE (q - 1) \div CHUNK_SIZE

\* A piece is read, and what it completes is written.
Read ==
    /\ enc.pc = "reading"
    /\ \E n \in 1..(file.size - enc.read) :
           LET k == emitted(enc.read + n - enc.out)
               chunk(i) == encryptChunk(enc.out + (i - 1) * CHUNK_SIZE, enc.out + i * CHUNK_SIZE,
                                        Len(frames) + i - 1, FALSE)
           IN  /\ frames' = frames \o [i \in 1..k |-> chunk(i)]
               /\ enc' = [enc EXCEPT !.read = @ + n, !.out = @ + k * CHUNK_SIZE]
    /\ UNCHANGED <<file, hurt, dec>>

\* The tail, which may be empty, is the final chunk.
WriteTail ==
    /\ enc.pc = "reading" /\ enc.read = file.size
    /\ frames' = Append(frames, encryptChunk(enc.out, file.size, Len(frames), TRUE))
    /\ enc' = [enc EXCEPT !.pc = "stored", !.out = file.size]
    /\ UNCHANGED <<file, hurt, dec>>

Move(s, i, j) == InsertAt(RemoveAt(s, i), j, s[i])

\* The copy that is downloaded is not always the one that was made.
Damage ==
    /\ enc.pc = "stored" /\ ~file.legacy /\ hurt = "no" /\ dec.pc = "no"
    /\ \/ hurt' = "header" /\ frames' = <<>>
       \/ \E k \in 0..(Len(frames) - 1) :
              /\ frames' = SubSeq(frames, 1, k)
              /\ hurt' \in {"afterFrame", "inFrame"}
       \/ \E i \in DOMAIN frames :
              /\ frames' \in {RemoveAt(frames, i), InsertAt(frames, i, frames[i])}
                             \cup {Move(frames, i, j) : j \in DOMAIN frames}
              /\ hurt' = "disordered"
    /\ UNCHANGED <<file, enc, dec>>

-------------------------------------------------------------------------------
(* decryptFileToTemp *)

\* Nothing is encrypted before a header; a file too short for one is refused.
ReadHeader ==
    /\ enc.pc = "stored" /\ dec.pc = "no"
    /\ dec' = IF file.legacy
              THEN IF file.size < HEADER_BYTES THEN [dec EXCEPT !.pc = "failed"]
                   ELSE [dec EXCEPT !.pc = "done", !.out = <<[from |-> 0, to |-> file.size]>>]
              ELSE [dec EXCEPT !.pc = IF hurt = "header" THEN "failed" ELSE "frames"]
    /\ UNCHANGED <<file, enc, frames, hurt>>

\* Mistake: a frame is not bound to its place.
anyPlace(f, index) == TRUE

\* One of "not final" and "final" authenticates, if the frame is in its place.
decryptChunk(f, index) == f.index = index

ReadFrame ==
    /\ dec.pc = "frames" /\ dec.index < Len(frames)
    /\ LET f == frames[dec.index + 1]
       IN  dec' = IF decryptChunk(f, dec.index)
                  THEN [dec EXCEPT !.index = @ + 1, !.out = Append(@, [from |-> f.from, to |-> f.to])]
                  ELSE [dec EXCEPT !.pc = "failed", !.out = <<>>]
    /\ UNCHANGED <<file, enc, frames, hurt>>

\* The stream ends where a frame would begin, or within one.
FileEnds ==
    /\ dec.pc = "frames" /\ dec.index = Len(frames)
    /\ dec' = IF hurt = "inFrame" THEN [dec EXCEPT !.pc = "failed", !.out = <<>>]
              ELSE [dec EXCEPT !.pc = "done"]
    /\ UNCHANGED <<file, enc, frames, hurt>>

Next == Read \/ WriteTail \/ Damage \/ ReadHeader \/ ReadFrame \/ FileEnds

-------------------------------------------------------------------------------

Whole(s) ==
    /\ s # <<>> => s[1].from = 0 /\ s[Len(s)].to = file.size
    /\ s = <<>> => file.size = 0
    /\ \A i \in 1..(Len(s) - 1) : s[i].to = s[i + 1].from

encryptedSizeFor(size) == IF size = 0 THEN 1 ELSE (size + CHUNK_SIZE - 1) \div CHUNK_SIZE

\* Whatever the pieces the reader delivers, the encrypted copy has the number of
\* frames the upload was announced with, and what is opened is the whole file in
\* its order, unless the copy ends after a complete frame that is not the last.
OpensWhole ==
    /\ enc.pc = "stored" /\ ~file.legacy /\ hurt = "no" => Len(frames) = encryptedSizeFor(file.size)
    /\ dec.pc = "done" => Whole(dec.out) \/ frames = <<>> \/ ~frames[Len(frames)].last
===============================================================================
