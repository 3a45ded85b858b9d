------------------------------ MODULE DevicePartsProofs ------------------------------
(***************************************************************************)
(* The parts of MCParts that run on the device, for every value of the     *)
(* constants.  A section is about one part: its variables are v1, v2, ...  *)
(* in the order in which MCParts gives them to the part's module.          *)
(***************************************************************************)
EXTENDS MCParts, TLAPS, SequenceTheorems, WellFoundedInduction, FiniteSetTheorems, FunctionTheorems

allVars == <<part, v1, v2, v3, v4, v5, v6, v7, v8, v9, v10, more, past>>

\* Of a set of numbers one is the least.
LEMMA Least ==
    ASSUME NEW T, T \subseteq Nat, T # {}
    PROVE  \E x \in T : \A y \in T : x <= y
<1> DEFINE R == {ss \in Nat \X Nat : ss[1] < ss[2]}
<1>1. IsWellFoundedOn(R, Nat)
    BY NatLessThanWellFounded DEF OpToRel
<1>2. \A x, y \in Nat : <<y, x>> \in R <=> y < x
    OBVIOUS
<1> HIDE DEF R
<1>3. PICK x \in T : \A y \in T : <<y, x>> \notin R
    BY <1>1, WFMin
<1>4. \A y \in T : ~(y < x)
    BY <1>2, <1>3
<1> QED
    BY <1>3, <1>4

-------------------------------------------------------------------------------
(* The ciphertext: v1 is the kind of the record, v2 the server's, v3 the     *)
(* devices' copies, v4 the updates that wait, v5 their pushes, v6 the pages  *)
(* that were read, v7 who has the key, v8 the time of the last save.         *)

SealTexts   == [says : 0..3, coats : Nat]
SealNames   == {[says |-> 0, coats |-> 0], [says |-> 0, coats |-> 1]}
SealRecords == [body : SealTexts, file : SealNames, enc : BOOLEAN, at : Nat]
SealUpdates == [body : SealTexts \cup {Nil}, file : SealNames \cup {Nil}, enc : BOOLEAN, at : Nat]
SealPushes  == [pc : {"get", "put"}, item : SealUpdates]

SealTypes ==
    /\ v1 \in {"note", "event"} /\ v2 \in SealRecords /\ v3 \in [Devices -> SealRecords]
    /\ v4 \in [Devices -> SealUpdates \cup {Nil}]
    /\ v5 \in [Devices -> SealPushes \cup {Seal!Idle}]
    /\ v6 \in [Devices -> SealRecords \cup {Nil}]
    /\ v7 \in [Devices -> BOOLEAN] /\ v8 \in Nat

\* Below s is the server's record and h the history in `past'.  A placeholder takes
\* the place of a text only after a bare one.
SealRead(t, h) == t.says = 3 => \E n \in 0..3 : <<"bare", n>> \in h

\* A record the server has had: as SealHolds says it.
SealServed(r, s, h) ==
    /\ SealRead(r.body, h)
    /\ r.enc /\ r.body.coats = 0 => <<"bare", r.body.says>> \in h
    /\ r.body.coats > 1 => <<"shown", r.body.says>> \in h
    /\ ~r.enc => r.body.coats = 0 /\ r.file.coats = 0
    /\ r.enc => s.enc

\* A copy: what is encrypted in it comes from a record that is marked.
SealCopied(c, s, h) ==
    /\ SealRead(c.body, h)
    /\ c.body.coats > 0 => s.enc /\ (c.enc \/ <<"shown", c.body.says>> \in h)
    /\ c.file.coats > 0 => s.enc

\* An update that waits, and one that is sent.
SealWaits(q, s, h) ==
    /\ q.body # Nil => SealRead(q.body, h) /\ (q.body.coats > 0 => s.enc /\ <<"shown", q.body.says>> \in h)
    /\ q.file # Nil => (q.file.coats > 0 => s.enc)
    /\ q.body = Nil => q.file = Nil /\ ~q.enc

SealSent(p, s, h) ==
    /\ p.body # Nil => /\ SealRead(p.body, h)
                       /\ p.body.coats = 0 => <<"bare", p.body.says>> \in h
                       /\ p.body.coats > 1 => <<"shown", p.body.says>> \in h
                       /\ p.body.coats > 0 => p.enc \/ s.enc
    /\ p.file # Nil => (p.file.coats > 0 => p.enc \/ s.enc)
    /\ p.body = Nil => ~p.enc

SealInv ==
    /\ SealTypes
    /\ SealServed(v2, v2, past)
    /\ \A d \in Devices : /\ SealCopied(v3[d], v2, past)
                          /\ v4[d] # Nil => SealWaits(v4[d], v2, past)
                          /\ v5[d] # Seal!Idle => SealSent(v5[d].item, v2, past)
                          /\ v6[d] # Nil => SealServed(v6[d], v2, past)

LEMMA SealSteps ==
    ASSUME [Next]_allVars, part = "ciphertext"
    PROVE  part' = "ciphertext" /\ (Seal!Next \/ UNCHANGED <<v1, v2, v3, v4, v5, v6, v7, v8, past>>)
BY DEF Next, allVars

\* What has been sent without the key or shown as ciphertext stays so, and a record
\* that is marked stays marked.
LEMMA SealGrows ==
    ASSUME NEW s, NEW t, s.enc => t.enc, NEW g, NEW h, g \subseteq h, NEW x
    PROVE  /\ SealServed(x, s, g) => SealServed(x, t, h)
           /\ SealCopied(x, s, g) => SealCopied(x, t, h)
           /\ SealWaits(x, s, g) => SealWaits(x, t, h)
           /\ SealSent(x, s, g) => SealSent(x, t, h)
<1>1. \A y : SealRead(y, g) => SealRead(y, h)
    BY DEF SealRead
<1>2. SealServed(x, s, g) => SealServed(x, t, h)
    BY <1>1 DEF SealServed
<1>3. SealCopied(x, s, g) => SealCopied(x, t, h)
    BY <1>1 DEF SealCopied
<1>4. SealWaits(x, s, g) => SealWaits(x, t, h)
    BY <1>1 DEF SealWaits
<1>5. SealSent(x, s, g) => SealSent(x, t, h)
    BY <1>1 DEF SealSent
<1> QED
    BY <1>2, <1>3, <1>4, <1>5

\* The ciphers on one text.
LEMMA SealCipher ==
    ASSUME NEW t \in SealTexts
    PROVE  /\ Seal!encryptString(t) \in SealTexts /\ Seal!encryptString(t).says = t.says
           /\ Seal!encryptString(t).coats = t.coats + 1
           /\ t.coats > 0 => /\ Seal!tryDecrypt(t) \in SealTexts /\ Seal!tryDecrypt(t).says = t.says
                             /\ Seal!tryDecrypt(t).coats = t.coats - 1
           /\ t.coats = 0 => /\ Seal!tryDecrypt(t) \in SealTexts /\ Seal!tryDecrypt(t).says = 3
                             /\ Seal!tryDecrypt(t).coats = 0
<1>1. \A n \in Nat : LET u == [t EXCEPT !.coats = n] IN u \in SealTexts /\ u.says = t.says /\ u.coats = n
    BY DEF SealTexts
<1>2. t.coats \in Nat
    BY DEF SealTexts
<1>3. t.coats + 1 \in Nat /\ (t.coats > 0 => t.coats - 1 \in Nat)
    BY <1>2
<1>4. /\ Seal!encryptString(t) \in SealTexts /\ Seal!encryptString(t).says = t.says
      /\ Seal!encryptString(t).coats = t.coats + 1
    BY <1>1, <1>3 DEF Seal!encryptString
<1>5. t.coats > 0 => /\ Seal!tryDecrypt(t) \in SealTexts /\ Seal!tryDecrypt(t).says = t.says
                     /\ Seal!tryDecrypt(t).coats = t.coats - 1
    BY <1>1, <1>3 DEF Seal!tryDecrypt
<1>6. t.coats = 0 => /\ Seal!tryDecrypt(t) \in SealTexts /\ Seal!tryDecrypt(t).says = 3
                     /\ Seal!tryDecrypt(t).coats = 0
    BY DEF Seal!tryDecrypt, Seal!Lost, Seal!Text, SealTexts
<1> QED
    BY <1>4, <1>5, <1>6

\* A filename is plain or encrypted once.
LEMMA SealName ==
    ASSUME NEW t \in SealNames
    PROVE  /\ t \in SealTexts /\ t.says = 0 /\ t.coats \in {0, 1} /\ (Seal!looksLikeCiphertext(t) <=> t.coats = 1)
           /\ t.coats = 0 => Seal!encryptString(t) \in SealNames /\ Seal!encryptString(t).coats = 1
           /\ t.coats = 1 => Seal!tryDecrypt(t) \in SealNames /\ Seal!tryDecrypt(t).coats = 0
<1>1. t \in SealTexts /\ t.says = 0 /\ t.coats \in {0, 1}
    BY DEF SealNames, SealTexts
<1>2. \A u \in SealTexts : u.says = 0 /\ u.coats \in {0, 1} => u \in SealNames
    <2>1. \A u \in SealTexts : u = [says |-> u.says, coats |-> u.coats]
        BY DEF SealTexts
    <2> QED
        BY <2>1 DEF SealNames
<1>3. Seal!looksLikeCiphertext(t) <=> t.coats = 1
    BY <1>1 DEF Seal!looksLikeCiphertext
<1>4. t.coats = 0 => Seal!encryptString(t) \in SealNames /\ Seal!encryptString(t).coats = 1
    BY <1>1, <1>2, SealCipher
<1>5. t.coats = 1 => Seal!tryDecrypt(t) \in SealNames /\ Seal!tryDecrypt(t).coats = 0
    BY <1>1, <1>2, SealCipher
<1> QED
    BY <1>1, <1>3, <1>4, <1>5

\* What a device makes of a record of the server.
LEMMA SealDecrypts ==
    ASSUME NEW r \in SealRecords, NEW s, NEW h, SealServed(r, s, h), NEW d
    PROVE  /\ Seal!decryptNoteFromServer(d, r) \in SealRecords
           /\ SealCopied(Seal!decryptNoteFromServer(d, r), s, h)
<1>1. /\ r.body \in SealTexts /\ r.file \in SealNames /\ r.enc \in BOOLEAN /\ r.at \in Nat
      /\ r.body.coats \in Nat /\ r.body.says \in 0..3
    BY DEF SealRecords, SealTexts
<1>2. CASE ~v7[d] \/ ~r.enc
    <2>1. Seal!decryptNoteFromServer(d, r) = r
        BY <1>2 DEF Seal!decryptNoteFromServer, Seal!decryptNoteFields
    <2>2. SealCopied(r, s, h)
        BY <1>1 DEF SealCopied, SealServed
    <2> QED
        BY <2>1, <2>2
<1>3. CASE v7[d] /\ r.enc
    <2> DEFINE B == Seal!tryDecrypt(r.body)
               N == IF Seal!looksLikeCiphertext(r.file) THEN Seal!tryDecrypt(r.file) ELSE r.file
    <2>1. Seal!decryptNoteFromServer(d, r) = [r EXCEPT !.enc = FALSE, !.body = B, !.file = N]
        BY <1>3 DEF Seal!decryptNoteFromServer, Seal!decryptNoteFields
    <2>2. N \in SealNames /\ N.coats = 0
        BY <1>1, SealName
    <2>3. B \in SealTexts
        BY <1>1, SealCipher
    <2>4. SealRead(B, h)
        <3>1. CASE r.body.coats = 0
            BY <1>1, <1>3, <3>1 DEF SealServed, SealRead
        <3>2. CASE r.body.coats > 0
            <4>1. B.says = r.body.says
                BY <1>1, <3>2, SealCipher
            <4> QED
                BY <4>1 DEF SealServed, SealRead
        <3> QED
            BY <1>1, <3>1, <3>2
    <2>5. B.coats > 0 => <<"shown", B.says>> \in h
        <3>1. CASE r.body.coats = 0
            BY <1>1, <3>1, SealCipher
        <3>2. CASE r.body.coats > 0
            <4>1. B.says = r.body.says /\ B.coats = r.body.coats - 1
                BY <1>1, <3>2, SealCipher
            <4> QED
                BY <1>1, <4>1 DEF SealServed
        <3> QED
            BY <1>1, <3>1, <3>2
    <2> HIDE DEF B, N
    <2> DEFINE c == [r EXCEPT !.enc = FALSE, !.body = B, !.file = N]
    <2>6. c \in SealRecords /\ c.body = B /\ c.file = N
        BY <2>2, <2>3 DEF SealRecords
    <2>7. s.enc
        BY <1>3 DEF SealServed
    <2> HIDE DEF c
    <2>8. SealCopied(c, s, h)
        BY <2>2, <2>4, <2>5, <2>6, <2>7 DEF SealCopied
    <2> QED
        BY <2>1, <2>6, <2>8 DEF c
<1> QED
    BY <1>1, <1>2, <1>3

\* The payload of an update.  It is bare if it has a mark already or the device is
\* without the key.
LEMMA SealEncrypts ==
    ASSUME NEW q \in SealUpdates, NEW s, NEW h, SealWaits(q, s, h), NEW d,
           q.body # Nil /\ (q.enc \/ ~v7[d]) => <<"bare", q.body.says>> \in h
    PROVE  /\ Seal!encryptNoteForServer(d, q) \in SealUpdates
           /\ SealSent(Seal!encryptNoteForServer(d, q), s, h)
<1>1. /\ q.body # Nil => q.body \in SealTexts /\ q.body.coats \in Nat
      /\ q.file # Nil => q.file \in SealNames
      /\ q.enc \in BOOLEAN
    BY DEF SealUpdates, SealTexts
<1>2. CASE ~v7[d] \/ q.enc
    <2>1. Seal!encryptNoteForServer(d, q) = q
        BY <1>2 DEF Seal!encryptNoteForServer, Seal!encryptNoteFields
    <2>2. SealSent(q, s, h)
        BY <1>1, <1>2 DEF SealSent, SealWaits
    <2> QED
        BY <2>1, <2>2
<1>3. CASE v7[d] /\ ~q.enc /\ q.body = Nil /\ q.file = Nil
    <2>1. Seal!encryptNoteForServer(d, q) = q
        BY <1>3 DEF Seal!encryptNoteForServer, Seal!encryptNoteFields, Seal!hasEncryptableFields
    <2>2. SealSent(q, s, h)
        BY <1>3 DEF SealSent
    <2> QED
        BY <2>1, <2>2
<1>4. CASE v7[d] /\ ~q.enc /\ (q.body # Nil \/ q.file # Nil)
    <2> DEFINE B == IF q.body = Nil THEN Nil ELSE Seal!encryptString(q.body)
               N == IF q.file = Nil \/ Seal!looksLikeCiphertext(q.file) THEN q.file
                                                                       ELSE Seal!encryptString(q.file)
               p == [q EXCEPT !.enc = TRUE, !.body = B, !.file = N]
    <2>1. Seal!encryptNoteForServer(d, q) = p
        BY <1>4 DEF Seal!encryptNoteForServer, Seal!encryptNoteFields, Seal!hasEncryptableFields
    <2>2. B \in SealTexts \cup {Nil}
        BY <1>1, SealCipher
    <2>3. N \in SealNames \cup {Nil}
        BY <1>1, SealName
    <2>4. B # Nil => /\ SealRead(B, h) /\ B.coats > 0
                     /\ B.coats > 1 => <<"shown", B.says>> \in h
        <3>1. CASE q.body # Nil
            <4>1. B = Seal!encryptString(q.body) /\ B.says = q.body.says /\ B.coats = q.body.coats + 1
                BY <1>1, <3>1, SealCipher
            <4>2. SealRead(B, h)
                BY <3>1, <4>1 DEF SealWaits, SealRead
            <4>3. B.coats > 0 /\ (B.coats > 1 => <<"shown", B.says>> \in h)
                BY <1>1, <3>1, <4>1 DEF SealWaits
            <4> QED
                BY <4>2, <4>3
        <3> QED
            BY <3>1
    <2>7. p.body # Nil
        <3>1. q.body # Nil /\ B = Seal!encryptString(q.body)
            BY <1>4 DEF SealWaits
        <3>2. B \in SealTexts
            BY <1>1, <3>1, SealCipher
        <3>3. p.body = B
            BY DEF SealUpdates
        <3> QED
            BY <3>2, <3>3, NilIsNoText DEF SealTexts
    <2> HIDE DEF B, N
    <2>5. p \in SealUpdates /\ p.body = B /\ p.file = N /\ p.enc
        BY <2>2, <2>3 DEF SealUpdates
    <2> HIDE DEF p
    <2>6. SealSent(p, s, h)
        <3>1. B # Nil => B.coats # 0
            BY <2>2, <2>4 DEF SealTexts
        <3> QED
            BY <2>4, <2>5, <2>7, <3>1 DEF SealSent
    <2> QED
        BY <2>1, <2>5, <2>6
<1> QED
    BY <1>1, <1>2, <1>3, <1>4

\* The record after an update has arrived.
LEMMA SealUpdated ==
    ASSUME NEW r \in SealRecords, NEW p \in SealUpdates, NEW h, SealServed(r, r, h), SealSent(p, r, h)
    PROVE  LET u == Seal!update(r, p)
           IN  u \in SealRecords /\ SealServed(u, u, h) /\ (r.enc => u.enc)
<1> DEFINE B == IF p.body = Nil THEN r.body ELSE p.body
           N == IF p.file = Nil THEN r.file ELSE p.file
           E == r.enc \/ p.enc
           u == [body |-> B, file |-> N, enc |-> E, at |-> p.at]
<1>1. Seal!update(r, p) = u
    BY DEF Seal!update
<1>2. B \in SealTexts /\ N \in SealNames /\ E \in BOOLEAN /\ p.at \in Nat
    BY DEF SealRecords, SealUpdates
<1>3. E <=> r.enc \/ p.enc
    OBVIOUS
<1>4. B.coats \in Nat /\ N.coats \in Nat
    BY <1>2, SealName DEF SealTexts
<1>5. SealRead(B, h)
    BY DEF SealServed, SealSent
<1>6. /\ E /\ B.coats = 0 => <<"bare", B.says>> \in h
      /\ B.coats > 1 => <<"shown", B.says>> \in h
      /\ ~E => ~(B.coats > 0)
    <2>1. CASE p.body = Nil
        <3>1. B = r.body
            BY <2>1
        <3>2. E /\ B.coats = 0 => <<"bare", B.says>> \in h
            <4>1. CASE r.enc
                BY <3>1, <4>1 DEF SealServed
            <4>2. CASE ~r.enc
                BY <2>1, <4>2 DEF SealSent
            <4> QED
                BY <4>1, <4>2
        <3> QED
            BY <3>1, <3>2 DEF SealServed
    <2>2. CASE p.body # Nil
        <3>1. B = p.body
            BY <2>2
        <3> QED
            BY <2>2, <3>1 DEF SealSent
    <2> QED
        BY <2>1, <2>2
<1>7. ~E => ~(N.coats > 0)
    <2>1. CASE p.file = Nil
        BY <2>1 DEF SealServed
    <2>2. CASE p.file # Nil
        BY <2>2 DEF SealSent
    <2> QED
        BY <2>1, <2>2
<1> HIDE DEF B, N, E
<1>8. u \in SealRecords /\ u.body = B /\ u.file = N /\ (u.enc <=> E)
    BY <1>2 DEF SealRecords
<1> HIDE DEF u
<1>9. SealServed(u, u, h)
    BY <1>4, <1>5, <1>6, <1>7, <1>8 DEF SealServed
<1> QED
    BY <1>1, <1>3, <1>8, <1>9

\* A step of one device: what it writes is as it must be.
LEMMA SealStep ==
    ASSUME SealInv, NEW d \in Devices, v1' = v1, v8' \in Nat, v7' \in [Devices -> BOOLEAN], past \subseteq past',
           v2' \in SealRecords, v2.enc => v2'.enc, SealServed(v2', v2', past'),
           v3' = v3 \/ \E c \in SealRecords : v3' = [v3 EXCEPT ![d] = c] /\ SealCopied(c, v2', past'),
           v4' = v4 \/ \E q \in SealUpdates \cup {Nil} :
                           v4' = [v4 EXCEPT ![d] = q] /\ (q # Nil => SealWaits(q, v2', past')),
           v5' = v5 \/ \E x \in SealPushes \cup {Seal!Idle} :
                           v5' = [v5 EXCEPT ![d] = x] /\ (x # Seal!Idle => SealSent(x.item, v2', past')),
           v6' = v6 \/ \E r \in SealRecords \cup {Nil} :
                           v6' = [v6 EXCEPT ![d] = r] /\ (r # Nil => SealServed(r, v2', past'))
    PROVE  SealInv'
<1>0. SealTypes
    BY DEF SealInv
<1>1. \A x : /\ SealServed(x, v2, past) => SealServed(x, v2', past')
             /\ SealCopied(x, v2, past) => SealCopied(x, v2', past')
             /\ SealWaits(x, v2, past) => SealWaits(x, v2', past')
             /\ SealSent(x, v2, past) => SealSent(x, v2', past')
    BY SealGrows
<1>2. v3' \in [Devices -> SealRecords] /\ \A e \in Devices : SealCopied(v3'[e], v2', past')
    <2>1. CASE v3' = v3
        BY <1>0, <1>1, <2>1 DEF SealInv, SealTypes
    <2>2. CASE \E c \in SealRecords : v3' = [v3 EXCEPT ![d] = c] /\ SealCopied(c, v2', past')
        <3>1. PICK c \in SealRecords : v3' = [v3 EXCEPT ![d] = c] /\ SealCopied(c, v2', past')
            BY <2>2
        <3>2. v3'[d] = c /\ \A e \in Devices : e # d => v3'[e] = v3[e]
            BY <1>0, <3>1 DEF SealTypes
        <3>3. v3' \in [Devices -> SealRecords]
            BY <1>0, <3>1 DEF SealTypes
        <3> QED
            BY <1>1, <3>1, <3>2, <3>3 DEF SealInv
    <2> QED
        BY <2>1, <2>2
<1>3. /\ v4' \in [Devices -> SealUpdates \cup {Nil}]
      /\ \A e \in Devices : v4'[e] # Nil => SealWaits(v4'[e], v2', past')
    <2>1. CASE v4' = v4
        BY <1>0, <1>1, <2>1 DEF SealInv, SealTypes
    <2>2. CASE v4' # v4
        <3>1. PICK q \in SealUpdates \cup {Nil} :
                  v4' = [v4 EXCEPT ![d] = q] /\ (q # Nil => SealWaits(q, v2', past'))
            BY <2>2
        <3>2. v4'[d] = q /\ \A e \in Devices : e # d => v4'[e] = v4[e]
            BY <1>0, <3>1 DEF SealTypes
        <3>3. v4' \in [Devices -> SealUpdates \cup {Nil}]
            BY <1>0, <3>1 DEF SealTypes
        <3> QED
            BY <1>1, <3>1, <3>2, <3>3 DEF SealInv
    <2> QED
        BY <2>1, <2>2
<1>4. /\ v5' \in [Devices -> SealPushes \cup {Seal!Idle}]
      /\ \A e \in Devices : v5'[e] # Seal!Idle => SealSent(v5'[e].item, v2', past')
    <2>1. CASE v5' = v5
        BY <1>0, <1>1, <2>1 DEF SealInv, SealTypes
    <2>2. CASE v5' # v5
        <3>1. PICK x \in SealPushes \cup {Seal!Idle} :
                  v5' = [v5 EXCEPT ![d] = x] /\ (x # Seal!Idle => SealSent(x.item, v2', past'))
            BY <2>2
        <3>2. v5'[d] = x /\ \A e \in Devices : e # d => v5'[e] = v5[e]
            BY <1>0, <3>1 DEF SealTypes
        <3>3. v5' \in [Devices -> SealPushes \cup {Seal!Idle}]
            BY <1>0, <3>1 DEF SealTypes
        <3> QED
            BY <1>1, <3>1, <3>2, <3>3 DEF SealInv
    <2> QED
        BY <2>1, <2>2
<1>5. /\ v6' \in [Devices -> SealRecords \cup {Nil}]
      /\ \A e \in Devices : v6'[e] # Nil => SealServed(v6'[e], v2', past')
    <2>1. CASE v6' = v6
        BY <1>0, <1>1, <2>1 DEF SealInv, SealTypes
    <2>2. CASE v6' # v6
        <3>1. PICK r \in SealRecords \cup {Nil} :
                  v6' = [v6 EXCEPT ![d] = r] /\ (r # Nil => SealServed(r, v2', past'))
            BY <2>2
        <3>2. v6'[d] = r /\ \A e \in Devices : e # d => v6'[e] = v6[e]
            BY <1>0, <3>1 DEF SealTypes
        <3>3. v6' \in [Devices -> SealRecords \cup {Nil}]
            BY <1>0, <3>1 DEF SealTypes
        <3> QED
            BY <1>1, <3>1, <3>2, <3>3 DEF SealInv
    <2> QED
        BY <2>1, <2>2
<1>6. SealTypes'
    BY <1>0, <1>2, <1>3, <1>4, <1>5 DEF SealTypes
<1> QED
    BY <1>2, <1>3, <1>4, <1>5, <1>6 DEF SealInv

LEMMA SealKey ==
    ASSUME SealInv, NEW d \in Devices, Seal!storeDek(d) \/ Seal!clearDek(d)
    PROVE  SealInv'
<1>1. UNCHANGED <<v1, v2, v3, v4, v5, v6, v8, past>>
    BY DEF Seal!storeDek, Seal!clearDek
<1>2. v7' \in [Devices -> BOOLEAN]
    BY DEF SealInv, SealTypes, Seal!storeDek, Seal!clearDek
<1> QED
    BY <1>1, <1>2 DEF SealInv, SealTypes

LEMMA SealPin ==
    ASSUME SealInv, NEW d \in Devices, Seal!togglePin(d)
    PROVE  SealInv'
<1>0. SealTypes /\ v8 \in Nat /\ v8 + 1 \in Nat
    BY DEF SealInv, SealTypes
<1> DEFINE n == v8 + 1
           c == [v3[d] EXCEPT !.at = n]
           q == [body |-> Nil, file |-> Nil, enc |-> FALSE, at |-> n]
<1>1. /\ v8' = n /\ v3' = [v3 EXCEPT ![d].at = n] /\ v4' = [v4 EXCEPT ![d] = q]
      /\ UNCHANGED <<v1, v2, v5, v6, v7, past>>
    BY DEF Seal!togglePin, Seal!Queued, Seal!Unnamed
<1>2. n \in Nat
    BY <1>0
<1> HIDE DEF n
<1>3. c \in SealRecords /\ c.body = v3[d].body /\ c.file = v3[d].file /\ c.enc = v3[d].enc
    BY <1>0, <1>2 DEF SealTypes, SealRecords
<1>4. SealCopied(c, v2, past)
    BY <1>3 DEF SealInv, SealCopied
<1>5. v3' = [v3 EXCEPT ![d] = c]
    BY <1>0, <1>1 DEF SealTypes
<1>6. q \in SealUpdates /\ SealWaits(q, v2, past)
    BY <1>2 DEF SealUpdates, SealWaits
<1> HIDE DEF c, q
<1>7. \E a \in SealRecords : v3' = [v3 EXCEPT ![d] = a] /\ SealCopied(a, v2', past')
    BY <1>1, <1>3, <1>4, <1>5
<1>8. \E a \in SealUpdates \cup {Nil} : v4' = [v4 EXCEPT ![d] = a] /\ (a # Nil => SealWaits(a, v2', past'))
    BY <1>1, <1>6
<1> QED
    BY <1>0, <1>1, <1>2, <1>7, <1>8, SealStep DEF SealInv, SealTypes

LEMMA SealLink ==
    ASSUME SealInv, NEW d \in Devices, Seal!linkNotes
    PROVE  SealInv'
<1>0. SealTypes /\ v8 \in Nat /\ v8 + 1 \in Nat
    BY DEF SealInv, SealTypes
<1> DEFINE n == v8 + 1
           q == [body |-> Nil, file |-> Nil, enc |-> FALSE, at |-> n]
<1>1. v8' = n /\ v2' = Seal!update(v2, q) /\ UNCHANGED <<v1, v3, v4, v5, v6, v7, past>>
    BY DEF Seal!linkNotes, Seal!Unnamed
<1>2. n \in Nat
    BY <1>0
<1> HIDE DEF n
<1>3. q \in SealUpdates /\ SealSent(q, v2, past)
    BY <1>2 DEF SealUpdates, SealSent
<1> HIDE DEF q
<1>4. v2' \in SealRecords /\ SealServed(v2', v2', past) /\ (v2.enc => v2'.enc)
    BY <1>0, <1>1, <1>3, SealUpdated DEF SealInv, SealTypes
<1> QED
    BY <1>0, <1>1, <1>2, <1>4, SealStep DEF SealTypes

LEMMA SealPull ==
    ASSUME SealInv, NEW d \in Devices, Seal!getAllPaged(d) \/ Seal!mergeRecords(d)
    PROVE  SealInv'
<1>0. SealTypes
    BY DEF SealInv
<1>1. CASE Seal!getAllPaged(d)
    <2>1. v6' = [v6 EXCEPT ![d] = v2] /\ UNCHANGED <<v1, v2, v3, v4, v5, v7, v8, past>>
        BY <1>1 DEF Seal!getAllPaged
    <2>2. \E r \in SealRecords \cup {Nil} :
              v6' = [v6 EXCEPT ![d] = r] /\ (r # Nil => SealServed(r, v2', past'))
        BY <1>0, <2>1 DEF SealInv, SealTypes
    <2> QED
        BY <1>0, <2>1, <2>2, SealStep DEF SealInv, SealTypes
<1>2. CASE Seal!mergeRecords(d)
    <2>1. /\ v6[d] # Nil /\ v3' = [v3 EXCEPT ![d] = Seal!merged(d, v6[d])] /\ v6' = [v6 EXCEPT ![d] = Nil]
          /\ UNCHANGED <<v1, v2, v4, v5, v7, v8, past>>
        BY <1>2 DEF Seal!mergeRecords
    <2>2. v6[d] \in SealRecords /\ SealServed(v6[d], v2, past)
        BY <1>0, <2>1 DEF SealInv, SealTypes
    <2>3. Seal!merged(d, v6[d]) \in SealRecords /\ SealCopied(Seal!merged(d, v6[d]), v2, past)
        BY <1>0, <2>2, SealDecrypts DEF SealInv, SealTypes, Seal!merged
    <2>4. \E c \in SealRecords : v3' = [v3 EXCEPT ![d] = c] /\ SealCopied(c, v2', past')
        BY <2>1, <2>3
    <2>5. \E r \in SealRecords \cup {Nil} :
              v6' = [v6 EXCEPT ![d] = r] /\ (r # Nil => SealServed(r, v2', past'))
        BY <2>1
    <2> QED
        BY <1>0, <2>1, <2>4, <2>5, SealStep DEF SealInv, SealTypes
<1> QED
    BY <1>1, <1>2

\* The history an excuse leaves.
LEMMA SealExcuse ==
    ASSUME NEW why, NEW t, NEW c \in BOOLEAN, Seal!Excuse(why, t, c)
    PROVE  past \subseteq past' /\ (c /\ t # Nil => <<why, t.says>> \in past')
BY DEF Seal!Excuse

\* What the editor starts from.
LEMMA SealOpened ==
    ASSUME SealInv, NEW d \in Devices
    PROVE  Seal!Opened(d) \in SealRecords /\ SealCopied(Seal!Opened(d), v2, past)
<1>1. v3[d] \in SealRecords /\ SealCopied(v3[d], v2, past) /\ v2 \in SealRecords /\ SealServed(v2, v2, past)
    BY DEF SealInv, SealTypes
<1> QED
    BY <1>1, SealDecrypts DEF Seal!Opened

LEMMA SealSave ==
    ASSUME SealInv, NEW d \in Devices, Seal!updateNoteOffline(d)
    PROVE  SealInv'
<1>0. SealTypes /\ v8 \in Nat /\ v8 < 2
    BY DEF SealInv, SealTypes, Seal!updateNoteOffline
<1>1. PICK n \in Nat : n = v8 + 1
    BY <1>0
<1>2. n \in 0..2
    BY <1>0, <1>1
<1>3. PICK b \in {Seal!Text(n), Seal!Opened(d).body} :
          /\ v3' = [v3 EXCEPT ![d] = [v3[d] EXCEPT !.body = b, !.at = n]]
          /\ v4' = [v4 EXCEPT ![d] = [body |-> b, at |-> n,
                                      file |-> IF v1 = "note" THEN v3[d].file ELSE Nil,
                                      enc  |-> v1 = "event" /\ v3[d].enc]]
          /\ Seal!Excuse("shown", b, b.coats > 0)
    BY <1>0, <1>1 DEF Seal!updateNoteOffline, Seal!Queued, SealTypes
<1>4. v8' = n /\ UNCHANGED <<v1, v2, v5, v6, v7>>
    BY <1>1 DEF Seal!updateNoteOffline
<1>5. v3[d] \in SealRecords /\ SealCopied(v3[d], v2, past)
    BY DEF SealInv, SealTypes
<1>6. b \in SealTexts /\ SealRead(b, past) /\ (b.coats > 0 => v2.enc)
    <2>1. CASE b = Seal!Text(n)
        BY <1>2, <2>1 DEF Seal!Text, SealTexts, SealRead
    <2>2. CASE b = Seal!Opened(d).body
        BY <2>2, SealOpened DEF SealRecords, SealCopied
    <2> QED
        BY <1>3, <2>1, <2>2
<1>7. b # Nil
    BY <1>6, NilIsNoText DEF SealTexts
<1>8. past \subseteq past' /\ (b.coats > 0 => <<"shown", b.says>> \in past')
    <2> DEFINE x == b.coats > 0
    <2>1. x \in BOOLEAN /\ Seal!Excuse("shown", b, x)
        BY <1>3
    <2> HIDE DEF x
    <2>2. past \subseteq past' /\ (x => <<"shown", b.says>> \in past')
        BY <1>7, <2>1, SealExcuse
    <2> QED
        BY <2>2 DEF x
<1>9. SealRead(b, past')
    BY <1>6, <1>8 DEF SealRead
<1> DEFINE c == [v3[d] EXCEPT !.body = b, !.at = n]
           N == IF v1 = "note" THEN v3[d].file ELSE Nil
           E == v1 = "event" /\ v3[d].enc
           q == [body |-> b, at |-> n, file |-> N, enc |-> E]
<1>10. c \in SealRecords /\ c.body = b /\ c.file = v3[d].file /\ c.enc = v3[d].enc
    BY <1>5, <1>6 DEF SealRecords
<1>11. N \in SealNames \cup {Nil} /\ E \in BOOLEAN /\ (N # Nil => N = v3[d].file)
    BY <1>0, <1>5 DEF SealRecords
<1>12. v3' = [v3 EXCEPT ![d] = c] /\ v4' = [v4 EXCEPT ![d] = q]
    BY <1>3
<1> HIDE DEF c, N, E
<1>13. q \in SealUpdates /\ q.body = b /\ q.file = N
    BY <1>6, <1>11 DEF SealUpdates
<1> HIDE DEF q
<1>14. SealCopied(c, v2, past')
    BY <1>5, <1>6, <1>8, <1>9, <1>10 DEF SealCopied
<1>15. SealWaits(q, v2, past')
    BY <1>5, <1>6, <1>7, <1>8, <1>9, <1>11, <1>13 DEF SealWaits, SealCopied
<1>16. \E a \in SealRecords : v3' = [v3 EXCEPT ![d] = a] /\ SealCopied(a, v2', past')
    BY <1>4, <1>10, <1>12, <1>14
<1>17. \E a \in SealUpdates \cup {Nil} : v4' = [v4 EXCEPT ![d] = a] /\ (a # Nil => SealWaits(a, v2', past'))
    BY <1>4, <1>12, <1>13, <1>15
<1>18. v2' \in SealRecords /\ (v2.enc => v2'.enc) /\ SealServed(v2', v2', past')
    BY <1>0, <1>4, <1>8, SealGrows DEF SealInv, SealTypes
<1>19. v8' \in Nat /\ v7' \in [Devices -> BOOLEAN] /\ v1' = v1 /\ v5' = v5 /\ v6' = v6
    BY <1>0, <1>4 DEF SealTypes
<1> QED
    BY <1>8, <1>16, <1>17, <1>18, <1>19, SealStep

LEMMA SealEncrypted ==
    ASSUME SealInv, NEW d \in Devices, Seal!encrypted(d)
    PROVE  SealInv'
<1>0. SealTypes
    BY DEF SealInv
<1>1. v4[d] # Nil /\ UNCHANGED <<v1, v2, v3, v4, v6, v7, v8>>
    BY DEF Seal!encrypted
<1>2. v4[d] \in SealUpdates /\ SealWaits(v4[d], v2, past)
    BY <1>0, <1>1 DEF SealInv, SealTypes
<1>3. PICK w \in {"get", "put"} :
          v5' = [v5 EXCEPT ![d] = [pc |-> w, item |-> Seal!encryptNoteForServer(d, v4[d])]]
    BY DEF Seal!encrypted
<1>4. past \subseteq past' /\ (v4[d].body # Nil /\ (v4[d].enc \/ ~v7[d]) => <<"bare", v4[d].body.says>> \in past')
    <2> DEFINE x == v4[d].enc \/ ~v7[d]
    <2>1. x \in BOOLEAN /\ Seal!Excuse("bare", v4[d].body, x)
        BY DEF Seal!encrypted
    <2> HIDE DEF x
    <2>2. past \subseteq past' /\ (x /\ v4[d].body # Nil => <<"bare", v4[d].body.says>> \in past')
        BY <2>1, SealExcuse
    <2> QED
        BY <2>2 DEF x
<1>5. SealWaits(v4[d], v2, past') /\ SealServed(v2, v2, past')
    BY <1>2, <1>4, SealGrows DEF SealInv
<1> DEFINE p == Seal!encryptNoteForServer(d, v4[d])
           x == [pc |-> w, item |-> p]
<1>6. p \in SealUpdates /\ SealSent(p, v2, past')
    BY <1>2, <1>4, <1>5, SealEncrypts
<1>7. v5' = [v5 EXCEPT ![d] = x]
    BY <1>3
<1> HIDE DEF p
<1>8. x \in SealPushes /\ x.item = p
    BY <1>6 DEF SealPushes
<1> HIDE DEF x
<1>9. \E a \in SealPushes \cup {Seal!Idle} :
          v5' = [v5 EXCEPT ![d] = a] /\ (a # Seal!Idle => SealSent(a.item, v2', past'))
    BY <1>1, <1>6, <1>7, <1>8
<1>10. /\ v8' \in Nat /\ v7' \in [Devices -> BOOLEAN] /\ v1' = v1 /\ v3' = v3 /\ v4' = v4 /\ v6' = v6
       /\ v2' \in SealRecords /\ (v2.enc => v2'.enc) /\ SealServed(v2', v2', past')
    BY <1>0, <1>1, <1>5 DEF SealTypes
<1> QED
    BY <1>4, <1>9, <1>10, SealStep

\* A push that is under way.
LEMMA SealPushing ==
    ASSUME SealInv, NEW d \in Devices, v5[d].pc # "idle"
    PROVE  v5[d] \in SealPushes /\ SealSent(v5[d].item, v2, past)
<1>1. v5[d] \in SealPushes \cup {Seal!Idle} /\ v5[d] # Seal!Idle
    BY DEF SealInv, SealTypes, Seal!Idle
<1> QED
    BY <1>1 DEF SealInv

LEMMA SealPush ==
    ASSUME SealInv, NEW d \in Devices, Seal!compared(d) \/ Seal!sent(d) \/ Seal!failed(d)
    PROVE  SealInv'
<1>0. /\ SealTypes /\ v8 \in Nat /\ v7 \in [Devices -> BOOLEAN] /\ v2 \in SealRecords
      /\ SealServed(v2, v2, past)
    BY DEF SealInv, SealTypes
<1>1. /\ \E x \in SealPushes \cup {Seal!Idle} :
             [v5 EXCEPT ![d] = Seal!Idle] = [v5 EXCEPT ![d] = x] /\ x = Seal!Idle
      /\ \E q \in SealUpdates \cup {Nil} : [v4 EXCEPT ![d] = Nil] = [v4 EXCEPT ![d] = q] /\ q = Nil
    OBVIOUS
<1>2. CASE Seal!failed(d)
    <2>1. v5' = [v5 EXCEPT ![d] = Seal!Idle] /\ UNCHANGED <<v1, v2, v3, v4, v6, v7, v8, past>>
        BY <1>2 DEF Seal!failed, Seal!Ends
    <2> QED
        BY <1>0, <1>1, <2>1, SealStep
<1>3. CASE Seal!compared(d)
    <2>1. v5[d].pc = "get" /\ UNCHANGED <<v1, v2, v6, v7, v8, past>>
        BY <1>3 DEF Seal!compared, Seal!At
    <2>2. v5[d] \in SealPushes /\ SealSent(v5[d].item, v2, past)
        BY <2>1, SealPushing
    <2>3. CASE v5' = [v5 EXCEPT ![d].pc = "put"] /\ UNCHANGED <<v3, v4>>
        <3> DEFINE x == [v5[d] EXCEPT !.pc = "put"]
        <3>1. v5' = [v5 EXCEPT ![d] = x]
            BY <1>0, <2>3 DEF SealTypes
        <3>2. x \in SealPushes /\ x.item = v5[d].item
            BY <2>2 DEF SealPushes
        <3> HIDE DEF x
        <3>3. \E a \in SealPushes \cup {Seal!Idle} :
                  v5' = [v5 EXCEPT ![d] = a] /\ (a # Seal!Idle => SealSent(a.item, v2', past'))
            BY <2>1, <2>2, <3>1, <3>2
        <3> QED
            BY <1>0, <2>1, <2>3, <3>3, SealStep
    <2>4. CASE /\ v3' = [v3 EXCEPT ![d] = Seal!upserted(d, Seal!decryptNoteFromServer(d, v2))]
               /\ v4' = [v4 EXCEPT ![d] = Nil] /\ v5' = [v5 EXCEPT ![d] = Seal!Idle]
        <3> DEFINE r == Seal!decryptNoteFromServer(d, v2)
        <3>1. r \in SealRecords /\ SealCopied(r, v2, past)
            BY <1>0, SealDecrypts
        <3> HIDE DEF r
        <3>2. Seal!upserted(d, r) \in SealRecords /\ SealCopied(Seal!upserted(d, r), v2, past)
            BY <1>0, <3>1 DEF Seal!upserted, SealInv, SealTypes
        <3>3. v3' = [v3 EXCEPT ![d] = Seal!upserted(d, r)]
            BY <2>4 DEF r
        <3>4. \E c \in SealRecords : v3' = [v3 EXCEPT ![d] = c] /\ SealCopied(c, v2', past')
            BY <2>1, <3>2, <3>3
        <3> QED
            BY <1>0, <1>1, <2>1, <2>4, <3>4, SealStep
    <2> QED
        BY <1>3, <2>3, <2>4 DEF Seal!compared, Seal!Queued, Seal!Ends
<1>4. CASE Seal!sent(d)
    <2>1. v5[d].pc = "put" /\ UNCHANGED <<v1, v3, v6, v7, v8, past>>
        BY <1>4 DEF Seal!sent, Seal!At
    <2>2. v5[d] \in SealPushes /\ SealSent(v5[d].item, v2, past) /\ v5[d].item \in SealUpdates
        BY <2>1, SealPushing DEF SealPushes
    <2>3. /\ v2' = Seal!update(v2, v5[d].item) /\ v5' = [v5 EXCEPT ![d] = Seal!Idle]
          /\ v4' = [v4 EXCEPT ![d] = Nil] \/ v4' = v4
        BY <1>4 DEF Seal!sent, Seal!Ends, Seal!Queued
    <2>4. v2' \in SealRecords /\ SealServed(v2', v2', past') /\ (v2.enc => v2'.enc)
        BY <1>0, <2>1, <2>2, <2>3, SealUpdated
    <2> QED
        BY <1>0, <1>1, <2>1, <2>3, <2>4, SealStep
<1> QED
    BY <1>2, <1>3, <1>4

LEMMA SealInit == Init /\ part = "ciphertext" => SealInv
<1> SUFFICES ASSUME Seal!Init PROVE SealInv
    BY DEF Init
<1>1. /\ v1 \in {"note", "event"} /\ v8 = 0 /\ past = {} /\ v7 \in [Devices -> BOOLEAN]
      /\ v2 \in {[body |-> Seal!Text(0), file |-> Seal!Text(0), enc |-> FALSE, at |-> 0],
                 [body |-> Seal!encryptString(Seal!Text(0)), file |-> Seal!Text(0), enc |-> TRUE, at |-> 0]}
      /\ v3 = [d \in Devices |-> Seal!decryptNoteFromServer(d, v2)]
      /\ v4 = [d \in Devices |-> Nil] /\ v5 = [d \in Devices |-> Seal!Idle] /\ v6 = [d \in Devices |-> Nil]
    BY DEF Seal!Init
<1>2. /\ Seal!Text(0) \in SealTexts /\ Seal!Text(0).says = 0 /\ Seal!Text(0).coats = 0
      /\ Seal!Text(0) \in SealNames
    BY DEF Seal!Text, SealTexts, SealNames
<1>3. /\ Seal!encryptString(Seal!Text(0)) \in SealTexts
      /\ Seal!encryptString(Seal!Text(0)).says = 0 /\ Seal!encryptString(Seal!Text(0)).coats = 1
    BY <1>2, SealCipher
<1>4. v2 \in SealRecords /\ SealServed(v2, v2, past)
    <2> DEFINE t == Seal!Text(0)
               u == Seal!encryptString(Seal!Text(0))
    <2> HIDE DEF t, u
    <2>1. /\ t \in SealTexts /\ t.says = 0 /\ t.coats = 0 /\ t \in SealNames
          /\ u \in SealTexts /\ u.says = 0 /\ u.coats = 1
        BY <1>2, <1>3 DEF t, u
    <2>2. v2 \in {[body |-> t, file |-> t, enc |-> FALSE, at |-> 0], [body |-> u, file |-> t, enc |-> TRUE, at |-> 0]}
        BY <1>1 DEF t, u
    <2>3. v2 \in SealRecords
        <3>1. \A b \in SealTexts, e \in BOOLEAN : [body |-> b, file |-> t, enc |-> e, at |-> 0] \in SealRecords
            BY <2>1 DEF SealRecords
        <3> QED
            BY <2>1, <2>2, <3>1
    <2>4. SealServed(v2, v2, past)
        BY <2>1, <2>2 DEF SealServed, SealRead
    <2> QED
        BY <2>3, <2>4
<1>5. \A d \in Devices : v3[d] \in SealRecords /\ SealCopied(v3[d], v2, past)
    BY <1>1, <1>4, SealDecrypts
<1>6. v3 \in [Devices -> SealRecords]
    BY <1>1, <1>5
<1>7. SealTypes
    BY <1>1, <1>4, <1>6 DEF SealTypes
<1> QED
    BY <1>1, <1>4, <1>5, <1>7 DEF SealInv

\* Whoever has the key reads the server's text, unless it was sent without the key
\* or saved as the ciphertext a screen showed, for any number of devices.
THEOREM TextsAreSealed == Spec => []SealHolds
<1> DEFINE I == part = "ciphertext" => SealInv
<1>1. Init => I
    BY SealInit
<1>2. I /\ [Next]_allVars => I'
    <2> SUFFICES ASSUME I, [Next]_allVars, part' = "ciphertext" PROVE SealInv'
        OBVIOUS
    <2>1. part = "ciphertext"
        BY DEF Next, allVars
    <2>2. SealInv /\ (Seal!Next \/ UNCHANGED <<v1, v2, v3, v4, v5, v6, v7, v8, past>>)
        BY <2>1, SealSteps
    <2>3. CASE UNCHANGED <<v1, v2, v3, v4, v5, v6, v7, v8, past>>
        BY <2>2, <2>3 DEF SealInv, SealTypes
    <2>4. CASE Seal!Next
        BY <2>2, <2>4, SealKey, SealPin, SealLink, SealPull, SealSave, SealEncrypted, SealPush DEF Seal!Next
    <2> QED
        BY <2>2, <2>3, <2>4
<1>3. I => SealHolds
    <2> SUFFICES ASSUME SealInv PROVE Seal!SealHolds
        BY DEF SealHolds
    <2>1. v2 \in SealRecords /\ SealServed(v2, v2, past)
        BY DEF SealInv, SealTypes
    <2>2. /\ v2.enc /\ v2.body.coats = 0 => Seal!Was("bare", v2.body.says)
          /\ v2.enc /\ v2.body.coats > 1 => Seal!Was("shown", v2.body.says)
          /\ ~v2.enc => v2.body.coats = 0 /\ v2.file.coats = 0
        BY <2>1 DEF SealServed, Seal!Was
    <2>3. v2.file \in {Seal!Text(0), Seal!encryptString(Seal!Text(0))}
        <3>1. Seal!encryptString([says |-> 0, coats |-> 0]) = [says |-> 0, coats |-> 1]
            <4>1. \A u \in SealTexts : u = [says |-> u.says, coats |-> u.coats]
                BY DEF SealTexts
            <4> QED
                BY <4>1, SealCipher DEF SealTexts
        <3> QED
            BY <2>1, <3>1 DEF SealRecords, SealNames, Seal!Text
    <2>4. Seal!Lost.says = 3
        BY DEF Seal!Lost, Seal!Text
    <2>5. \A t : SealRead(t, past) /\ t.says = 3 => Seal!BareText
        BY <2>4 DEF SealRead, Seal!BareText, Seal!Was
    <2>6. v2.body.says = Seal!Lost.says => Seal!BareText
        BY <2>1, <2>4, <2>5 DEF SealServed
    <2>7. ASSUME NEW d \in Devices
          PROVE  /\ v3[d].body = Seal!Lost => Seal!BareText
                 /\ v3[d].body.coats > 0 => v3[d].enc \/ Seal!Was("shown", v3[d].body.says)
        <3>1. SealCopied(v3[d], v2, past)
            BY DEF SealInv
        <3> QED
            BY <2>4, <2>5, <3>1 DEF SealCopied, Seal!Was
    <2> QED
        BY <2>2, <2>3, <2>6, <2>7 DEF Seal!SealHolds
<1> HIDE DEF I
<1> QED
    BY <1>1, <1>2, <1>3, PTL DEF Spec, allVars

-------------------------------------------------------------------------------
(* The keys: v1 is the password, v2 the escrow, v3 the devices, v4 the note, *)
(* v6 the codes that were shown, v7 counts the saves, v8 the passwords.      *)

KeyEscrows == [by : Passwords, key : KeyIds \cup {Nil}, recovery : KeyIds]
KeyNotes   == [text : Nat, key : KeyIds \cup {Nil}]
KeyFlows   == [pc : {"idle", "boot", "created", "recover", "changed", "rewrap", "migrate"},
               word : Passwords \cup {Nil}, at : Nat, seen : KeyEscrows \cup {Nil} \cup KeyNotes]
KeyDevices == [in : BOOLEAN, dek : KeyIds \cup {Nil}, done : BOOLEAN, flow : KeyFlows]
KeyPasts   == [twice : BOOLEAN, unseen : BOOLEAN, stale : BOOLEAN, raced : BOOLEAN]

KeyTypes ==
    /\ v1 \in Passwords /\ v2 \in KeyEscrows \cup {Nil} /\ v3 \in [Devices -> KeyDevices]
    /\ v4 \in KeyNotes /\ v7 \in Nat /\ v8 \in Nat /\ past \in KeyPasts

\* A flow that is not outrun by a change of the password has the password.
KeyFlow(f) ==
    /\ f.pc \in {"boot", "created", "recover", "changed", "rewrap"} =>
           f.word \in Passwords /\ f.at <= v8 /\ (f.at = v8 => f.word = v1)
    /\ f.pc \in {"created", "recover", "rewrap"} => f.seen \in KeyEscrows
    /\ f.pc = "boot" => f.seen \in KeyEscrows \cup {Nil}
    /\ f.pc = "migrate" => f.seen \in KeyNotes

\* All that a device has or has read is of one key, and of one recovery code.
KeySame(x, e) ==
    /\ x.dek # Nil => e # Nil /\ x.dek = e.recovery
    /\ x.flow.pc \in {"boot", "created", "recover", "rewrap"} /\ x.flow.seen # Nil =>
           e # Nil /\ x.flow.seen.key = e.recovery /\ x.flow.seen.recovery = e.recovery
    /\ x.flow.pc = "rewrap" => x.dek # Nil

KeyOne ==
    /\ v2 # Nil => /\ v2.key = v2.recovery
                   /\ past.unseen \/ v2.recovery \in v6 \/ \E d \in Devices : v3[d].flow.pc = "created"
    /\ v4.key # Nil => v2 # Nil /\ v4.key = v2.recovery
    /\ \A d \in Devices : KeySame(v3[d], v2)

\* The last change of the password is in the wrap or on its way there.
KeyOpens ==
    v2 # Nil => v2.by = v1 \/ \E d \in Devices : v3[d].flow.pc \in {"changed", "rewrap"} /\ v3[d].flow.at = v8

KeyInv ==
    /\ KeyTypes
    /\ \A d \in Devices : KeyFlow(v3[d].flow)
    /\ past.twice \/ KeyOne
    /\ past.twice \/ past.stale \/ KeyOpens
    /\ v4.text = v7 \/ past.raced

LEMMA KeySteps ==
    ASSUME [Next]_allVars, part = "keys"
    PROVE  part' = "keys" /\ (Key!Next \/ UNCHANGED <<v1, v2, v3, v4, v5, v6, v7, v8, past>>)
BY DEF Next, allVars

LEMMA KeyInit == Init /\ part = "keys" => KeyInv
<1> SUFFICES ASSUME Key!Init PROVE KeyInv
    BY DEF Init
<1>1. /\ v1 \in Passwords /\ v2 = Nil
      /\ v3 = [d \in Devices |-> [in |-> FALSE, dek |-> Nil, done |-> FALSE, flow |-> Key!Idle]]
      /\ v4 = [text |-> 0, key |-> Nil] /\ v7 = 0 /\ v8 = 0
      /\ past = [twice |-> FALSE, unseen |-> FALSE, stale |-> FALSE, raced |-> FALSE]
    BY DEF Key!Init, Key!Plain
<1>2. Key!Idle \in KeyFlows /\ Key!Idle.pc = "idle"
    BY DEF Key!Idle, KeyFlows
<1>3. KeyTypes
    BY <1>1, <1>2 DEF KeyTypes, KeyDevices, KeyNotes, KeyPasts
<1>4. \A d \in Devices : KeyFlow(v3[d].flow)
    BY <1>1, <1>2 DEF KeyFlow
<1>5. KeyOne
    BY <1>1, <1>2 DEF KeyOne, KeySame
<1> QED
    BY <1>1, <1>3, <1>4, <1>5 DEF KeyInv, KeyOpens

\* A step of one device that writes nothing on the server.  It displays the code of
\* a new key or notes that nobody saw it, and wraps a change or notes that it did not.
LEMMA KeyMoves ==
    ASSUME KeyInv, NEW d \in Devices, NEW x \in KeyDevices, v3' = [v3 EXCEPT ![d] = x],
           UNCHANGED <<v1, v2, v4, v7, v8>>, v6 \subseteq v6', past' \in KeyPasts,
           past'.twice = past.twice, past'.raced = past.raced,
           past.unseen => past'.unseen, past.stale => past'.stale,
           KeyFlow(x.flow), KeyOne => KeySame(x, v2),
           v3[d].flow.pc = "created" => past'.unseen \/ v3[d].flow.seen.recovery \in v6',
           v3[d].flow.pc \in {"changed", "rewrap"} =>
               \/ x.flow.pc \in {"changed", "rewrap"} /\ x.flow.at = v3[d].flow.at
               \/ past'.stale \/ v2 = Nil
    PROVE  KeyInv'
<1>0. KeyTypes
    BY DEF KeyInv
<1>1. v3'[d] = x /\ \A e \in Devices : e # d => v3'[e] = v3[e]
    BY <1>0 DEF KeyTypes
<1>2. KeyTypes'
    BY <1>0 DEF KeyTypes
<1>3. \A e \in Devices : KeyFlow(v3'[e].flow)
    BY <1>1 DEF KeyInv
<1>4. \A e \in Devices : KeyFlow(v3[e].flow)'
    BY <1>1, <1>3 DEF KeyFlow
<1>5. ASSUME KeyOne PROVE KeyOne'
    <2>1. \A e \in Devices : KeySame(v3'[e], v2)
        BY <1>1, <1>5 DEF KeyOne
    <2>2. v3[d].flow.pc = "created" /\ v2 # Nil => past'.unseen \/ v2.recovery \in v6'
        <3>1. v3[d].flow.pc = "created" => v3[d].flow.seen \in KeyEscrows
            BY DEF KeyInv, KeyFlow
        <3>2. v3[d].flow.pc = "created" => v3[d].flow.seen.recovery = v2.recovery
            BY <1>5, <3>1, NilIsNoKey DEF KeyOne, KeySame, KeyEscrows
        <3> QED
            BY <3>2
    <2>3. v2 # Nil => \/ past'.unseen \/ v2.recovery \in v6'
                      \/ \E e \in Devices : v3'[e].flow.pc = "created"
        <3>1. ASSUME NEW e \in Devices, v3[e].flow.pc = "created", v2 # Nil
              PROVE  \/ past'.unseen \/ v2.recovery \in v6'
                     \/ \E g \in Devices : v3'[g].flow.pc = "created"
            BY <1>1, <2>2, <3>1
        <3> QED
            BY <1>5, <3>1 DEF KeyOne
    <2> QED
        BY <1>5, <2>1, <2>3 DEF KeyOne, KeySame
<1>6. ASSUME KeyOpens, ~past'.stale PROVE KeyOpens'
    <2>1. ASSUME NEW e \in Devices, v3[e].flow.pc \in {"changed", "rewrap"}, v3[e].flow.at = v8, v2 # Nil
          PROVE  v3'[e].flow.pc \in {"changed", "rewrap"} /\ v3'[e].flow.at = v8
        BY <1>1, <1>6, <2>1
    <2> QED
        BY <1>6, <2>1 DEF KeyOpens
<1> QED
    BY <1>2, <1>4, <1>5, <1>6 DEF KeyInv

LEMMA KeyQuiet ==
    ASSUME KeyInv, NEW d \in Devices, NEW x \in KeyDevices, v3' = [v3 EXCEPT ![d] = x],
           UNCHANGED <<v1, v2, v4, v6, v7, v8, past>>,
           KeyFlow(x.flow), KeyOne => KeySame(x, v2),
           v3[d].flow.pc \notin {"created", "changed", "rewrap"}
    PROVE  KeyInv'
<1>1. past' \in KeyPasts
    BY DEF KeyInv, KeyTypes
<1> QED
    BY <1>1, KeyMoves

LEMMA KeyIdle == Key!Idle \in KeyFlows /\ Key!Idle.pc = "idle" /\ KeyFlow(Key!Idle)
BY DEF Key!Idle, KeyFlows, KeyFlow

LEMMA KeyReads ==
    ASSUME KeyInv, NEW d \in Devices, Key!getEscrow(d)
    PROVE  KeyInv'
<1>0. KeyTypes
    BY DEF KeyInv
<1> DEFINE f == [pc |-> "boot", word |-> v1, at |-> v8, seen |-> v2]
           x == [v3[d] EXCEPT !.in = TRUE, !.flow = f]
<1>1. f \in KeyFlows /\ f.pc = "boot" /\ f.word = v1 /\ f.at = v8 /\ f.seen = v2
    BY <1>0 DEF KeyTypes, KeyFlows
<1>2. v3[d].flow.pc = "idle" /\ v3' = [v3 EXCEPT ![d].in = TRUE, ![d].flow = f]
      /\ UNCHANGED <<v1, v2, v4, v6, v7, v8, past>>
    BY DEF Key!getEscrow, Key!Flow
<1> HIDE DEF f
<1>3. x \in KeyDevices /\ x.flow = f /\ x.dek = v3[d].dek
    BY <1>0, <1>1 DEF KeyTypes, KeyDevices
<1>4. v3' = [v3 EXCEPT ![d] = x]
    BY <1>0, <1>2 DEF KeyTypes
<1> HIDE DEF x
<1>5. KeyFlow(x.flow)
    BY <1>0, <1>1, <1>3 DEF KeyFlow, KeyTypes
<1>6. KeyOne => KeySame(x, v2)
    BY <1>1, <1>3 DEF KeyOne, KeySame
<1> QED
    BY <1>2, <1>3, <1>4, <1>5, <1>6, KeyQuiet

LEMMA KeyUnlocks ==
    ASSUME KeyInv, NEW d \in Devices, Key!unlockWithPassword(d)
    PROVE  KeyInv'
<1>0. KeyTypes /\ KeyFlow(v3[d].flow)
    BY DEF KeyInv
<1>1. /\ v3[d].flow.pc = "boot" /\ v3[d].flow.seen # Nil
      /\ v3' = [v3 EXCEPT ![d].flow = Key!Idle, ![d].dek = v3[d].flow.seen.key]
      /\ UNCHANGED <<v1, v2, v4, v6, v7, v8, past>>
    BY DEF Key!unlockWithPassword, Key!Flow, Key!SetsUp, Key!Took
<1>2. v3[d].flow.seen \in KeyEscrows
    BY <1>0, <1>1 DEF KeyFlow
<1> DEFINE k == v3[d].flow.seen.key
           x == [v3[d] EXCEPT !.flow = Key!Idle, !.dek = k]
<1>3. k \in KeyIds \cup {Nil}
    BY <1>2 DEF KeyEscrows
<1>6. k = v3[d].flow.seen.key /\ v3' = [v3 EXCEPT ![d].flow = Key!Idle, ![d].dek = k]
    BY <1>1
<1> HIDE DEF k
<1>4. x \in KeyDevices /\ x.flow = Key!Idle /\ x.dek = k /\ v3' = [v3 EXCEPT ![d] = x]
    BY <1>0, <1>3, <1>6, KeyIdle DEF KeyTypes, KeyDevices
<1> HIDE DEF x
<1>5. KeyOne => KeySame(x, v2)
    BY <1>1, <1>4, <1>6, KeyIdle DEF KeyOne, KeySame
<1> QED
    BY <1>1, <1>4, <1>5, KeyIdle, KeyQuiet

LEMMA KeyRecovers ==
    ASSUME KeyInv, NEW d \in Devices, Key!recoverKeyWithCode(d)
    PROVE  KeyInv'
<1>0. KeyTypes /\ KeyFlow(v3[d].flow) /\ v3[d].flow \in KeyFlows
    BY DEF KeyInv, KeyTypes, KeyDevices
<1> DEFINE f == [v3[d].flow EXCEPT !.pc = "recover", !.seen = v2]
           x == [v3[d] EXCEPT !.flow = f]
<1>1. /\ v3[d].flow.pc \in {"boot", "recover"} /\ v2 # Nil
      /\ v3' = [v3 EXCEPT ![d].flow = f]
      /\ UNCHANGED <<v1, v2, v4, v6, v7, v8, past>>
    BY DEF Key!recoverKeyWithCode, Key!Flow, Key!At, Key!Goto
<1>2. v2 \in KeyEscrows
    BY <1>0, <1>1 DEF KeyTypes
<1>3. f \in KeyFlows /\ f.pc = "recover" /\ f.word = v3[d].flow.word /\ f.at = v3[d].flow.at /\ f.seen = v2
    BY <1>0, <1>2 DEF KeyFlows
<1> HIDE DEF f
<1>4. x \in KeyDevices /\ x.flow = f /\ x.dek = v3[d].dek /\ v3' = [v3 EXCEPT ![d] = x]
    BY <1>0, <1>1, <1>3 DEF KeyTypes, KeyDevices
<1> HIDE DEF x
<1>5. KeyFlow(x.flow)
    BY <1>0, <1>1, <1>2, <1>3, <1>4 DEF KeyFlow
<1>6. KeyOne => KeySame(x, v2)
    BY <1>3, <1>4 DEF KeyOne, KeySame
<1> QED
    BY <1>1, <1>4, <1>5, <1>6, KeyQuiet

LEMMA KeyMigrates ==
    ASSUME KeyInv, NEW d \in Devices, Key!migrateNotesToEncrypted(d)
    PROVE  KeyInv'
<1>0. KeyTypes /\ v3[d] \in KeyDevices /\ KeyFlow(v3[d].flow)
    BY DEF KeyInv, KeyTypes
<1>1. v3[d].flow.pc = "idle" /\ UNCHANGED <<v1, v2, v4, v6, v7, v8, past>>
    BY DEF Key!migrateNotesToEncrypted, Key!At, Key!Flow
<1> DEFINE f == [Key!Idle EXCEPT !.pc = "migrate", !.seen = v4]
<1>2. f \in KeyFlows /\ f.pc = "migrate" /\ f.seen = v4
    BY <1>0 DEF Key!Idle, KeyFlows, KeyTypes
<1> HIDE DEF f
<1>3. CASE v3' = [v3 EXCEPT ![d].flow = f]
    <2> DEFINE x == [v3[d] EXCEPT !.flow = f]
    <2>1. x \in KeyDevices /\ x.flow = f /\ x.dek = v3[d].dek /\ v3' = [v3 EXCEPT ![d] = x]
        BY <1>0, <1>2, <1>3 DEF KeyTypes, KeyDevices
    <2> HIDE DEF x
    <2>2. KeyFlow(x.flow)
        BY <1>0, <1>2, <2>1 DEF KeyFlow, KeyTypes
    <2>3. KeyOne => KeySame(x, v2)
        BY <1>2, <2>1 DEF KeyOne, KeySame
    <2> QED
        BY <1>1, <2>1, <2>2, <2>3, KeyQuiet
<1>4. CASE v3' = [v3 EXCEPT ![d].done = TRUE]
    <2> DEFINE x == [v3[d] EXCEPT !.done = TRUE]
    <2>1. x \in KeyDevices /\ x.flow = v3[d].flow /\ x.dek = v3[d].dek /\ v3' = [v3 EXCEPT ![d] = x]
        BY <1>0, <1>4 DEF KeyTypes, KeyDevices
    <2> HIDE DEF x
    <2>2. KeyOne => KeySame(x, v2)
        BY <2>1 DEF KeyOne, KeySame
    <2> QED
        BY <1>0, <1>1, <2>1, <2>2, KeyQuiet
<1> QED
    BY <1>3, <1>4 DEF Key!migrateNotesToEncrypted, Key!Goto, f

LEMMA KeyLogout ==
    ASSUME KeyInv, NEW d \in Devices, Key!Logout(d)
    PROVE  KeyInv'
<1>0. KeyTypes /\ v3[d] \in KeyDevices /\ KeyFlow(v3[d].flow)
    BY DEF KeyInv, KeyTypes
<1>1. /\ v3[d].flow.pc = "idle" /\ UNCHANGED <<v1, v2, v4, v6, v7, v8, past>>
      /\ v3' = [v3 EXCEPT ![d].in = FALSE, ![d].dek = Nil]
    BY DEF Key!Logout, Key!At, Key!Flow
<1> DEFINE x == [v3[d] EXCEPT !.in = FALSE, !.dek = Nil]
<1>2. x \in KeyDevices /\ x.flow = v3[d].flow /\ x.dek = Nil /\ v3' = [v3 EXCEPT ![d] = x]
    BY <1>0, <1>1 DEF KeyTypes, KeyDevices
<1> HIDE DEF x
<1>3. KeyOne => KeySame(x, v2)
    BY <1>1, <1>2 DEF KeySame
<1> QED
    BY <1>0, <1>1, <1>2, <1>3, KeyQuiet

LEMMA KeyNotesPast ==
    ASSUME past \in KeyPasts
    PROVE  /\ Key!Note("unseen") => /\ past' \in KeyPasts /\ past'.twice = past.twice /\ past'.unseen
                                    /\ past'.stale = past.stale /\ past'.raced = past.raced
           /\ Key!Note("stale") => /\ past' \in KeyPasts /\ past'.twice = past.twice /\ past'.unseen = past.unseen
                                   /\ past'.stale /\ past'.raced = past.raced
           /\ Key!Note("raced") => /\ past' \in KeyPasts /\ past'.twice = past.twice /\ past'.unseen = past.unseen
                                   /\ past'.stale = past.stale /\ past'.raced
BY DEF KeyPasts, Key!Note

LEMMA KeyCreates ==
    ASSUME KeyInv, NEW d \in Devices, Key!createEscrow(d)
    PROVE  KeyInv'
<1>0. KeyTypes /\ v3[d] \in KeyDevices /\ KeyFlow(v3[d].flow) /\ v3[d].flow \in KeyFlows
    BY DEF KeyInv, KeyTypes, KeyDevices
<1>1. PICK k \in KeyIds :
          /\ v2' = [by |-> v3[d].flow.word, key |-> k, recovery |-> k]
          /\ past' = [past EXCEPT !.twice = @ \/ v2 # v3[d].flow.seen, !.stale = @ \/ v3[d].flow.at # v8]
          /\ v3' = [v3 EXCEPT ![d].flow = [v3[d].flow EXCEPT !.pc = "created", !.seen = v2']]
    BY DEF Key!createEscrow, Key!Flow, Key!Goto
<1>2. /\ v3[d].flow.pc = "boot" /\ v3[d].flow.seen = Nil
      /\ UNCHANGED <<v1, v4, v6, v7, v8>>
    BY DEF Key!createEscrow, Key!Flow, Key!At, Key!SetsUp
<1>3. v2' \in KeyEscrows /\ v2'.by = v3[d].flow.word /\ v2'.key = k /\ v2'.recovery = k /\ v2' # Nil
    <2>1. v3[d].flow.word \in Passwords
        BY <1>0, <1>2 DEF KeyFlow
    <2> QED
        BY <1>1, <2>1, NilIsNoKey DEF KeyEscrows
<1> DEFINE f == [v3[d].flow EXCEPT !.pc = "created", !.seen = v2']
           x == [v3[d] EXCEPT !.flow = f]
<1>4. f \in KeyFlows /\ f.pc = "created" /\ f.word = v3[d].flow.word /\ f.at = v3[d].flow.at /\ f.seen = v2'
    BY <1>0, <1>3 DEF KeyFlows
<1>5. v3' = [v3 EXCEPT ![d].flow = f]
    BY <1>1
<1> HIDE DEF f
<1>6. x \in KeyDevices /\ x.flow = f /\ x.dek = v3[d].dek /\ v3' = [v3 EXCEPT ![d] = x]
    BY <1>0, <1>4, <1>5 DEF KeyTypes, KeyDevices
<1> HIDE DEF x
<1>7. v3'[d] = x /\ \A e \in Devices : e # d => v3'[e] = v3[e]
    BY <1>0, <1>6 DEF KeyTypes
<1>8. /\ past' \in KeyPasts /\ past'.raced = past.raced /\ past'.unseen = past.unseen
      /\ ~past'.twice => ~past.twice /\ v2 = v3[d].flow.seen
      /\ ~past'.stale => ~past.stale /\ v3[d].flow.at = v8
    <2> DEFINE t == past.twice \/ v2 # v3[d].flow.seen
               s == past.stale \/ v3[d].flow.at # v8
    <2>1. t \in BOOLEAN /\ s \in BOOLEAN /\ past' = [past EXCEPT !.twice = t, !.stale = s]
        BY <1>1
    <2>2. (~t => ~past.twice /\ v2 = v3[d].flow.seen) /\ (~s => ~past.stale /\ v3[d].flow.at = v8)
        OBVIOUS
    <2> HIDE DEF t, s
    <2>3. past' \in KeyPasts /\ past'.twice = t /\ past'.stale = s /\ past'.raced = past.raced /\ past'.unseen = past.unseen
        BY <1>0, <2>1 DEF KeyTypes, KeyPasts
    <2> QED
        BY <2>2, <2>3
<1>9. KeyTypes'
    BY <1>0, <1>2, <1>3, <1>6, <1>8 DEF KeyTypes
<1>10. \A e \in Devices : KeyFlow(v3[e].flow)'
    <2>1. KeyFlow(x.flow)
        BY <1>0, <1>2, <1>3, <1>4, <1>6 DEF KeyFlow
    <2>2. \A e \in Devices : KeyFlow(v3'[e].flow)
        BY <1>7, <2>1 DEF KeyInv
    <2> QED
        BY <1>2, <2>2 DEF KeyFlow
<1>11. ASSUME ~past'.twice PROVE KeyOne'
    <2>1. KeyOne /\ v2 = Nil
        BY <1>2, <1>8, <1>11 DEF KeyInv
    <2>2. v4.key = Nil
        BY <2>1 DEF KeyOne
    <2>3. ASSUME NEW e \in Devices PROVE KeySame(v3'[e], v2')
        <3>1. KeySame(v3[e], v2) /\ v3[e].dek = Nil
            BY <2>1 DEF KeyOne, KeySame
        <3>2. CASE e = d
            BY <1>3, <1>4, <1>6, <1>7, <3>1, <3>2 DEF KeySame
        <3>3. CASE e # d
            BY <1>7, <2>1, <3>1, <3>3 DEF KeySame
        <3> QED
            BY <3>2, <3>3
    <2>4. v3'[d].flow.pc = "created"
        BY <1>4, <1>6, <1>7
    <2> QED
        BY <1>2, <1>3, <2>2, <2>3, <2>4 DEF KeyOne
<1>12. ASSUME ~past'.twice, ~past'.stale PROVE KeyOpens'
    <2>1. v3[d].flow.word = v1
        BY <1>0, <1>2, <1>8, <1>12 DEF KeyFlow
    <2> QED
        BY <1>2, <1>3, <2>1 DEF KeyOpens
<1> QED
    BY <1>2, <1>8, <1>9, <1>10, <1>11, <1>12 DEF KeyInv

\* The flow is over and the key is as it was.
LEMMA KeyEnds ==
    ASSUME KeyInv, NEW d \in Devices, v3' = [v3 EXCEPT ![d].flow = Key!Idle]
    PROVE  \E x \in KeyDevices : /\ v3' = [v3 EXCEPT ![d] = x] /\ KeyFlow(x.flow) /\ x.flow.pc = "idle"
                                 /\ x.dek = v3[d].dek /\ (KeyOne => KeySame(x, v2))
<1>0. KeyTypes
    BY DEF KeyInv
<1> DEFINE x == [v3[d] EXCEPT !.flow = Key!Idle]
<1>1. x \in KeyDevices /\ x.flow = Key!Idle /\ x.dek = v3[d].dek /\ v3' = [v3 EXCEPT ![d] = x]
    BY <1>0, KeyIdle DEF KeyTypes, KeyDevices
<1> HIDE DEF x
<1>2. KeyOne => KeySame(x, v2)
    BY <1>1, KeyIdle DEF KeyOne, KeySame
<1> QED
    BY <1>1, <1>2, KeyIdle

LEMMA KeyCut ==
    ASSUME KeyInv, NEW d \in Devices, Key!Cut(d)
    PROVE  KeyInv'
<1>0. past \in KeyPasts
    BY DEF KeyInv, KeyTypes
<1>1. v3' = [v3 EXCEPT ![d].flow = Key!Idle] /\ UNCHANGED <<v1, v2, v4, v6, v7, v8>>
    BY DEF Key!Cut, Key!Goto
<1>2. PICK x \in KeyDevices : /\ v3' = [v3 EXCEPT ![d] = x] /\ KeyFlow(x.flow) /\ x.flow.pc = "idle"
                              /\ x.dek = v3[d].dek /\ (KeyOne => KeySame(x, v2))
    BY <1>1, KeyEnds
<1>3. CASE v3[d].flow.pc = "created"
    <2>1. Key!Note("unseen")
        BY <1>3 DEF Key!Cut, Key!Flow
    <2> QED
        BY <1>0, <1>1, <1>2, <1>3, <2>1, KeyNotesPast, KeyMoves
<1>4. CASE v3[d].flow.pc \in {"changed", "rewrap"}
    <2>1. Key!Note("stale")
        BY <1>4 DEF Key!Cut, Key!Flow
    <2> QED
        BY <1>0, <1>1, <1>2, <1>4, <2>1, KeyNotesPast, KeyMoves
<1>5. CASE v3[d].flow.pc \notin {"created", "changed", "rewrap"}
    <2>1. past' = past
        BY <1>5 DEF Key!Cut, Key!Flow
    <2> QED
        BY <1>1, <1>2, <1>5, <2>1, KeyQuiet
<1> QED
    BY <1>3, <1>4, <1>5

LEMMA KeyStores ==
    ASSUME KeyInv, NEW d \in Devices, Key!storeDek(d)
    PROVE  KeyInv'
<1>0. KeyTypes /\ KeyFlow(v3[d].flow) /\ past \in KeyPasts
    BY DEF KeyInv, KeyTypes
<1>1. PICK e \in KeyEscrows : e = v3[d].flow.seen
    BY <1>0 DEF Key!storeDek, Key!Flow, KeyFlow
<1>2. /\ v3[d].flow.pc = "created" /\ v3' = [v3 EXCEPT ![d].flow = Key!Idle, ![d].dek = e.key]
      /\ v6' = v6 \cup {e.key} /\ UNCHANGED <<v1, v2, v4, v7, v8, past>>
    BY <1>1 DEF Key!storeDek, Key!Flow, Key!Took
<1>3. PICK k \in KeyIds \cup {Nil} : k = e.key
    BY DEF KeyEscrows
<1> DEFINE x == [v3[d] EXCEPT !.flow = Key!Idle, !.dek = k]
<1>4. x \in KeyDevices /\ x.flow = Key!Idle /\ x.dek = k /\ v3' = [v3 EXCEPT ![d] = x]
    BY <1>0, <1>2, <1>3, KeyIdle DEF KeyTypes, KeyDevices
<1> HIDE DEF x
<1>5. e # Nil
    BY NilIsNoKey DEF KeyEscrows
<1>6. KeyOne => KeySame(x, v2) /\ e.recovery = k
    BY <1>1, <1>2, <1>3, <1>4, <1>5, KeyIdle DEF KeyOne, KeySame
<1>7. CASE KeyOne
    BY <1>0, <1>1, <1>2, <1>3, <1>4, <1>6, <1>7, KeyIdle, KeyMoves
<1>8. CASE ~KeyOne
    <2>1. past.twice
        BY <1>8 DEF KeyInv
    <2>2. KeyTypes'
        BY <1>0, <1>2, <1>4 DEF KeyTypes
    <2>3. \A a \in Devices : KeyFlow(v3'[a].flow)
        <3>1. v3'[d] = x /\ \A a \in Devices : a # d => v3'[a] = v3[a]
            BY <1>0, <1>4 DEF KeyTypes
        <3> QED
            BY <1>4, <3>1, KeyIdle DEF KeyInv
    <2>4. \A a \in Devices : KeyFlow(v3[a].flow)'
        BY <1>2, <2>3 DEF KeyFlow
    <2> QED
        BY <1>2, <2>1, <2>2, <2>4 DEF KeyInv
<1> QED
    BY <1>7, <1>8

\* A recovery, or a change whose wrap comes now: the escrow is written.
LEMMA KeyWraps ==
    ASSUME KeyInv, NEW d \in Devices, NEW k \in KeyIds \cup {Nil}, v3[d].flow.pc \in {"recover", "rewrap"},
           KeyOne => k = v3[d].flow.seen.recovery,
           Key!Rewrapped(d, k), UNCHANGED <<v1, v4, v6, v7, v8>>,
           NEW x \in KeyDevices, v3' = [v3 EXCEPT ![d] = x], x.flow = Key!Idle,
           x.dek = k \/ (KeyOne => KeySame(x, v2))
    PROVE  KeyInv'
<1>0. KeyTypes /\ KeyFlow(v3[d].flow) /\ past \in KeyPasts
    BY DEF KeyInv, KeyTypes
<1>1. PICK s \in KeyEscrows : s = v3[d].flow.seen
    BY <1>0 DEF KeyFlow
<1>2. PICK w \in Passwords : w = v3[d].flow.word
    BY <1>0 DEF KeyFlow
<1>3. v2' = [s EXCEPT !.by = w, !.key = k]
    BY <1>1, <1>2 DEF Key!Rewrapped, Key!rewrapWithDek, Key!Flow
<1>4. v2' \in KeyEscrows /\ v2'.by = w /\ v2'.key = k /\ v2'.recovery = s.recovery
    BY <1>3 DEF KeyEscrows
<1>5. v2' # Nil /\ s # Nil
    BY <1>4, NilIsNoKey DEF KeyEscrows
<1>6. /\ past' \in KeyPasts /\ past'.twice = past.twice /\ past'.raced = past.raced /\ past'.unseen = past.unseen
      /\ ~past'.stale => ~past.stale /\ v3[d].flow.at = v8
    <2>1. CASE v3[d].flow.at # v8
        <3>1. Key!Note("stale")
            BY <2>1 DEF Key!Rewrapped, Key!Flow
        <3> QED
            BY <1>0, <3>1, KeyNotesPast
    <2>2. CASE v3[d].flow.at = v8
        BY <1>0, <2>2 DEF Key!Rewrapped, Key!Flow
    <2> QED
        BY <2>1, <2>2
<1>7. v3'[d] = x /\ \A e \in Devices : e # d => v3'[e] = v3[e]
    BY <1>0 DEF KeyTypes
<1>8. KeyTypes'
    BY <1>0, <1>4, <1>6 DEF KeyTypes
<1>9. \A e \in Devices : KeyFlow(v3[e].flow)'
    <2>1. \A e \in Devices : KeyFlow(v3'[e].flow)
        BY <1>7, KeyIdle DEF KeyInv
    <2> QED
        BY <2>1 DEF KeyFlow
<1>10. ASSUME KeyOne PROVE KeyOne'
    <2>1. v2 # Nil /\ s.recovery = v2.recovery /\ k = v2.recovery
        BY <1>1, <1>5, <1>10 DEF KeyOne, KeySame
    <2>2. ASSUME NEW e \in Devices PROVE KeySame(v3'[e], v2')
        <3>1. CASE e = d
            BY <1>4, <1>5, <1>7, <1>10, <2>1, <3>1, KeyIdle DEF KeySame
        <3>2. CASE e # d
            BY <1>4, <1>5, <1>7, <1>10, <2>1, <3>2 DEF KeyOne, KeySame
        <3> QED
            BY <3>1, <3>2
    <2>3. \A e \in Devices : v3[e].flow.pc = "created" => v3'[e].flow.pc = "created"
        BY <1>7
    <2> QED
        BY <1>4, <1>5, <1>6, <1>10, <2>1, <2>2, <2>3 DEF KeyOne
<1>11. ASSUME ~past'.stale PROVE KeyOpens'
    <2>1. w = v1
        BY <1>0, <1>2, <1>6, <1>11 DEF KeyFlow
    <2> QED
        BY <1>4, <2>1 DEF KeyOpens
<1> QED
    BY <1>6, <1>8, <1>9, <1>10, <1>11 DEF KeyInv

LEMMA KeyRecovered ==
    ASSUME KeyInv, NEW d \in Devices, Key!rewrapForNewPassword(d)
    PROVE  KeyInv'
<1>0. KeyTypes /\ KeyFlow(v3[d].flow)
    BY DEF KeyInv
<1>1. v3[d].flow.pc = "recover"
    BY DEF Key!rewrapForNewPassword, Key!At, Key!Flow
<1>2. PICK k \in KeyIds : k = v3[d].flow.seen.recovery
    BY <1>0, <1>1 DEF KeyFlow, KeyEscrows
<1>3. /\ v3' = [v3 EXCEPT ![d].flow = Key!Idle, ![d].dek = k] /\ Key!Rewrapped(d, k)
      /\ UNCHANGED <<v1, v4, v6, v7, v8>>
    BY <1>2 DEF Key!rewrapForNewPassword, Key!Flow, Key!Took
<1> DEFINE x == [v3[d] EXCEPT !.flow = Key!Idle, !.dek = k]
<1>4. x \in KeyDevices /\ x.flow = Key!Idle /\ x.dek = k /\ v3' = [v3 EXCEPT ![d] = x]
    BY <1>0, <1>3, KeyIdle DEF KeyTypes, KeyDevices
<1> HIDE DEF x
<1> QED
    BY <1>1, <1>2, <1>3, <1>4, KeyWraps

LEMMA KeyPuts ==
    ASSUME KeyInv, NEW d \in Devices, Key!putEscrow(d)
    PROVE  KeyInv'
<1>0. KeyTypes /\ KeyFlow(v3[d].flow)
    BY DEF KeyInv
<1>1. v3[d].flow.pc = "rewrap"
    BY DEF Key!putEscrow, Key!At, Key!Flow
<1>2. PICK k \in KeyIds \cup {Nil} : k = v3[d].dek
    BY <1>0 DEF KeyTypes, KeyDevices
<1>3. /\ v3' = [v3 EXCEPT ![d].flow = Key!Idle] /\ Key!Rewrapped(d, k)
      /\ UNCHANGED <<v1, v4, v6, v7, v8>>
    BY <1>2 DEF Key!putEscrow, Key!Goto
<1>4. KeyOne => k = v3[d].flow.seen.recovery
    <2>1. v3[d].flow.seen \in KeyEscrows
        BY <1>0, <1>1 DEF KeyFlow
    <2>2. v3[d].flow.seen # Nil
        BY <2>1, NilIsNoKey DEF KeyEscrows
    <2> QED
        BY <1>1, <1>2, <2>2 DEF KeyOne, KeySame
<1> DEFINE x == [v3[d] EXCEPT !.flow = Key!Idle]
<1>5. x \in KeyDevices /\ x.flow = Key!Idle /\ x.dek = k /\ v3' = [v3 EXCEPT ![d] = x]
    BY <1>0, <1>2, <1>3, KeyIdle DEF KeyTypes, KeyDevices
<1> HIDE DEF x
<1> QED
    BY <1>1, <1>3, <1>4, <1>5, KeyWraps

LEMMA KeyRewraps ==
    ASSUME KeyInv, NEW d \in Devices, Key!rewrapDekForNewPassword(d)
    PROVE  KeyInv'
<1>0. KeyTypes /\ KeyFlow(v3[d].flow) /\ v3[d].flow \in KeyFlows /\ past \in KeyPasts
    BY DEF KeyInv, KeyTypes, KeyDevices
<1>1. v3[d].flow.pc = "changed" /\ UNCHANGED <<v1, v2, v4, v6, v7, v8>>
    BY DEF Key!rewrapDekForNewPassword, Key!At, Key!Flow
<1>2. CASE v2 = Nil \/ v3[d].dek = Nil
    <2>1. v3' = [v3 EXCEPT ![d].flow = Key!Idle] /\ IF v2 # Nil THEN Key!Note("stale") ELSE UNCHANGED past
        BY <1>2 DEF Key!rewrapDekForNewPassword, Key!Goto
    <2>2. PICK x \in KeyDevices : /\ v3' = [v3 EXCEPT ![d] = x] /\ KeyFlow(x.flow) /\ x.flow.pc = "idle"
                                  /\ x.dek = v3[d].dek /\ (KeyOne => KeySame(x, v2))
        BY <2>1, KeyEnds
    <2>3. CASE v2 # Nil
        <3>1. Key!Note("stale")
            BY <2>1, <2>3
        <3> QED
            BY <1>0, <1>1, <2>2, <3>1, KeyNotesPast, KeyMoves
    <2>4. CASE v2 = Nil
        BY <1>0, <1>1, <2>1, <2>2, <2>4, KeyMoves
    <2> QED
        BY <2>3, <2>4
<1>3. CASE v2 # Nil /\ v3[d].dek # Nil
    <2> DEFINE f == [v3[d].flow EXCEPT !.pc = "rewrap", !.seen = v2]
               x == [v3[d] EXCEPT !.flow = f]
    <2>1. v3' = [v3 EXCEPT ![d].flow = f] /\ past' = past
        BY <1>3 DEF Key!rewrapDekForNewPassword, Key!Goto, Key!Flow
    <2>2. v2 \in KeyEscrows
        BY <1>0, <1>3 DEF KeyTypes
    <2>3. f \in KeyFlows /\ f.pc = "rewrap" /\ f.word = v3[d].flow.word /\ f.at = v3[d].flow.at /\ f.seen = v2
        BY <1>0, <2>2 DEF KeyFlows
    <2> HIDE DEF f
    <2>4. x \in KeyDevices /\ x.flow = f /\ x.dek = v3[d].dek /\ v3' = [v3 EXCEPT ![d] = x]
        BY <1>0, <2>1, <2>3 DEF KeyTypes, KeyDevices
    <2> HIDE DEF x
    <2>5. KeyFlow(x.flow)
        BY <1>0, <1>1, <2>2, <2>3, <2>4 DEF KeyFlow
    <2>6. KeyOne => KeySame(x, v2)
        BY <1>3, <2>3, <2>4 DEF KeyOne, KeySame
    <2> QED
        BY <1>0, <1>1, <2>1, <2>3, <2>4, <2>5, <2>6, KeyMoves
<1> QED
    BY <1>2, <1>3

LEMMA KeyChanges ==
    ASSUME KeyInv, NEW d \in Devices, Key!changePassword(d)
    PROVE  KeyInv'
<1>0. KeyTypes /\ KeyFlow(v3[d].flow) /\ v8 \in Nat
    BY DEF KeyInv, KeyTypes
<1>1. PICK p \in Passwords :
          v1' = p /\ v3' = [v3 EXCEPT ![d].flow = [pc |-> "changed", word |-> p, at |-> v8 + 1, seen |-> Nil]]
    BY DEF Key!changePassword, Key!Goto, Key!newWord
<1>2. v3[d].flow.pc = "idle" /\ v8' = v8 + 1 /\ UNCHANGED <<v2, v4, v6, v7, past>>
    BY DEF Key!changePassword, Key!At, Key!Flow
<1>3. PICK n \in Nat : n = v8 + 1
    BY <1>0
<1> DEFINE f == [pc |-> "changed", word |-> p, at |-> n, seen |-> Nil]
           x == [v3[d] EXCEPT !.flow = f]
<1>4. f \in KeyFlows /\ f.pc = "changed" /\ f.word = p /\ f.at = n /\ f.seen = Nil
    BY DEF KeyFlows
<1>5. v3' = [v3 EXCEPT ![d].flow = f]
    BY <1>1, <1>3
<1> HIDE DEF f
<1>6. x \in KeyDevices /\ x.flow = f /\ x.dek = v3[d].dek /\ v3' = [v3 EXCEPT ![d] = x]
    BY <1>0, <1>4, <1>5 DEF KeyTypes, KeyDevices
<1> HIDE DEF x
<1>7. v3'[d] = x /\ \A e \in Devices : e # d => v3'[e] = v3[e]
    BY <1>0, <1>6 DEF KeyTypes
<1>8. KeyTypes'
    BY <1>0, <1>1, <1>2, <1>3, <1>6 DEF KeyTypes
<1>9. ASSUME NEW e \in Devices PROVE KeyFlow(v3[e].flow)'
    <2>1. CASE e = d
        BY <1>1, <1>2, <1>3, <1>4, <1>6, <1>7, <2>1 DEF KeyFlow
    <2>2. CASE e # d
        <3>1. KeyFlow(v3[e].flow) /\ v3[e].flow \in KeyFlows
            BY <1>0 DEF KeyInv, KeyTypes, KeyDevices
        <3>2. v3[e].flow.at \in Nat
            BY <3>1 DEF KeyFlows
        <3> QED
            BY <1>0, <1>2, <1>7, <2>2, <3>1, <3>2 DEF KeyFlow
    <2> QED
        BY <2>1, <2>2
<1>10. KeyOne => KeyOne'
    <2>1. ASSUME KeyOne PROVE \A e \in Devices : KeySame(v3'[e], v2)
        BY <1>2, <1>4, <1>6, <1>7, <2>1 DEF KeyOne, KeySame
    <2>2. \A e \in Devices : v3[e].flow.pc = "created" => v3'[e].flow.pc = "created"
        BY <1>2, <1>7
    <2> QED
        BY <1>2, <2>1, <2>2 DEF KeyOne, KeySame
<1>11. KeyOpens'
    BY <1>2, <1>3, <1>4, <1>6, <1>7 DEF KeyOpens
<1> QED
    BY <1>2, <1>8, <1>9, <1>10, <1>11 DEF KeyInv

LEMMA KeyResets ==
    ASSUME KeyInv, Key!resetPassword
    PROVE  KeyInv'
<1>0. KeyTypes /\ v8 \in Nat /\ past \in KeyPasts
    BY DEF KeyInv, KeyTypes
<1>1. /\ v1' \in Passwords /\ v8' = v8 + 1 /\ UNCHANGED <<v2, v4, v6, v7>>
      /\ v3' = [e \in Devices |-> [v3[e] EXCEPT !.in = FALSE]] /\ Key!Note("stale")
    BY DEF Key!resetPassword
<1>2. /\ past' \in KeyPasts /\ past'.twice = past.twice /\ past'.unseen = past.unseen /\ past'.stale
      /\ past'.raced = past.raced
    BY <1>0, <1>1, KeyNotesPast
<1>3. \A e \in Devices : v3'[e] \in KeyDevices /\ v3'[e].flow = v3[e].flow /\ v3'[e].dek = v3[e].dek
    BY <1>0, <1>1 DEF KeyTypes, KeyDevices
<1>4. v3' \in [Devices -> KeyDevices]
    BY <1>1, <1>3
<1>5. v8' \in Nat
    BY <1>0, <1>1
<1>6. KeyTypes'
    BY <1>0, <1>1, <1>2, <1>4, <1>5 DEF KeyTypes
<1>7. ASSUME NEW e \in Devices PROVE KeyFlow(v3[e].flow)'
    <2>1. KeyFlow(v3[e].flow) /\ v3[e].flow \in KeyFlows
        BY <1>0 DEF KeyInv, KeyTypes, KeyDevices
    <2>2. v3[e].flow.at \in Nat
        BY <2>1 DEF KeyFlows
    <2> QED
        BY <1>0, <1>1, <1>3, <2>1, <2>2 DEF KeyFlow
<1>8. KeyOne => KeyOne'
    <2>1. ASSUME KeyOne PROVE \A e \in Devices : KeySame(v3'[e], v2)
        BY <1>3, <2>1 DEF KeyOne, KeySame
    <2>2. \A e \in Devices : v3[e].flow.pc = "created" => v3'[e].flow.pc = "created"
        BY <1>3
    <2> QED
        BY <1>1, <1>2, <2>1, <2>2 DEF KeyOne, KeySame
<1> QED
    BY <1>1, <1>2, <1>6, <1>7, <1>8 DEF KeyInv

\* The note is written with the key of a device that has it.
LEMMA KeyWrites ==
    ASSUME KeyInv, NEW d \in Devices, NEW x \in KeyDevices, v3' = [v3 EXCEPT ![d] = x],
           KeyFlow(x.flow), x.dek = v3[d].dek, KeyOne => KeySame(x, v2),
           v3[d].flow.pc \notin {"created", "changed", "rewrap"},
           UNCHANGED <<v1, v2, v6, v8>>, v7' \in Nat, v4' \in KeyNotes,
           v4'.key = v3[d].dek, past' \in KeyPasts, past'.twice = past.twice, past'.unseen = past.unseen,
           past'.stale = past.stale, v4'.text = v7' \/ past'.raced
    PROVE  KeyInv'
<1>0. KeyTypes
    BY DEF KeyInv
<1>1. v3'[d] = x /\ \A e \in Devices : e # d => v3'[e] = v3[e]
    BY <1>0 DEF KeyTypes
<1>2. KeyTypes'
    BY <1>0 DEF KeyTypes
<1>3. \A e \in Devices : KeyFlow(v3'[e].flow)
    BY <1>1 DEF KeyInv
<1>4. \A e \in Devices : KeyFlow(v3[e].flow)'
    BY <1>1, <1>3 DEF KeyFlow
<1>5. KeyOne => KeyOne'
    <2>1. ASSUME KeyOne PROVE \A e \in Devices : KeySame(v3'[e], v2)
        BY <1>1, <2>1 DEF KeyOne
    <2>2. \A e \in Devices : v3[e].flow.pc = "created" => v3'[e].flow.pc = "created"
        BY <1>1
    <2>3. KeyOne => (v4'.key # Nil => v2 # Nil /\ v4'.key = v2.recovery)
        BY DEF KeyOne, KeySame
    <2> QED
        BY <2>1, <2>2, <2>3 DEF KeyOne, KeySame
<1>6. KeyOpens => KeyOpens'
    <2>1. \A e \in Devices : v3[e].flow.pc \in {"changed", "rewrap"} => v3'[e] = v3[e]
        BY <1>1
    <2> QED
        BY <2>1 DEF KeyOpens
<1> QED
    BY <1>2, <1>4, <1>5, <1>6 DEF KeyInv

LEMMA KeySaves ==
    ASSUME KeyInv, NEW d \in Devices, Key!SaveNote(d) \/ Key!MigrateNote(d)
    PROVE  KeyInv'
<1>0. KeyTypes /\ v3[d] \in KeyDevices /\ KeyFlow(v3[d].flow) /\ past \in KeyPasts /\ v7 \in Nat
    BY DEF KeyInv, KeyTypes
<1>1. CASE Key!SaveNote(d)
    <2>1. PICK n \in Nat : n = v7 + 1
        BY <1>0
    <2>2. /\ v3[d].flow.pc = "idle" /\ v7' = n /\ v4' = [text |-> n, key |-> v3[d].dek]
          /\ UNCHANGED <<v1, v2, v3, v6, v8, past>>
        BY <1>1, <2>1 DEF Key!SaveNote, Key!At, Key!Flow
    <2>3. v4' \in KeyNotes /\ v4'.key = v3[d].dek /\ v4'.text = n
        BY <1>0, <2>2 DEF KeyNotes, KeyDevices
    <2>4. v3' = [v3 EXCEPT ![d] = v3[d]]
        BY <1>0, <2>2 DEF KeyTypes
    <2>5. KeyOne => KeySame(v3[d], v2)
        BY DEF KeyOne
    <2> QED
        BY <1>0, <2>2, <2>3, <2>4, <2>5, KeyWrites
<1>2. CASE Key!MigrateNote(d)
    <2>1. /\ v3[d].flow.pc = "migrate" /\ v3' = [v3 EXCEPT ![d].flow = Key!Idle, ![d].done = TRUE]
          /\ v4' = [text |-> v3[d].flow.seen.text, key |-> v3[d].dek]
          /\ IF v4 # v3[d].flow.seen THEN Key!Note("raced") ELSE UNCHANGED past
          /\ UNCHANGED <<v1, v2, v6, v7, v8>>
        BY <1>2 DEF Key!MigrateNote, Key!At, Key!Flow, Key!payload
    <2>2. v3[d].flow.seen \in KeyNotes
        BY <1>0, <2>1 DEF KeyFlow
    <2>3. v4' \in KeyNotes /\ v4'.key = v3[d].dek /\ v4'.text = v3[d].flow.seen.text
        BY <1>0, <2>1, <2>2 DEF KeyNotes, KeyDevices
    <2>4. /\ past' \in KeyPasts /\ past'.twice = past.twice /\ past'.unseen = past.unseen
          /\ past'.stale = past.stale /\ (v4'.text = v7' \/ past'.raced)
        <3>1. CASE v4 # v3[d].flow.seen
            BY <1>0, <2>1, <3>1, KeyNotesPast
        <3>2. CASE v4 = v3[d].flow.seen
            BY <1>0, <2>1, <2>3, <3>2 DEF KeyInv
        <3> QED
            BY <3>1, <3>2
    <2> DEFINE x == [v3[d] EXCEPT !.flow = Key!Idle, !.done = TRUE]
    <2>5. x \in KeyDevices /\ x.flow = Key!Idle /\ x.dek = v3[d].dek /\ v3' = [v3 EXCEPT ![d] = x]
        BY <1>0, <2>1, KeyIdle DEF KeyTypes, KeyDevices
    <2> HIDE DEF x
    <2>6. KeyOne => KeySame(x, v2)
        BY <2>5, KeyIdle DEF KeyOne, KeySame
    <2>7. v7' \in Nat
        BY <1>0, <2>1
    <2> QED
        BY <2>1, <2>3, <2>4, <2>5, <2>6, <2>7, KeyIdle, KeyWrites
<1> QED
    BY <1>1, <1>2

\* The recovery code opens the key of the notes, the password opens it too, and the
\* migration keeps the newest text, unless what `past' notes has happened.
THEOREM KeysAreKept == Spec => []KeyIsKept
<1> DEFINE I == part = "keys" => KeyInv
<1>1. Init => I
    BY KeyInit
<1>2. I /\ [Next]_allVars => I'
    <2> SUFFICES ASSUME I, [Next]_allVars, part' = "keys" PROVE KeyInv'
        OBVIOUS
    <2>1. part = "keys"
        BY DEF Next, allVars
    <2>2. KeyInv /\ (Key!Next \/ UNCHANGED <<v1, v2, v3, v4, v5, v6, v7, v8, past>>)
        BY <2>1, KeySteps
    <2>3. CASE UNCHANGED <<v1, v2, v3, v4, v5, v6, v7, v8, past>>
        BY <2>2, <2>3 DEF KeyInv, KeyTypes, KeyFlow, KeyOne, KeyOpens, KeySame
    <2>4. CASE Key!Next
        BY <2>2, <2>4, KeyReads, KeyCreates, KeyStores, KeyUnlocks, KeyRecovers, KeyRecovered, KeyChanges, KeyRewraps,
           KeyPuts, KeySaves, KeyMigrates, KeyCut, KeyLogout, KeyResets DEF Key!Next
    <2> QED
        BY <2>2, <2>3, <2>4
<1>3. I => KeyIsKept
    <2> SUFFICES ASSUME KeyInv
                 PROVE  Key!NotesRecoverable /\ Key!PasswordOpensKey /\ Key!MigrationKeepsEdits
        BY DEF KeyIsKept
    <2>1. Key!MigrationKeepsEdits
        BY DEF KeyInv, Key!MigrationKeepsEdits
    <2>2. Key!PasswordOpensKey
        BY DEF KeyInv, KeyOne, KeyOpens, Key!PasswordOpensKey, Key!Flow
    <2>3. Key!NotesRecoverable
        <3>1. SUFFICES ASSUME v4.key # Nil, ~past.twice
                       PROVE  /\ v2 # Nil /\ v2.recovery = v4.key
                              /\ \/ past.unseen \/ v4.key \in v6
                                 \/ \E d \in Devices : v3[d].flow.pc = "created"
            BY DEF Key!NotesRecoverable, Key!Flow
        <3>2. KeyOne
            BY <3>1 DEF KeyInv
        <3> QED
            BY <3>1, <3>2 DEF KeyOne
    <2> QED
        BY <2>1, <2>2, <2>3
<1> HIDE DEF I
<1> QED
    BY <1>1, <1>2, <1>3, PTL DEF Spec, allVars

-------------------------------------------------------------------------------
(* A collection on the device: v1 is the mirror in memory, v2 the file, v3   *)
(* the old key, v4 the writes, v5 the calls, v6 the lock, v7 the wipe, v9    *)
(* what was reported.                                                        *)

StoreItems == {"x", "y"}
StoreTexts == {{}} \cup {{s} : s \in SUBSET StoreItems}

\* A call, and a text that is there.
StoreCalls  == [pc : {"wait", "info", "get", "legacy", "moving", "drop", "back", "saving"},
                kind : {"read", "locked", "free"}, add : BOOLEAN, item : StoreItems, copy : SUBSET StoreItems]
StoreWrites == [by : 1..2, what : {{s} : s \in SUBSET StoreItems}]

StoreTypes ==
    /\ v1 \in StoreTexts /\ v2 \in StoreTexts /\ v3 \in StoreTexts
    /\ v4 \in Seq(StoreWrites) /\ v5 \in [1..2 -> StoreCalls \cup {Store!Idle}] /\ v6 \in Seq(1..2)
    /\ v9 \in [StoreItems -> {"in", "out"}]

\* What is on the disk, and what is on it before and after a write.
OnDisk    == IF v2 # {} THEN Store!parsed(v2) ELSE Store!parsed(v3)
Before(k) == IF k = 1 THEN OnDisk ELSE Store!parsed(v4[k - 1].what)
Newest    == IF v4 = <<>> THEN OnDisk ELSE Store!parsed(v4[Len(v4)].what)

Changed(a, s) == IF v5[a].add THEN s \cup {v5[a].item} ELSE s \ {v5[a].item}

StoreReads(a) == v5[a].pc \in {"info", "get", "legacy", "moving", "drop", "back"}

\* The disk has what was reported, and the writes take it to what the mirror has.
StoreDisk ==
    /\ \A i \in StoreItems : v9[i] = "in" <=> i \in OnDisk
    /\ v3 # {} => Store!parsed(v3) = OnDisk /\ (v2 # {} => \E a \in 1..2 : v5[a].pc = "drop")
    /\ v1 # {} /\ v7 # "deleted" => v1 = {Newest} /\ (v2 = {} => v3 = {})

StoreQueue ==
    /\ \A k \in 1..Len(v4), a \in 1..2 : v4[k].by = a =>
           /\ v5[a].pc \in {"moving", "saving"}
           /\ v5[a].pc = "moving" => v4[k].what = {OnDisk}
           /\ v5[a].pc = "saving" => v4[k].what = {Changed(a, Before(k))}
    /\ \A j, k \in 1..Len(v4) : v4[j].by = v4[k].by => j = k
    /\ \A a \in 1..2 : v5[a].pc \in {"moving", "saving"} => \E k \in 1..Len(v4) : v4[k].by = a

\* What each call relies on between two awaits.
StoreCall(a) ==
    /\ v5[a].pc = "legacy" => v2 = {} \/ v3 # {}
    /\ v5[a].pc \in {"get", "drop"} => v2 # {}
    /\ v5[a].pc \in {"moving", "drop", "back"} => v5[a].copy = OnDisk
    /\ v5[a].pc = "moving" => v2 # {} \/ v3 # {}
    /\ v5[a].pc = "back" => v2 # {} \/ v3 = {}
    /\ v5[a].pc = "saving" => v1 # {} /\ \A b \in 1..2 : ~StoreReads(b)
    /\ v5[a].pc \notin {"idle", "wait"} /\ v5[a].kind = "locked" => v6 # <<>> /\ Head(v6) = a
    /\ v5[a].pc = "wait" /\ v5[a].kind = "locked" => \E i \in 1..Len(v6) : v6[i] = a
    /\ v7 = "deleted" => v5[a] = Store!Idle

StoreNow == StoreTypes /\ StoreDisk /\ StoreQueue /\ \A a \in 1..2 : StoreCall(a)

StoreInv == past = {} => StoreNow

LEMMA StoreSteps ==
    ASSUME [Next]_allVars, part = "store"
    PROVE  part' = "store" /\ (Store!Next \/ UNCHANGED <<v1, v2, v3, v4, v5, v6, v7, v9, past>>)
BY DEF Next, allVars

LEMMA StoreParsed ==
    Store!parsed({}) = {} /\ \A s \in SUBSET StoreItems : Store!parsed({s}) = s /\ {s} # {}
<1>1. ASSUME NEW s \in SUBSET StoreItems PROVE Store!parsed({s}) = s
    <2>1. {s} # {Store!Torn} /\ {s} # {}
        BY DEF StoreItems, Store!Torn
    <2> QED
        BY <2>1 DEF Store!parsed
<1>2. Store!parsed({}) = {}
    BY DEF Store!parsed
<1> QED
    BY <1>1, <1>2

\* A text that is there has a content.
LEMMA StoreText ==
    ASSUME NEW t \in StoreTexts
    PROVE  /\ Store!parsed(t) \in SUBSET StoreItems
           /\ t # {} => t = {Store!parsed(t)}
<1>1. CASE t = {}
    BY <1>1, StoreParsed
<1>2. ASSUME NEW s \in SUBSET StoreItems, t = {s} PROVE Store!parsed(t) \in SUBSET StoreItems /\ t = {Store!parsed(t)}
    <2>1. Store!parsed(t) = s
        BY <1>2, StoreParsed
    <2> QED
        BY <1>2, <2>1
<1> QED
    BY <1>1, <1>2 DEF StoreTexts

LEMMA StoreContents ==
    ASSUME StoreTypes
    PROVE  /\ OnDisk \in SUBSET StoreItems /\ Newest \in SUBSET StoreItems
           /\ \A k \in 1..Len(v4) : /\ v4[k] \in StoreWrites /\ v4[k].by \in 1..2
                                    /\ Store!parsed(v4[k].what) \in SUBSET StoreItems
           /\ Len(v4) \in Nat /\ (v4 = <<>> <=> Len(v4) = 0)
<1>1. OnDisk \in SUBSET StoreItems
    BY StoreText DEF StoreTypes, OnDisk
<1>2. v4 \in Seq(StoreWrites)
    BY DEF StoreTypes
<1>3. Len(v4) \in Nat /\ (v4 = <<>> <=> Len(v4) = 0)
    BY <1>2
<1>4. ASSUME NEW k \in 1..Len(v4)
      PROVE  v4[k] \in StoreWrites /\ v4[k].by \in 1..2 /\ Store!parsed(v4[k].what) \in SUBSET StoreItems
    <2>1. v4[k] \in StoreWrites
        BY <1>2
    <2>2. v4[k].by \in 1..2 /\ v4[k].what \in StoreTexts
        BY <2>1 DEF StoreWrites, StoreTexts
    <2> QED
        BY <2>1, <2>2, StoreText
<1>5. v4 # <<>> => Len(v4) \in 1..Len(v4)
    BY <1>3
<1> QED
    BY <1>1, <1>3, <1>4, <1>5 DEF Newest

LEMMA StoreShapes ==
    ASSUME StoreTypes, NEW a \in 1..2
    PROVE  /\ v5[a] = Store!Idle <=> v5[a].pc = "idle"
           /\ v5[a] # Store!Idle => v5[a] \in StoreCalls
           /\ v5[a].pc \in {"idle", "wait", "info", "get", "legacy", "moving", "drop", "back", "saving"}
<1>1. v5[a] \in StoreCalls \cup {Store!Idle}
    BY DEF StoreTypes
<1>2. v5[a] \in StoreCalls => v5[a].pc \in {"wait", "info", "get", "legacy", "moving", "drop", "back", "saving"}
    BY DEF StoreCalls
<1>3. Store!Idle.pc = "idle"
    BY DEF Store!Idle
<1> QED
    BY <1>1, <1>2, <1>3

\* A call that goes on is otherwise what it was.
LEMMA StoreGoto ==
    ASSUME StoreTypes, NEW a \in 1..2, v5[a] # Store!Idle,
           NEW pc \in {"wait", "info", "get", "legacy", "moving", "drop", "back", "saving"}
    PROVE  /\ Store!Goto(a, pc) => \E c \in StoreCalls :
                  /\ v5' = [v5 EXCEPT ![a] = c] /\ c.pc = pc /\ c.kind = v5[a].kind
                  /\ c.add = v5[a].add /\ c.item = v5[a].item /\ c.copy = v5[a].copy
           /\ \A s \in SUBSET StoreItems :
                  Store!Load(a, pc, s) => \E c \in StoreCalls :
                      /\ v5' = [v5 EXCEPT ![a] = c] /\ c.pc = pc /\ c.kind = v5[a].kind
                      /\ c.add = v5[a].add /\ c.item = v5[a].item /\ c.copy = s
<1>1. v5[a] \in StoreCalls
    BY StoreShapes
<1>2. PICK old \in StoreCalls : old = v5[a]
    BY <1>1
<1>3. ASSUME Store!Goto(a, pc)
      PROVE  \E c \in StoreCalls : /\ v5' = [v5 EXCEPT ![a] = c] /\ c.pc = pc /\ c.kind = v5[a].kind
                                   /\ c.add = v5[a].add /\ c.item = v5[a].item /\ c.copy = v5[a].copy
    <2> DEFINE c == [old EXCEPT !.pc = pc]
    <2>1. /\ c \in StoreCalls /\ c.pc = pc /\ c.kind = old.kind
          /\ c.add = old.add /\ c.item = old.item /\ c.copy = old.copy
        BY DEF StoreCalls
    <2>2. v5' = [v5 EXCEPT ![a] = c]
        BY <1>2, <1>3 DEF Store!Goto
    <2> HIDE DEF c
    <2> QED
        BY <1>2, <2>1, <2>2
<1>4. ASSUME NEW s \in SUBSET StoreItems, Store!Load(a, pc, s)
      PROVE  \E c \in StoreCalls : /\ v5' = [v5 EXCEPT ![a] = c] /\ c.pc = pc /\ c.kind = v5[a].kind
                                   /\ c.add = v5[a].add /\ c.item = v5[a].item /\ c.copy = s
    <2> DEFINE d == [old EXCEPT !.pc = pc]
               c == [d EXCEPT !.copy = s]
               f == [v5 EXCEPT ![a].pc = pc]
    <2>1. /\ d \in StoreCalls /\ d.pc = pc /\ d.kind = old.kind
          /\ d.add = old.add /\ d.item = old.item
        BY DEF StoreCalls
    <2>2. f = [v5 EXCEPT ![a] = d]
        BY <1>2
    <2> HIDE DEF d
    <2>3. /\ c \in StoreCalls /\ c.pc = pc /\ c.kind = old.kind
          /\ c.add = old.add /\ c.item = old.item /\ c.copy = s
        BY <2>1 DEF StoreCalls
    <2>4. v5' = [f EXCEPT ![a] = [f[a] EXCEPT !.copy = s]]
        BY <1>4 DEF Store!Load
    <2> HIDE DEF f
    <2>5. f[a] = d
        BY <2>2 DEF StoreTypes
    <2>6. v5' = [f EXCEPT ![a] = c]
        BY <2>4, <2>5
    <2> HIDE DEF c
    <2>7. v5' = [v5 EXCEPT ![a] = c]
        BY <2>2, <2>6
    <2> QED
        BY <1>2, <2>3, <2>7
<1> QED
    BY <1>3, <1>4

\* While somebody reads, nobody saves, and the writes under way move the old key.
LEMMA StoreReading ==
    ASSUME StoreNow, NEW a \in 1..2, StoreReads(a)
    PROVE  Newest = OnDisk /\ \A b \in 1..2 : v5[b].pc # "saving"
<1>1. \A b \in 1..2 : v5[b].pc # "saving"
    BY DEF StoreNow, StoreCall
<1>2. StoreTypes /\ StoreQueue
    BY DEF StoreNow
<1>3. CASE v4 # <<>>
    <2> DEFINE n == Len(v4)
    <2>1. n \in 1..Len(v4) /\ v4[n].by \in 1..2 /\ OnDisk \in SUBSET StoreItems
        BY <1>2, <1>3, StoreContents
    <2>2. v4[n].what = {OnDisk}
        BY <1>1, <1>2, <2>1 DEF StoreQueue
    <2>3. Store!parsed(v4[n].what) = OnDisk
        BY <2>1, <2>2, StoreParsed
    <2>4. Newest = Store!parsed(v4[n].what)
        BY <1>3, Zenon DEF Newest
    <2> QED
        BY <1>1, <2>3, <2>4
<1>4. CASE v4 = <<>>
    BY <1>1, <1>4 DEF Newest
<1> QED
    BY <1>3, <1>4

LEMMA StoreInit == Init /\ part = "store" => StoreInv
<1> SUFFICES ASSUME Store!Init PROVE StoreNow
    BY DEF Init, StoreInv
<1>1. /\ v1 = {} /\ v4 = <<>> /\ v6 = <<>> /\ v7 = "no" /\ v5 = [a \in 1..2 |-> Store!Idle] /\ past = {}
    BY DEF Store!Init
<1>2. PICK s \in SUBSET StoreItems : /\ \/ v2 = {s} /\ v3 = {}
                                        \/ v2 = {} /\ v3 = {s}
                                     /\ v9 = [i \in StoreItems |-> IF i \in s THEN "in" ELSE "out"]
    BY DEF Store!Init, StoreItems
<1>3. OnDisk = s /\ (v3 # {} => v2 = {} /\ Store!parsed(v3) = s)
    BY <1>2, StoreParsed DEF OnDisk
<1>4. StoreTypes
    <2>1. v2 \in StoreTexts /\ v3 \in StoreTexts /\ v1 \in StoreTexts
        BY <1>1, <1>2 DEF StoreTexts
    <2>2. v4 \in Seq(StoreWrites) /\ v6 \in Seq(1..2)
        BY <1>1
    <2> QED
        BY <1>1, <1>2, <2>1, <2>2 DEF StoreTypes
<1>5. StoreDisk
    BY <1>1, <1>2, <1>3 DEF StoreDisk
<1>6. StoreQueue
    <2>1. Len(v4) = 0 /\ \A a \in 1..2 : v5[a].pc = "idle"
        BY <1>1 DEF Store!Idle
    <2> QED
        BY <2>1 DEF StoreQueue
<1>7. ASSUME NEW a \in 1..2 PROVE StoreCall(a)
    BY <1>1 DEF StoreCall, Store!Idle
<1> QED
    BY <1>4, <1>5, <1>6, <1>7 DEF StoreNow

\* A step of one call that writes nothing and saves nothing.
LEMMA StoreCalm ==
    ASSUME StoreNow, NEW a \in 1..2, NEW c \in StoreCalls \cup {Store!Idle}, v5' = [v5 EXCEPT ![a] = c],
           v2' = v2, v3' = v3, v4' = v4, v7' = v7, v9' = v9,
           v5[a].pc \notin {"moving", "saving", "drop"}, c.pc \notin {"moving", "saving", "drop"},
           v1' = v1 \/ (v1' = {OnDisk} /\ StoreReads(a) /\ (v2 = {} => v3 = {})),
           v6' = v6 \/ v6' = Append(v6, a),
           c.pc \in {"info", "get", "legacy", "back"} => StoreReads(a) \/ v1 = {},
           c.pc \notin {"idle", "wait"} /\ c.kind = "locked" => v6 # <<>> /\ Head(v6) = a,
           c.pc = "legacy" => v2 = {} \/ v3 # {}, c.pc = "get" => v2 # {},
           c.pc = "back" => c.copy = OnDisk /\ (v2 # {} \/ v3 = {}),
           c.pc = "wait" => v6' = IF c.kind = "locked" THEN Append(v6, a) ELSE v6,
           v7 = "deleted" => c = Store!Idle
    PROVE  StoreNow'
<1>1. StoreTypes /\ StoreDisk /\ StoreQueue /\ \A b \in 1..2 : StoreCall(b)
    BY DEF StoreNow
<1>2. v5'[a] = c /\ \A b \in 1..2 : b # a => v5'[b] = v5[b]
    BY <1>1 DEF StoreTypes
<1>3. OnDisk' = OnDisk /\ Newest' = Newest /\ \A k : Before(k)' = Before(k)
    BY DEF OnDisk, Newest, Before
<1>4. OnDisk \in SUBSET StoreItems /\ Len(v4) \in Nat /\ \A k \in 1..Len(v4) : v4[k].by \in 1..2
    BY <1>1, StoreContents
<1>5. /\ v6' \in Seq(1..2) /\ (v6 # <<>> => v6' # <<>> /\ Head(v6') = Head(v6))
      /\ \A b \in 1..2 : (\E i \in 1..Len(v6) : v6[i] = b) => \E i \in 1..Len(v6') : v6'[i] = b
      /\ v6' = Append(v6, a) => \E i \in 1..Len(v6') : v6'[i] = a
    <2>1. v6 \in Seq(1..2)
        BY <1>1 DEF StoreTypes
    <2>2. CASE v6' = Append(v6, a)
        <3>1. /\ v6' \in Seq(1..2) /\ Len(v6') = Len(v6) + 1 /\ v6'[Len(v6) + 1] = a
              /\ \A i \in 1..Len(v6) : v6'[i] = v6[i]
              /\ v6 # <<>> => v6' # <<>> /\ Head(v6') = Head(v6)
            BY <2>1, <2>2
        <3>2. Len(v6) + 1 \in 1..Len(v6') /\ \A i \in 1..Len(v6) : i \in 1..Len(v6')
            BY <2>1, <3>1
        <3> QED
            BY <3>1, <3>2
    <2> QED
        BY <2>1, <2>2
<1>6. StoreTypes'
    <2>1. v5' \in [1..2 -> StoreCalls \cup {Store!Idle}]
        BY <1>1 DEF StoreTypes
    <2>2. {OnDisk} \in StoreTexts
        BY <1>4 DEF StoreTexts
    <2> QED
        BY <1>1, <1>5, <2>1, <2>2 DEF StoreTypes
<1>7. StoreDisk'
    <2>1. \A i \in StoreItems : v9[i] = "in" <=> i \in OnDisk
        BY <1>1 DEF StoreDisk
    <2>2. v3 # {} => Store!parsed(v3) = OnDisk /\ (v2 # {} => \E b \in 1..2 : v5'[b].pc = "drop")
        BY <1>1, <1>2 DEF StoreDisk
    <2>3. v1' # {} /\ v7 # "deleted" => v1' = {Newest} /\ (v2 = {} => v3 = {})
        <3>1. CASE v1' = v1
            BY <1>1, <3>1 DEF StoreDisk
        <3>2. CASE v1' = {OnDisk} /\ StoreReads(a) /\ (v2 = {} => v3 = {})
            BY <3>2, StoreReading
        <3> QED
            BY <3>1, <3>2
    <2> QED
        BY <1>3, <2>1, <2>2, <2>3 DEF StoreDisk
<1>8. StoreQueue'
    <2>1. ASSUME NEW k \in 1..Len(v4), NEW b \in 1..2, v4[k].by = b
          PROVE  /\ v5'[b].pc \in {"moving", "saving"}
                 /\ v5'[b].pc = "moving" => v4[k].what = {OnDisk}
                 /\ v5'[b].pc = "saving" => v4[k].what = {Changed(b, Before(k))'}
        <3>2. /\ v5[b].pc \in {"moving", "saving"} /\ (v5[b].pc = "moving" => v4[k].what = {OnDisk})
              /\ v5[b].pc = "saving" => v4[k].what = {Changed(b, Before(k))}
            BY <1>1, <2>1 DEF StoreQueue
        <3>3. v5'[b] = v5[b]
            BY <1>2, <3>2
        <3>4. Changed(b, Before(k))' = Changed(b, Before(k))
            BY <1>3, <3>3 DEF Changed
        <3> QED
            BY <3>2, <3>3, <3>4
    <2>2. ASSUME NEW b \in 1..2, v5'[b].pc \in {"moving", "saving"} PROVE \E k \in 1..Len(v4) : v4[k].by = b
        BY <1>1, <1>2, <2>2 DEF StoreQueue
    <2>3. \A j, k \in 1..Len(v4) : v4[j].by = v4[k].by => j = k
        BY <1>1 DEF StoreQueue
    <2> QED
        BY <1>3, <2>1, <2>2, <2>3 DEF StoreQueue
<1>9. ASSUME NEW b \in 1..2 PROVE StoreCall(b)'
    <2>1. CASE b = a
        BY <1>2, <1>3, <1>5, <2>1 DEF StoreCall, Store!Idle
    <2>2. CASE b # a
        <3>1. StoreCall(b) /\ v5'[b] = v5[b]
            BY <1>1, <1>2, <2>2
        <3>2. v5[b].pc = "saving" => v1' # {} /\ \A d \in 1..2 : ~StoreReads(d)'
            <4>1. v5[b].pc = "saving" => v1 # {} /\ \A d \in 1..2 : ~StoreReads(d)
                BY <3>1 DEF StoreCall
            <4>2. v5[b].pc = "saving" => c.pc \notin {"info", "get", "legacy", "moving", "drop", "back"}
                BY <4>1
            <4> QED
                BY <1>2, <4>1, <4>2 DEF StoreReads
        <3> QED
            BY <1>3, <1>5, <3>1, <3>2 DEF StoreCall
    <2> QED
        BY <2>1, <2>2
<1> QED
    BY <1>6, <1>7, <1>8, <1>9 DEF StoreNow

LEMMA StoreCalls1 ==
    ASSUME StoreNow, past = {}, past' = {}, NEW a \in 1..2,
           Store!Call(a) \/ Store!Info(a) \/ Store!Get(a)
    PROVE  StoreNow'
<1>1. StoreTypes /\ StoreCall(a)
    BY DEF StoreNow
<1>2. v5[a] \in StoreCalls \/ v5[a] = Store!Idle
    BY <1>1 DEF StoreTypes
<1>3. CASE Store!Call(a)
    <2>1. /\ v5[a] = Store!Idle /\ v1' = v1 /\ v2' = v2 /\ v3' = v3 /\ v4' = v4 /\ v7' = v7 /\ v9' = v9
          /\ v7 # "deleted"
        BY <1>3 DEF Store!Call
    <2>2. PICK kind \in {"read", "locked", "free"}, add \in BOOLEAN, i \in StoreItems :
              /\ v5' = [v5 EXCEPT ![a] = [pc |-> "wait", kind |-> kind, add |-> add, item |-> i, copy |-> {}]]
              /\ v6' = IF kind = "locked" THEN Append(v6, a) ELSE v6
        BY <1>3 DEF Store!Call, StoreItems
    <2>3. PICK c \in StoreCalls : v5' = [v5 EXCEPT ![a] = c] /\ c.pc = "wait" /\ c.kind = kind
        <3>1. [pc |-> "wait", kind |-> kind, add |-> add, item |-> i, copy |-> {}] \in StoreCalls
            BY DEF StoreCalls
        <3> QED
            BY <2>2, <3>1
    <2>4. v5[a].pc = "idle"
        BY <1>1, <2>1, StoreShapes
    <2> QED
        BY <2>1, <2>2, <2>3, <2>4, StoreCalm
<1>4. CASE Store!Info(a)
    <2> DEFINE pc == IF v2 = {} THEN "legacy" ELSE "get"
    <2>1. /\ v5[a].pc = "info" /\ Store!Goto(a, pc) /\ pc \in {"legacy", "get"}
          /\ v1' = v1 /\ v2' = v2 /\ v3' = v3 /\ v4' = v4 /\ v6' = v6 /\ v7' = v7 /\ v9' = v9
        BY <1>4 DEF Store!Info, Store!At
    <2>2. v5[a] # Store!Idle
        BY <1>1, <2>1, StoreShapes
    <2>3. PICK c \in StoreCalls : v5' = [v5 EXCEPT ![a] = c] /\ c.pc = pc /\ c.kind = v5[a].kind
        BY <1>1, <2>1, <2>2, StoreGoto
    <2>4. StoreReads(a) /\ v7 # "deleted" /\ (c.kind = "locked" => v6 # <<>> /\ Head(v6) = a)
        BY <1>1, <2>1, <2>2, <2>3 DEF StoreCall, StoreReads
    <2> QED
        BY <2>1, <2>3, <2>4, StoreCalm
<1>5. CASE Store!Get(a)
    <2>1. /\ v5[a].pc = "get" /\ Store!Load(a, "back", Store!parsed(v2))
          /\ v1' = v1 /\ v2' = v2 /\ v3' = v3 /\ v4' = v4 /\ v6' = v6 /\ v7' = v7 /\ v9' = v9
        BY <1>5 DEF Store!Get, Store!At
    <2>2. v5[a] # Store!Idle
        BY <1>1, <2>1, StoreShapes
    <2>3. v2 # {} /\ Store!parsed(v2) = OnDisk /\ OnDisk \in SUBSET StoreItems
        BY <1>1, <2>1, StoreContents DEF StoreCall, OnDisk
    <2>4. PICK c \in StoreCalls : v5' = [v5 EXCEPT ![a] = c] /\ c.pc = "back" /\ c.kind = v5[a].kind /\ c.copy = OnDisk
        BY <1>1, <2>1, <2>2, <2>3, StoreGoto
    <2>5. StoreReads(a) /\ v7 # "deleted" /\ (c.kind = "locked" => v6 # <<>> /\ Head(v6) = a)
        BY <1>1, <2>1, <2>2, <2>4 DEF StoreCall, StoreReads
    <2> QED
        BY <2>1, <2>3, <2>4, <2>5, StoreCalm
<1> QED
    BY <1>3, <1>4, <1>5

\* A save: nobody else reads, and what is saved is the newest there is, changed.
LEMMA StoreSaves ==
    ASSUME StoreNow, past = {}, past' = {}, NEW a \in 1..2, v5[a].pc \in {"wait", "back"},
           Store!save(a, Newest), v2' = v2, v3' = v3, v6' = v6, v7' = v7, v9' = v9,
           v5[a].kind = "locked" => v6 # <<>> /\ Head(v6) = a,
           v2 # {} \/ v3 = {}
    PROVE  StoreNow'
<1>1. StoreTypes /\ StoreDisk /\ StoreQueue /\ \A b \in 1..2 : StoreCall(b)
    BY DEF StoreNow
<1>2. v5[a] # Store!Idle /\ v7 # "deleted" /\ v5[a] \in StoreCalls
    <2>1. v5[a] # Store!Idle
        BY <1>1, StoreShapes
    <2> QED
        BY <1>1, <2>1, StoreShapes DEF StoreCall
<1>3. PICK c \in StoreCalls : /\ v5' = [v5 EXCEPT ![a] = c] /\ c.pc = "saving" /\ c.kind = v5[a].kind
                              /\ c.add = v5[a].add /\ c.item = v5[a].item /\ c.copy = v5[a].copy
    BY <1>1, <1>2, StoreGoto DEF Store!save
<1>4. v5'[a] = c /\ \A b \in 1..2 : b # a => v5'[b] = v5[b]
    BY <1>1, <1>3 DEF StoreTypes
<1>5. PICK new \in SUBSET StoreItems : new = Changed(a, Newest)
    <2>1. Newest \in SUBSET StoreItems
        BY <1>1, StoreContents
    <2>2. v5[a].item \in StoreItems
        BY <1>2 DEF StoreCalls
    <2> QED
        BY <2>1, <2>2 DEF Changed
<1>6. v1' = {new} /\ v4' = Append(v4, [by |-> a, what |-> {new}])
    BY <1>5 DEF Store!save, Changed
<1>7. \A b \in 1..2 : b # a => ~StoreReads(b)
    <2> SUFFICES ASSUME NEW b \in 1..2, b # a, StoreReads(b) PROVE FALSE
        OBVIOUS
    <2>1. ~({v5[a].kind, v5[b].kind} # {"locked"})
        BY DEF Store!save, Store!Reading, Store!At, StoreReads
    <2>2. v5[a].kind = "locked" /\ v5[b].kind = "locked"
        BY <2>1
    <2>3. Head(v6) = b
        BY <1>1, <2>2 DEF StoreCall, StoreReads
    <2> QED
        BY <2>2, <2>3
<1>8. \A b \in 1..2 : ~StoreReads(b)'
    BY <1>3, <1>4, <1>7 DEF StoreReads
<1>9. OnDisk' = OnDisk /\ OnDisk \in SUBSET StoreItems
    BY <1>1, StoreContents DEF OnDisk
<1>18. PICK n \in Nat : n = Len(v4)
    BY <1>1, StoreContents
<1>10. /\ Len(v4') = n + 1 /\ v4'[n + 1] = [by |-> a, what |-> {new}]
       /\ \A k \in 1..n : v4'[k] = v4[k] /\ v4[k].by \in 1..2
       /\ v4' \in Seq(StoreWrites)
    <2>1. v4 \in Seq(StoreWrites)
        BY <1>1 DEF StoreTypes
    <2>2. [by |-> a, what |-> {new}] \in StoreWrites
        BY DEF StoreWrites
    <2> QED
        BY <1>1, <1>6, <1>18, <2>1, <2>2, StoreContents
<1>11. Newest' = new
    <2>1. v4' # <<>> /\ Len(v4') = n + 1
        BY <1>10
    <2>2. Newest' = Store!parsed(v4'[Len(v4')].what)
        BY <2>1, Zenon DEF Newest
    <2>3. v4'[Len(v4')].what = {new}
        BY <1>10, <2>1
    <2> QED
        BY <2>2, <2>3, StoreParsed
<1>12. StoreTypes'
    <2>1. v5' \in [1..2 -> StoreCalls \cup {Store!Idle}]
        BY <1>1, <1>3 DEF StoreTypes
    <2>2. v1' \in StoreTexts
        BY <1>6 DEF StoreTexts
    <2> QED
        BY <1>1, <1>10, <2>1, <2>2 DEF StoreTypes
<1>13. StoreDisk'
    <2>1. v3 # {} => Store!parsed(v3) = OnDisk /\ (v2 # {} => \E b \in 1..2 : v5'[b].pc = "drop")
        <3>1. v3 # {} => Store!parsed(v3) = OnDisk /\ (v2 # {} => \E b \in 1..2 : v5[b].pc = "drop")
            BY <1>1 DEF StoreDisk
        <3> QED
            BY <1>4, <3>1
    <2>2. v1' = {Newest'}
        BY <1>6, <1>11
    <2>3. \A i \in StoreItems : v9[i] = "in" <=> i \in OnDisk
        BY <1>1 DEF StoreDisk
    <2> QED
        BY <1>9, <2>1, <2>2, <2>3 DEF StoreDisk
<1>14. /\ \A k \in 1..n : Before(k)' = Before(k)
       /\ Before(n + 1)' = Newest
    <2>1. ASSUME NEW k \in 1..n PROVE Before(k)' = Before(k)
        <3>1. CASE k = 1
            BY <1>9, <3>1 DEF Before
        <3>2. CASE k # 1
            <4>1. k - 1 \in 1..n
                BY <1>10, <3>2
            <4>2. v4'[k - 1] = v4[k - 1]
                BY <1>10, <4>1
            <4> QED
                BY <1>9, <4>2 DEF Before
        <3> QED
            BY <3>1, <3>2
    <2>2. CASE n = 0
        <3>1. v4 = <<>> /\ n + 1 = 1
            BY <1>1, <1>18, <2>2, StoreContents
        <3> QED
            BY <1>9, <2>1, <3>1 DEF Before, Newest
    <2>3. CASE n # 0
        <3>1. v4 # <<>> /\ n + 1 # 1 /\ (n + 1) - 1 = n /\ n \in 1..n
            BY <1>1, <1>18, <2>3, StoreContents
        <3>2. Newest = Store!parsed(v4[n].what)
            BY <1>18, <3>1, Zenon DEF Newest
        <3>3. v4'[n] = v4[n]
            BY <1>10, <3>1
        <3>4. Before(n + 1)' = Store!parsed(v4'[n].what)
            BY <3>1 DEF Before
        <3>5. v4'[n].what = v4[n].what
            BY <3>3
        <3> QED
            BY <2>1, <3>2, <3>4, <3>5, Zenon
    <2> QED
        BY <2>1, <2>2, <2>3
<1>15. \A k \in 1..n : v4[k].by # a
    <2>1. v5[a].pc \notin {"moving", "saving"}
        OBVIOUS
    <2> QED
        BY <1>1, <1>10, <1>18, <2>1 DEF StoreQueue
<1>16. StoreQueue'
    <2>1. ASSUME NEW k \in 1..(n + 1), NEW b \in 1..2, v4'[k].by = b
          PROVE  /\ v5'[b].pc \in {"moving", "saving"}
                 /\ v5'[b].pc = "moving" => v4'[k].what = {OnDisk}
                 /\ v5'[b].pc = "saving" => v4'[k].what = {Changed(b, Before(k))'}
        <3>1. CASE k = n + 1
            <4>1. v4'[k].by = a /\ v4'[k].what = {new} /\ v5'[a].pc = "saving"
                BY <1>3, <1>4, <1>10, <3>1
            <4>2. Changed(a, Before(k))' = new
                BY <1>3, <1>4, <1>5, <1>14, <3>1 DEF Changed
            <4> QED
                BY <2>1, <4>1, <4>2
        <3>2. CASE k # n + 1
            <4>1. k \in 1..n /\ v4'[k] = v4[k]
                BY <1>10, <3>2
            <4>2. v4[k].by = b
                BY <2>1, <4>1
            <4>3. v5'[b] = v5[b] /\ Before(k)' = Before(k)
                BY <1>4, <1>14, <1>15, <4>1, <4>2
            <4>4. Changed(b, Before(k))' = Changed(b, Before(k))
                BY <4>3 DEF Changed
            <4>5. /\ v5[b].pc \in {"moving", "saving"} /\ (v5[b].pc = "moving" => v4[k].what = {OnDisk})
                  /\ v5[b].pc = "saving" => v4[k].what = {Changed(b, Before(k))}
                BY <1>1, <1>18, <4>1, <4>2 DEF StoreQueue
            <4> QED
                BY <4>1, <4>2, <4>3, <4>4, <4>5
        <3> QED
            BY <3>1, <3>2
    <2>2. \A j, k \in 1..(n + 1) : v4'[j].by = v4'[k].by => j = k
        <3>1. \A j, k \in 1..n : v4[j].by = v4[k].by => j = k
            BY <1>1, <1>18 DEF StoreQueue
        <3>2. \A k \in 1..(n + 1) : k \in 1..n \/ k = n + 1
            BY <1>10
        <3> QED
            BY <1>10, <1>15, <3>1, <3>2
    <2>3. ASSUME NEW b \in 1..2, v5'[b].pc \in {"moving", "saving"} PROVE \E k \in 1..(n + 1) : v4'[k].by = b
        <3>1. CASE b = a
            BY <1>10, <3>1
        <3>2. CASE b # a
            <4>1. PICK k \in 1..n : v4[k].by = b
                BY <1>1, <1>4, <1>18, <2>3, <3>2 DEF StoreQueue
            <4> QED
                BY <1>10, <4>1
        <3> QED
            BY <3>1, <3>2
    <2> QED
        BY <1>9, <1>10, <2>1, <2>2, <2>3 DEF StoreQueue
<1>17. ASSUME NEW b \in 1..2 PROVE StoreCall(b)'
    <2>1. CASE b = a
        BY <1>2, <1>3, <1>4, <1>6, <1>8, <2>1 DEF StoreCall
    <2>2. CASE b # a
        BY <1>1, <1>2, <1>4, <1>6, <1>8, <1>9, <2>2 DEF StoreCall
    <2> QED
        BY <2>1, <2>2
<1> QED
    BY <1>12, <1>13, <1>16, <1>17 DEF StoreNow

\* Between the calls of a read, and a save once the lock is there.
LEMMA StoreReadSteps ==
    ASSUME StoreNow, past = {}, past' = {}, NEW a \in 1..2, Store!Go(a) \/ Store!Back(a)
    PROVE  StoreNow'
<1>1. StoreTypes /\ StoreDisk /\ StoreQueue /\ StoreCall(a)
    BY DEF StoreNow
<1>2. ASSUME v5[a] # Store!Idle PROVE v5[a] \in StoreCalls /\ v7 # "deleted" /\ v5[a].kind \in {"read", "locked", "free"}
    <2>1. v5[a] \in StoreCalls
        BY <1>1, <1>2, StoreShapes
    <2> QED
        BY <1>1, <1>2, <2>1 DEF StoreCall, StoreCalls
<1>3. CASE Store!Go(a)
    <2>1. /\ v5[a].pc = "wait" /\ (v5[a].kind = "locked" => Head(v6) = a)
          /\ v2' = v2 /\ v3' = v3 /\ v6' = v6 /\ v7' = v7 /\ v9' = v9
        BY <1>3 DEF Store!Go, Store!withNotesLock
    <2>2. v5[a] # Store!Idle /\ v5[a] \in StoreCalls /\ v7 # "deleted"
        BY <1>1, <1>2, <2>1, StoreShapes
    <2>3. v5[a].kind = "locked" => v6 # <<>>
        BY <1>1, <2>1 DEF StoreCall, StoreTypes
    <2>4. CASE v1 = {}
        <3>1. Store!Goto(a, "info") /\ v1' = v1 /\ v4' = v4
            BY <1>3, <2>4 DEF Store!Go
        <3>2. PICK c \in StoreCalls : v5' = [v5 EXCEPT ![a] = c] /\ c.pc = "info" /\ c.kind = v5[a].kind
            BY <1>1, <2>2, <3>1, StoreGoto
        <3> QED
            BY <2>1, <2>2, <2>3, <2>4, <3>1, <3>2, StoreCalm
    <2>5. CASE v1 # {} /\ v5[a].kind = "read"
        <3>1. v5' = [v5 EXCEPT ![a] = Store!Idle] /\ v1' = v1 /\ v4' = v4
            BY <1>3, <2>5 DEF Store!Go, Store!ends
        <3>2. Store!Idle.pc = "idle"
            BY DEF Store!Idle
        <3> QED
            BY <2>1, <3>1, <3>2, StoreCalm
    <2>6. CASE v1 # {} /\ v5[a].kind # "read"
        <3>1. Store!save(a, Store!parsed(v1))
            BY <1>3, <2>6 DEF Store!Go
        <3>2. v1 = {Newest} /\ (v2 # {} \/ v3 = {}) /\ Newest \in SUBSET StoreItems
            BY <1>1, <2>2, <2>6, StoreContents DEF StoreDisk
        <3>3. Store!parsed(v1) = Newest
            BY <3>2, StoreParsed
        <3>4. Store!save(a, Newest)
            BY <3>1, <3>3
        <3> QED
            BY <2>1, <2>3, <3>2, <3>4, StoreSaves
    <2> QED
        BY <2>4, <2>5, <2>6
<1>4. CASE Store!Back(a)
    <2>1. /\ v5[a].pc = "back" /\ v2' = v2 /\ v3' = v3 /\ v6' = v6 /\ v7' = v7 /\ v9' = v9
        BY <1>4 DEF Store!Back, Store!At
    <2>2. v5[a] # Store!Idle /\ v5[a] \in StoreCalls /\ v7 # "deleted"
        BY <1>1, <1>2, <2>1, StoreShapes
    <2>3. /\ v5[a].kind = "locked" => v6 # <<>> /\ Head(v6) = a
          /\ v5[a].copy = OnDisk /\ (v2 # {} \/ v3 = {})
        BY <1>1, <2>1 DEF StoreCall
    <2>4. StoreReads(a) /\ Newest = OnDisk
        BY <2>1, StoreReading DEF StoreReads
    <2>5. CASE v5[a].kind = "read"
        <3>1. v5' = [v5 EXCEPT ![a] = Store!Idle] /\ v1' = {OnDisk} /\ v4' = v4
            BY <1>4, <2>3, <2>5 DEF Store!Back, Store!ends
        <3>2. Store!Idle.pc = "idle"
            BY DEF Store!Idle
        <3> QED
            BY <2>1, <2>3, <2>4, <3>1, <3>2, StoreCalm
    <2>6. CASE v5[a].kind # "read"
        <3>1. Store!save(a, v5[a].copy)
            BY <1>4, <2>6 DEF Store!Back
        <3>2. Store!save(a, Newest)
            BY <2>3, <2>4, <3>1
        <3> QED
            BY <2>1, <2>3, <3>2, StoreSaves
    <2> QED
        BY <2>5, <2>6
<1> QED
    BY <1>3, <1>4

\* The old key is read: without one the call goes on, else its move is written.
LEMMA StoreLegacy ==
    ASSUME StoreNow, past = {}, past' = {}, NEW a \in 1..2, Store!Legacy(a)
    PROVE  StoreNow'
<1>1. StoreTypes /\ StoreDisk /\ StoreQueue /\ \A b \in 1..2 : StoreCall(b)
    BY DEF StoreNow
<1>2. /\ v5[a].pc = "legacy" /\ v1' = v1 /\ v2' = v2 /\ v3' = v3 /\ v6' = v6 /\ v7' = v7 /\ v9' = v9
      /\ Store!Load(a, IF v3 = {} THEN "back" ELSE "moving", Store!parsed(v3))
      /\ v4' = IF v3 = {} THEN v4 ELSE Append(v4, [by |-> a, what |-> v3])
    BY DEF Store!Legacy, Store!At
<1>3. v5[a] # Store!Idle /\ v7 # "deleted" /\ StoreReads(a)
    <2>1. v5[a] # Store!Idle
        BY <1>1, <1>2, StoreShapes
    <2> QED
        BY <1>1, <1>2, <2>1 DEF StoreCall, StoreReads
<1>4. /\ v2 = {} \/ v3 # {}
      /\ v5[a].kind = "locked" => v6 # <<>> /\ Head(v6) = a
    BY <1>1, <1>2 DEF StoreCall
<1>5. Store!parsed(v3) = OnDisk /\ OnDisk \in SUBSET StoreItems /\ Newest = OnDisk
    <2>1. Store!parsed(v3) = OnDisk
        BY <1>1, <1>4 DEF StoreDisk, OnDisk
    <2> QED
        BY <1>1, <1>3, <2>1, StoreContents, StoreReading
<1>6. CASE v3 = {}
    <2>1. Store!Load(a, "back", OnDisk) /\ v4' = v4
        BY <1>2, <1>5, <1>6
    <2>2. PICK c \in StoreCalls : v5' = [v5 EXCEPT ![a] = c] /\ c.pc = "back" /\ c.kind = v5[a].kind /\ c.copy = OnDisk
        BY <1>1, <1>3, <1>5, <2>1, StoreGoto
    <2> QED
        BY <1>2, <1>3, <1>4, <1>6, <2>1, <2>2, StoreCalm
<1>7. CASE v3 # {}
    <2>1. Store!Load(a, "moving", OnDisk) /\ v4' = Append(v4, [by |-> a, what |-> {OnDisk}])
        <3>1. v3 = {OnDisk}
            BY <1>1, <1>5, <1>7, StoreText DEF StoreTypes
        <3> QED
            BY <1>2, <1>5, <1>7, <3>1
    <2>2. PICK c \in StoreCalls : v5' = [v5 EXCEPT ![a] = c] /\ c.pc = "moving" /\ c.kind = v5[a].kind /\ c.copy = OnDisk
        BY <1>1, <1>3, <1>5, <2>1, StoreGoto
    <2>3. v5'[a] = c /\ \A b \in 1..2 : b # a => v5'[b] = v5[b]
        BY <1>1, <2>2 DEF StoreTypes
    <2>4. PICK n \in Nat : n = Len(v4)
        BY <1>1, StoreContents
    <2>5. /\ Len(v4') = n + 1 /\ v4'[n + 1] = [by |-> a, what |-> {OnDisk}]
          /\ \A k \in 1..n : v4'[k] = v4[k] /\ v4[k].by \in 1..2
          /\ v4' \in Seq(StoreWrites)
        <3>1. v4 \in Seq(StoreWrites)
            BY <1>1 DEF StoreTypes
        <3>2. [by |-> a, what |-> {OnDisk}] \in StoreWrites
            BY <1>5 DEF StoreWrites
        <3> QED
            BY <1>1, <2>1, <2>4, <3>1, <3>2, StoreContents
    <2>6. OnDisk' = OnDisk /\ Newest' = OnDisk
        <3>1. OnDisk' = OnDisk
            BY <1>2 DEF OnDisk
        <3>2. v4' # <<>> /\ Len(v4') = n + 1
            BY <2>5
        <3>3. Newest' = Store!parsed(v4'[Len(v4')].what)
            BY <3>2, Zenon DEF Newest
        <3>4. v4'[Len(v4')].what = {OnDisk}
            BY <2>5
        <3> QED
            BY <1>5, <3>1, <3>3, <3>4, StoreParsed
    <2>7. \A k \in 1..n : v4[k].by # a
        <3>1. v5[a].pc \notin {"moving", "saving"}
            BY <1>2
        <3> QED
            BY <1>1, <2>4, <2>5, <3>1 DEF StoreQueue
    <2>8. \A b \in 1..2 : v5'[b].pc # "saving"
        BY <1>3, <2>2, <2>3, StoreReading
    <2>9. StoreTypes'
        <3>1. v5' \in [1..2 -> StoreCalls \cup {Store!Idle}]
            BY <1>1, <2>2 DEF StoreTypes
        <3> QED
            BY <1>1, <1>2, <2>5, <3>1 DEF StoreTypes
    <2>10. StoreDisk'
        <3>1. v3 # {} => Store!parsed(v3) = OnDisk /\ (v2 # {} => \E b \in 1..2 : v5'[b].pc = "drop")
            <4>1. v3 # {} => Store!parsed(v3) = OnDisk /\ (v2 # {} => \E b \in 1..2 : v5[b].pc = "drop")
                BY <1>1 DEF StoreDisk
            <4> QED
                BY <1>2, <2>3, <4>1
        <3>2. \A i \in StoreItems : v9[i] = "in" <=> i \in OnDisk
            BY <1>1 DEF StoreDisk
        <3>3. v1 # {} /\ v7 # "deleted" => v1 = {OnDisk} /\ (v2 = {} => v3 = {})
            BY <1>1, <1>5 DEF StoreDisk
        <3> QED
            BY <1>2, <2>6, <3>1, <3>2, <3>3 DEF StoreDisk
    <2>11. StoreQueue'
        <3>1. \A k \in 1..(n + 1) : k \in 1..n \/ k = n + 1
            BY <2>4
        <3>2. ASSUME NEW k \in 1..(n + 1), NEW b \in 1..2, v4'[k].by = b
              PROVE  v5'[b].pc \in {"moving", "saving"} /\ v4'[k].what = {OnDisk}
            <4>1. CASE k = n + 1
                BY <2>2, <2>3, <2>5, <3>2, <4>1
            <4>2. CASE k \in 1..n
                <5>1. v4'[k] = v4[k] /\ v4[k].by = b /\ b # a
                    BY <2>5, <2>7, <3>2, <4>2
                <5>2. v5[b].pc \in {"moving", "saving"} /\ (v5[b].pc = "moving" => v4[k].what = {OnDisk})
                    BY <1>1, <2>4, <4>2, <5>1 DEF StoreQueue
                <5> QED
                    BY <2>3, <2>8, <5>1, <5>2
            <4> QED
                BY <3>1, <4>1, <4>2
        <3>3. \A j, k \in 1..(n + 1) : v4'[j].by = v4'[k].by => j = k
            <4>1. \A j, k \in 1..n : v4[j].by = v4[k].by => j = k
                BY <1>1, <2>4 DEF StoreQueue
            <4> QED
                BY <2>5, <2>7, <3>1, <4>1
        <3>4. ASSUME NEW b \in 1..2, v5'[b].pc \in {"moving", "saving"} PROVE \E k \in 1..(n + 1) : v4'[k].by = b
            <4>1. CASE b = a
                BY <2>5, <4>1
            <4>2. CASE b # a
                <5>1. PICK k \in 1..n : v4[k].by = b
                    BY <1>1, <2>3, <2>4, <3>4, <4>2 DEF StoreQueue
                <5> QED
                    BY <2>5, <5>1
            <4> QED
                BY <4>1, <4>2
        <3> QED
            BY <2>5, <2>6, <2>8, <3>2, <3>3, <3>4 DEF StoreQueue
    <2>12. ASSUME NEW b \in 1..2 PROVE StoreCall(b)'
        <3>1. CASE b = a
            BY <1>2, <1>3, <1>4, <1>7, <2>2, <2>3, <2>6, <3>1 DEF StoreCall
        <3>2. CASE b # a
            BY <1>1, <1>2, <2>3, <2>6, <2>8, <3>2 DEF StoreCall
        <3> QED
            BY <3>1, <3>2
    <2> QED
        BY <2>9, <2>10, <2>11, <2>12 DEF StoreNow
<1> QED
    BY <1>6, <1>7

\* The key is removed, once its move has landed.
LEMMA StoreDrop ==
    ASSUME StoreNow, past = {}, past' = {}, NEW a \in 1..2, Store!Drop(a)
    PROVE  StoreNow'
<1>1. StoreTypes /\ StoreDisk /\ StoreQueue /\ \A b \in 1..2 : StoreCall(b)
    BY DEF StoreNow
<1>2. /\ v5[a].pc = "drop" /\ v3' = {} /\ Store!Goto(a, "back")
      /\ v1' = v1 /\ v2' = v2 /\ v4' = v4 /\ v6' = v6 /\ v7' = v7 /\ v9' = v9
    BY DEF Store!Drop, Store!At
<1>3. \A b \in 1..2 : b # a => v5[b].pc # "legacy"
    BY DEF Store!Drop, Store!At
<1>4. v5[a] # Store!Idle /\ v7 # "deleted" /\ v2 # {} /\ StoreReads(a) /\ v5[a].copy = OnDisk
    <2>1. v5[a] # Store!Idle
        BY <1>1, <1>2, StoreShapes
    <2> QED
        BY <1>1, <1>2, <2>1 DEF StoreCall, StoreReads
<1>5. PICK c \in StoreCalls : /\ v5' = [v5 EXCEPT ![a] = c] /\ c.pc = "back" /\ c.kind = v5[a].kind
                              /\ c.copy = v5[a].copy
    BY <1>1, <1>2, <1>4, StoreGoto
<1>6. v5'[a] = c /\ \A b \in 1..2 : b # a => v5'[b] = v5[b]
    BY <1>1, <1>5 DEF StoreTypes
<1>7. OnDisk' = OnDisk /\ Newest' = Newest /\ \A k : Before(k)' = Before(k)
    <2>1. OnDisk' = OnDisk
        BY <1>2, <1>4 DEF OnDisk
    <2> QED
        BY <1>2, <2>1 DEF Newest, Before
<1>8. \A b \in 1..2 : v5[b].pc # "saving"
    BY <1>4, StoreReading
<1>9. StoreTypes'
    <2>1. v5' \in [1..2 -> StoreCalls \cup {Store!Idle}]
        BY <1>1, <1>5 DEF StoreTypes
    <2>2. {} \in StoreTexts
        BY DEF StoreTexts
    <2> QED
        BY <1>1, <1>2, <2>1, <2>2 DEF StoreTypes
<1>10. StoreDisk'
    BY <1>1, <1>2, <1>4, <1>7 DEF StoreDisk
<1>11. StoreQueue'
    <2>1. ASSUME NEW k \in 1..Len(v4), NEW b \in 1..2, v4[k].by = b
          PROVE  v5'[b].pc \in {"moving", "saving"} /\ v4[k].what = {OnDisk} /\ v5'[b].pc # "saving"
        <3>1. v5[b].pc \in {"moving", "saving"} /\ (v5[b].pc = "moving" => v4[k].what = {OnDisk})
            BY <1>1, <2>1 DEF StoreQueue
        <3> QED
            BY <1>2, <1>6, <1>8, <3>1
    <2>2. ASSUME NEW b \in 1..2, v5'[b].pc \in {"moving", "saving"} PROVE \E k \in 1..Len(v4) : v4[k].by = b
        BY <1>1, <1>5, <1>6, <2>2 DEF StoreQueue
    <2>3. \A j, k \in 1..Len(v4) : v4[j].by = v4[k].by => j = k
        BY <1>1 DEF StoreQueue
    <2> QED
        BY <1>2, <1>7, <2>1, <2>2, <2>3 DEF StoreQueue
<1>12. ASSUME NEW b \in 1..2 PROVE StoreCall(b)'
    <2>1. CASE b = a
        BY <1>1, <1>2, <1>4, <1>5, <1>6, <1>7, <2>1 DEF StoreCall
    <2>2. CASE b # a
        BY <1>1, <1>2, <1>3, <1>4, <1>6, <1>7, <1>8, <2>2 DEF StoreCall
    <2> QED
        BY <2>1, <2>2
<1> QED
    BY <1>9, <1>10, <1>11, <1>12 DEF StoreNow

\* The first write lands: the others are one place further.
LEMMA StoreShift ==
    ASSUME StoreNow, v4 # <<>>, v4' = Tail(v4), NEW a \in 1..2, a = v4[1].by,
           NEW c \in StoreCalls \cup {Store!Idle}, v5' = [v5 EXCEPT ![a] = c],
           c.pc \notin {"moving", "saving"},
           v2' = v4[1].what, OnDisk' = Store!parsed(v4[1].what),
           (\A b \in 1..2 : v5[b].pc # "saving") \/ (\A b \in 1..2 : v5[b].pc # "moving"),
           v5[a].pc = "moving" => OnDisk' = OnDisk
    PROVE  /\ StoreQueue' /\ v4' \in Seq(StoreWrites)
           /\ (\A b \in 1..2 : v5[b].pc # "moving") => Newest' = Newest
           /\ (\A b \in 1..2 : v5[b].pc # "saving") => Newest' = OnDisk'
<1>1. StoreTypes /\ StoreQueue
    BY DEF StoreNow
<1>2. v5'[a] = c /\ \A b \in 1..2 : b # a => v5'[b] = v5[b]
    BY <1>1 DEF StoreTypes
<1>3. PICK n \in Nat : n = Len(v4) /\ n > 0
    BY <1>1, StoreContents
<1>4. /\ Len(v4') = n - 1 /\ v4' \in Seq(StoreWrites)
      /\ \A k \in 1..(n - 1) : v4'[k] = v4[k + 1]
    <2>1. v4 \in Seq(StoreWrites)
        BY <1>1 DEF StoreTypes
    <2> QED
        BY <1>3, <2>1
<1>5. /\ \A k \in 1..(n - 1) : k + 1 \in 1..n /\ k + 1 # 1 /\ (k + 1) - 1 = k
      /\ 1 \in 1..n
    BY <1>3
<1>6. \A k \in 1..(n - 1) : v4[k + 1].by # a
    BY <1>1, <1>3, <1>5 DEF StoreQueue
<1>7. ASSUME NEW k \in 1..(n - 1) PROVE Before(k)' = Before(k + 1)
    <2>1. Before(k + 1) = Store!parsed(v4[k].what)
        BY <1>5 DEF Before
    <2>2. CASE k = 1
        BY <2>1, <2>2 DEF Before
    <2>3. CASE k # 1
        <3>1. k - 1 \in 1..(n - 1) /\ (k - 1) + 1 = k
            BY <1>3, <2>3
        <3>2. v4'[k - 1] = v4[k]
            BY <1>4, <3>1
        <3> QED
            BY <2>1, <2>3, <3>2 DEF Before
    <2> QED
        BY <2>2, <2>3
<1>8. StoreQueue'
    <2>1. ASSUME NEW k \in 1..(n - 1), NEW b \in 1..2, v4'[k].by = b
          PROVE  /\ v5'[b].pc \in {"moving", "saving"}
                 /\ v5'[b].pc = "moving" => v4'[k].what = {OnDisk'}
                 /\ v5'[b].pc = "saving" => v4'[k].what = {Changed(b, Before(k))'}
        <3>1. k + 1 \in 1..n /\ v4'[k] = v4[k + 1] /\ v4[k + 1].by = b /\ b # a /\ v5'[b] = v5[b]
            BY <1>2, <1>4, <1>5, <1>6, <2>1
        <3>2. /\ v5[b].pc \in {"moving", "saving"} /\ (v5[b].pc = "moving" => v4[k + 1].what = {OnDisk})
              /\ v5[b].pc = "saving" => v4[k + 1].what = {Changed(b, Before(k + 1))}
            BY <1>1, <1>3, <3>1 DEF StoreQueue
        <3>3. Changed(b, Before(k))' = Changed(b, Before(k + 1))
            BY <1>7, <3>1 DEF Changed
        <3>4. v5[b].pc = "moving" => OnDisk' = OnDisk
            <4>1. v5[a].pc \in {"moving", "saving"}
                BY <1>1, <1>3, <1>5 DEF StoreQueue
            <4> QED
                BY <4>1
        <3> QED
            BY <3>1, <3>2, <3>3, <3>4
    <2>2. \A j, k \in 1..(n - 1) : v4'[j].by = v4'[k].by => j = k
        <3>1. \A j, k \in 1..n : v4[j].by = v4[k].by => j = k
            BY <1>1, <1>3 DEF StoreQueue
        <3> SUFFICES ASSUME NEW j \in 1..(n - 1), NEW k \in 1..(n - 1), v4'[j].by = v4'[k].by PROVE j = k
            OBVIOUS
        <3>2. j + 1 = k + 1
            BY <1>4, <1>5, <3>1
        <3> QED
            BY <3>2
    <2>3. ASSUME NEW b \in 1..2, v5'[b].pc \in {"moving", "saving"} PROVE \E k \in 1..(n - 1) : v4'[k].by = b
        <3>1. b # a
            BY <1>2, <2>3
        <3>2. PICK k \in 1..n : v4[k].by = b
            BY <1>1, <1>2, <1>3, <2>3, <3>1 DEF StoreQueue
        <3>3. k # 1 /\ k - 1 \in 1..(n - 1) /\ (k - 1) + 1 = k
            BY <1>3, <3>1, <3>2
        <3>4. v4'[k - 1].by = b
            BY <1>4, <3>2, <3>3
        <3> QED
            BY <3>3, <3>4
    <2> QED
        BY <1>4, <2>1, <2>2, <2>3 DEF StoreQueue
<1>9. v4' = <<>> <=> n = 1
    <2>1. PICK t \in Seq(StoreWrites) : t = v4'
        BY <1>4
    <2>2. t = <<>> <=> Len(t) = 0
        OBVIOUS
    <2>3. Len(v4') = 0 <=> n = 1
        BY <1>3, <1>4
    <2> QED
        BY <2>1, <2>2, <2>3
<1>10. v4' # <<>> => Len(v4') \in 1..(n - 1) /\ v4'[Len(v4')] = v4[n]
    BY <1>3, <1>4, <1>9
<1>11. v4' # <<>> => Newest' = Store!parsed(v4'[Len(v4')].what)
    BY Zenon DEF Newest
<1>12. Newest = Store!parsed(v4[n].what)
    BY <1>3, Zenon DEF Newest
<1>13. CASE v4' # <<>>
    <2>1. Newest' = Newest
        BY <1>10, <1>11, <1>12, <1>13, Zenon
    <2>2. ASSUME \A b \in 1..2 : v5[b].pc # "saving" PROVE Newest' = OnDisk'
        <3>1. v4[n].by \in 1..2 /\ n \in 1..Len(v4) /\ OnDisk \in SUBSET StoreItems /\ v4[1].by \in 1..2
            BY <1>1, <1>3, <1>5, StoreContents
        <3>2. v4[n].what = {OnDisk}
            BY <1>1, <2>2, <3>1 DEF StoreQueue
        <3>3. Newest = OnDisk
            BY <1>12, <3>1, <3>2, StoreParsed
        <3>4. OnDisk' = OnDisk
            BY <1>1, <1>3, <1>5, <2>2 DEF StoreQueue
        <3> QED
            BY <2>1, <3>3, <3>4
    <2> QED
        BY <1>4, <1>8, <2>1, <2>2
<1>14. CASE v4' = <<>>
    <2>1. Newest' = OnDisk' /\ n = 1
        BY <1>9, <1>14 DEF Newest
    <2>2. Newest = OnDisk'
        BY <1>12, <2>1
    <2> QED
        BY <1>4, <1>8, <2>1, <2>2
<1> QED
    BY <1>13, <1>14

LEMMA StoreLand ==
    ASSUME StoreNow, past = {}, past' = {}, Store!Land
    PROVE  StoreNow'
<1>1. StoreTypes /\ StoreDisk /\ StoreQueue /\ \A b \in 1..2 : StoreCall(b)
    BY DEF StoreNow
<1>2. v4 # <<>> /\ Head(v4) = v4[1] /\ v4[1] \in StoreWrites /\ v4[1].by \in 1..2 /\ 1 \in 1..Len(v4)
    <2>1. v4 # <<>> /\ v4 \in Seq(StoreWrites)
        BY <1>1 DEF Store!Land, StoreTypes
    <2>2. 1 \in 1..Len(v4)
        BY <1>1, <2>1, StoreContents
    <2> QED
        BY <1>1, <2>1, <2>2, StoreContents
<1>3. PICK a \in 1..2 : a = v4[1].by
    BY <1>2
<1>4. /\ v2' = v4[1].what /\ v4' = Tail(v4)
      /\ \/ v5[a].pc = "moving" /\ Store!Goto(a, "drop") /\ v6' = v6 /\ v9' = v9
         \/ /\ v5[a].pc # "moving" /\ Store!ends(a) /\ Store!releases(a)
            /\ v9' = [v9 EXCEPT ![v5[a].item] = IF v5[a].add THEN "in" ELSE "out"]
      /\ v1' = v1 /\ v3' = v3 /\ v7' = v7
    BY <1>2, <1>3 DEF Store!Land, Store!At
<1>5. /\ v5[a].pc \in {"moving", "saving"} /\ (v5[a].pc = "moving" => v4[1].what = {OnDisk})
      /\ v5[a].pc = "saving" => v4[1].what = {Changed(a, OnDisk)}
    <2>1. Before(1) = OnDisk
        BY DEF Before
    <2> QED
        BY <1>1, <1>2, <1>3, <2>1 DEF StoreQueue
<1>6. v5[a] # Store!Idle /\ v5[a] \in StoreCalls /\ v7 # "deleted"
    <2>1. v5[a] # Store!Idle
        BY <1>1, <1>5, StoreShapes
    <2> QED
        BY <1>1, <2>1, StoreShapes DEF StoreCall
<1>7. /\ v2' # {} /\ v2' \in StoreTexts /\ OnDisk' = Store!parsed(v4[1].what)
      /\ OnDisk \in SUBSET StoreItems
    <2>1. v4[1].what \in StoreTexts /\ v4[1].what # {}
        BY <1>2 DEF StoreWrites, StoreTexts
    <2> QED
        BY <1>1, <1>4, <2>1, StoreContents DEF OnDisk
<1>8. CASE v5[a].pc = "moving"
    <2>1. PICK c \in StoreCalls : /\ v5' = [v5 EXCEPT ![a] = c] /\ c.pc = "drop" /\ c.kind = v5[a].kind
                                  /\ c.copy = v5[a].copy
        BY <1>1, <1>4, <1>6, <1>8, StoreGoto
    <2>2. v5'[a] = c /\ \A b \in 1..2 : b # a => v5'[b] = v5[b]
        BY <1>1, <2>1 DEF StoreTypes
    <2>3. OnDisk' = OnDisk
        BY <1>5, <1>7, <1>8, StoreParsed
    <2>4. (\A b \in 1..2 : v5[b].pc # "saving") /\ Newest = OnDisk
        BY <1>8, StoreReading DEF StoreReads
    <2>5. StoreQueue' /\ v4' \in Seq(StoreWrites) /\ Newest' = OnDisk'
        BY <1>2, <1>3, <1>4, <1>7, <2>1, <2>3, <2>4, StoreShift
    <2>6. StoreTypes'
        <3>1. v5' \in [1..2 -> StoreCalls \cup {Store!Idle}]
            BY <1>1, <2>1 DEF StoreTypes
        <3> QED
            BY <1>1, <1>4, <1>7, <1>8, <2>5, <3>1 DEF StoreTypes
    <2>7. StoreDisk'
        <3>1. v3 # {} => Store!parsed(v3) = OnDisk /\ \E b \in 1..2 : v5'[b].pc = "drop"
            BY <1>1, <2>1, <2>2 DEF StoreDisk
        <3>2. v1 # {} /\ v7 # "deleted" => v1 = {OnDisk}
            BY <1>1, <2>4 DEF StoreDisk
        <3>3. \A i \in StoreItems : v9[i] = "in" <=> i \in OnDisk
            BY <1>1 DEF StoreDisk
        <3> QED
            BY <1>4, <1>7, <1>8, <2>3, <2>5, <3>1, <3>2, <3>3 DEF StoreDisk
    <2>8. ASSUME NEW b \in 1..2 PROVE StoreCall(b)'
        <3>1. StoreCall(b) /\ StoreCall(a)
            BY <1>1
        <3>2. CASE b = a
            BY <1>4, <1>6, <1>7, <1>8, <2>1, <2>2, <2>3, <3>1, <3>2 DEF StoreCall
        <3>3. CASE b # a
            BY <1>4, <1>6, <1>7, <1>8, <2>2, <2>3, <2>4, <3>1, <3>3 DEF StoreCall
        <3> QED
            BY <3>2, <3>3
    <2> QED
        BY <2>5, <2>6, <2>7, <2>8 DEF StoreNow
<1>9. CASE v5[a].pc = "saving"
    <2>1. /\ v5' = [v5 EXCEPT ![a] = Store!Idle] /\ Store!releases(a)
          /\ v9' = [v9 EXCEPT ![v5[a].item] = IF v5[a].add THEN "in" ELSE "out"]
        BY <1>4, <1>9 DEF Store!ends
    <2>2. v5'[a] = Store!Idle /\ \A b \in 1..2 : b # a => v5'[b] = v5[b]
        BY <1>1, <2>1 DEF StoreTypes
    <2>3. Store!Idle.pc = "idle"
        BY DEF Store!Idle
    <2>4. PICK item \in StoreItems, add \in BOOLEAN : item = v5[a].item /\ add = v5[a].add
        BY <1>6 DEF StoreCalls
    <2>5. OnDisk' = IF add THEN OnDisk \cup {item} ELSE OnDisk \ {item}
        <3>1. Changed(a, OnDisk) \in SUBSET StoreItems
            BY <1>7, <2>4 DEF Changed
        <3> QED
            BY <1>5, <1>7, <1>9, <2>4, <3>1, StoreParsed DEF Changed
    <2>6. v1 # {} /\ \A b \in 1..2 : ~StoreReads(b)
        BY <1>1, <1>9 DEF StoreCall
    <2>7. \A b \in 1..2 : v5[b].pc # "moving"
        BY <2>6 DEF StoreReads
    <2>8. StoreQueue' /\ v4' \in Seq(StoreWrites) /\ Newest' = Newest
        BY <1>2, <1>3, <1>4, <1>7, <1>9, <2>1, <2>3, <2>7, StoreShift
    <2>9. v3 = {}
        BY <1>1, <1>6, <2>6 DEF StoreDisk, StoreReads
    <2>10. v6' = IF v5[a].kind = "locked" THEN Tail(v6) ELSE v6
        BY <2>1 DEF Store!releases
    <2>11. v5[a].kind = "locked" => v6 # <<>> /\ Head(v6) = a
        BY <1>1, <1>9 DEF StoreCall
    <2>12. StoreTypes'
        <3>1. v5' \in [1..2 -> StoreCalls \cup {Store!Idle}]
            BY <1>1, <2>1 DEF StoreTypes
        <3>2. v6' \in Seq(1..2)
            BY <1>1, <2>10, <2>11 DEF StoreTypes
        <3>3. v9' \in [StoreItems -> {"in", "out"}]
            BY <1>1, <2>1, <2>4 DEF StoreTypes
        <3> QED
            BY <1>1, <1>4, <1>7, <2>8, <3>1, <3>2, <3>3 DEF StoreTypes
    <2>13. StoreDisk'
        <3>1. ASSUME NEW i \in StoreItems PROVE v9'[i] = "in" <=> i \in OnDisk'
            <4>1. v9[i] = "in" <=> i \in OnDisk
                BY <1>1 DEF StoreDisk
            <4>2. v9'[i] = IF i = item THEN (IF add THEN "in" ELSE "out") ELSE v9[i]
                BY <1>1, <2>1, <2>4 DEF StoreTypes
            <4> QED
                BY <2>5, <4>1, <4>2
        <3>2. v1 = {Newest}
            BY <1>1, <1>6, <2>6 DEF StoreDisk
        <3> QED
            BY <1>4, <1>7, <2>8, <2>9, <3>1, <3>2 DEF StoreDisk
    <2>14. ASSUME NEW b \in 1..2 PROVE StoreCall(b)'
        <3>1. CASE b = a
            BY <1>4, <1>6, <2>2, <2>3, <3>1 DEF StoreCall
        <3>2. CASE b # a
            <4>1. StoreCall(b) /\ v5'[b] = v5[b] /\ ~StoreReads(b)
                BY <1>1, <2>2, <2>6, <3>2
            <4>2. \A d \in 1..2 : ~StoreReads(d)'
                BY <2>2, <2>3, <2>6 DEF StoreReads
            <4>3. v5[b].pc \notin {"idle", "wait"} /\ v5[b].kind = "locked" => v6' # <<>> /\ Head(v6') = b
                BY <2>10, <2>11, <3>2, <4>1 DEF StoreCall
            <4>4. v5[b].pc = "wait" /\ v5[b].kind = "locked" => \E i \in 1..Len(v6') : v6'[i] = b
                <5>1. CASE v5[a].kind = "locked" /\ v5[b].pc = "wait" /\ v5[b].kind = "locked"
                    <6>1. PICK i \in 1..Len(v6) : v6[i] = b
                        BY <4>1, <5>1 DEF StoreCall
                    <6>2. v6 \in Seq(1..2) /\ v6 # <<>> /\ v6[1] = a
                        BY <1>1, <2>11, <5>1 DEF StoreTypes
                    <6>3. i # 1 /\ Len(Tail(v6)) = Len(v6) - 1 /\ \A k \in 1..(Len(v6) - 1) : Tail(v6)[k] = v6[k + 1]
                        BY <3>2, <6>1, <6>2
                    <6>4. i - 1 \in 1..(Len(v6) - 1) /\ (i - 1) + 1 = i
                        BY <6>2, <6>3
                    <6>5. Tail(v6)[i - 1] = b
                        BY <6>1, <6>3, <6>4
                    <6> QED
                        BY <2>10, <5>1, <6>3, <6>4, <6>5
                <5>2. CASE v5[a].kind # "locked"
                    BY <2>10, <4>1, <5>2 DEF StoreCall
                <5> QED
                    BY <5>1, <5>2
            <4>5. v5[b].pc \notin {"info", "get", "legacy", "moving", "drop", "back"}
                BY <4>1 DEF StoreReads
            <4> QED
                BY <1>4, <1>6, <2>6, <4>1, <4>2, <4>3, <4>4, <4>5 DEF StoreCall
        <3> QED
            BY <3>1, <3>2
    <2> QED
        BY <2>8, <2>12, <2>13, <2>14 DEF StoreNow
<1> QED
    BY <1>5, <1>8, <1>9

\* The wipe of a deleted account, and a kill: nobody is at work.
LEMMA StoreRest ==
    ASSUME StoreNow, past = {}, past' = {}, Store!Delete \/ Store!Forget \/ Store!Kill
    PROVE  StoreNow'
<1>1. StoreTypes /\ StoreDisk /\ StoreQueue /\ \A b \in 1..2 : StoreCall(b)
    BY DEF StoreNow
<1>2. Store!Idle.pc = "idle"
    BY DEF Store!Idle
<1>3. ASSUME \A b \in 1..2 : v5[b] = Store!Idle PROVE v4 = <<>> /\ Newest = OnDisk
    <2>1. \A k \in 1..Len(v4) : v4[k].by \notin 1..2
        BY <1>1, <1>2, <1>3 DEF StoreQueue
    <2>2. Len(v4) = 0
        BY <1>1, <2>1, StoreContents
    <2>3. v4 = <<>>
        BY <1>1, <2>2, StoreContents
    <2> QED
        BY <2>3 DEF Newest
<1>4. CASE Store!Delete
    <2>1. /\ v1 # {} /\ v7 # "deleted" /\ v7' = "deleted" /\ v2' = {} /\ v9' = [i \in StoreItems |-> "out"]
          /\ v1' = v1 /\ v3' = v3 /\ v4' = v4 /\ v5' = v5 /\ v6' = v6
          /\ past' = past \cup {h \in {"held"} : \E b \in 1..2 : v5[b] # Store!Idle}
        BY <1>4 DEF Store!Delete, StoreItems
    <2>2. \A b \in 1..2 : v5[b] = Store!Idle
        BY <2>1
    <2>3. v4 = <<>> /\ v3 = {}
        BY <1>1, <1>2, <1>3, <2>1, <2>2 DEF StoreDisk
    <2>4. OnDisk' = {}
        BY <2>1, <2>3, StoreParsed DEF OnDisk
    <2>5. StoreTypes'
        <3>1. {} \in StoreTexts
            BY DEF StoreTexts
        <3> QED
            BY <1>1, <2>1, <3>1 DEF StoreTypes
    <2>6. StoreDisk'
        BY <2>1, <2>3, <2>4 DEF StoreDisk
    <2>7. StoreQueue'
        <3>1. Len(v4') = 0
            BY <2>1, <2>3
        <3> QED
            BY <1>2, <2>1, <2>2, <3>1 DEF StoreQueue
    <2>8. ASSUME NEW b \in 1..2 PROVE StoreCall(b)'
        BY <1>2, <2>1, <2>2 DEF StoreCall
    <2> QED
        BY <2>5, <2>6, <2>7, <2>8 DEF StoreNow
<1>5. CASE Store!Forget
    <2>1. /\ v7 = "deleted" /\ v7' = "done" /\ v1' = {}
          /\ v2' = v2 /\ v3' = v3 /\ v4' = v4 /\ v5' = v5 /\ v6' = v6 /\ v9' = v9
        BY <1>5 DEF Store!Forget, Store!forgets
    <2>2. \A b \in 1..2 : v5[b] = Store!Idle
        BY <1>1, <2>1 DEF StoreCall
    <2>3. v4 = <<>> /\ OnDisk' = OnDisk
        BY <1>3, <2>1, <2>2 DEF OnDisk
    <2>4. StoreTypes'
        <3>1. {} \in StoreTexts
            BY DEF StoreTexts
        <3> QED
            BY <1>1, <2>1, <3>1 DEF StoreTypes
    <2>5. StoreDisk'
        BY <1>1, <2>1, <2>3 DEF StoreDisk
    <2>6. StoreQueue'
        <3>1. Len(v4') = 0
            BY <2>1, <2>3
        <3> QED
            BY <1>2, <2>1, <2>2, <3>1 DEF StoreQueue
    <2>7. ASSUME NEW b \in 1..2 PROVE StoreCall(b)'
        BY <1>2, <2>1, <2>2 DEF StoreCall
    <2> QED
        BY <2>4, <2>5, <2>6, <2>7 DEF StoreNow
<1>6. CASE Store!Kill
    <2>1. /\ v1' = {} /\ v4' = <<>> /\ v6' = <<>> /\ v5' = [b \in 1..2 |-> Store!Idle]
          /\ v7' = (IF v7 = "deleted" THEN "done" ELSE v7) /\ v3' = v3 /\ v9' = v9
          /\ \/ v2' = v2 /\ past' = past \cup {h \in {"half"} : \E b \in 1..2 : Store!At(b, {"drop"})}
             \/ past' = past \cup {"torn"}
        BY <1>6 DEF Store!Kill
    <2>2. v2' = v2 /\ past' = past \cup {h \in {"half"} : \E b \in 1..2 : Store!At(b, {"drop"})}
        BY <2>1
    <2>3. \A b \in 1..2 : v5[b].pc # "drop"
        BY <2>2 DEF Store!At
    <2>4. OnDisk' = OnDisk
        BY <2>1, <2>2 DEF OnDisk
    <2>5. StoreTypes'
        <3>1. {} \in StoreTexts
            BY DEF StoreTexts
        <3>2. v5' \in [1..2 -> StoreCalls \cup {Store!Idle}]
            BY <2>1
        <3>3. v4' \in Seq(StoreWrites) /\ v6' \in Seq(1..2)
            BY <2>1
        <3> QED
            BY <1>1, <2>1, <2>2, <3>1, <3>2, <3>3 DEF StoreTypes
    <2>6. StoreDisk'
        BY <1>1, <2>1, <2>2, <2>3, <2>4 DEF StoreDisk
    <2>7. \A b \in 1..2 : v5'[b] = Store!Idle
        BY <2>1
    <2>8. StoreQueue'
        <3>1. Len(v4') = 0
            BY <2>1
        <3> QED
            BY <1>2, <2>7, <3>1 DEF StoreQueue
    <2>9. ASSUME NEW b \in 1..2 PROVE StoreCall(b)'
        BY <1>2, <2>7 DEF StoreCall
    <2> QED
        BY <2>5, <2>6, <2>8, <2>9 DEF StoreNow
<1> QED
    BY <1>4, <1>5, <1>6

\* What the writes do not touch is in the mirror as on the disk.
LEMMA StoreUntouched ==
    ASSUME StoreNow, NEW i \in StoreItems,
           \A a \in 1..2 : ~(v5[a].pc = "saving" /\ v5[a].item = i)
    PROVE  i \in Newest <=> i \in OnDisk
<1>1. StoreTypes /\ StoreQueue
    BY DEF StoreNow
<1>2. PICK n \in Nat : n = Len(v4)
    BY <1>1, StoreContents
<1> DEFINE Bad == {k \in 1..n : ~(i \in Store!parsed(v4[k].what) <=> i \in OnDisk)}
<1>3. Bad = {}
    <2> SUFFICES ASSUME Bad # {} PROVE FALSE
        OBVIOUS
    <2>1. PICK k \in Bad : \A j \in Bad : k <= j
        <3>1. Bad \subseteq Nat
            OBVIOUS
        <3> HIDE DEF Bad
        <3> QED
            BY <3>1, Least
    <2>2. k \in 1..n /\ ~(i \in Store!parsed(v4[k].what) <=> i \in OnDisk)
        OBVIOUS
    <2>3. i \in Before(k) <=> i \in OnDisk
        <3>1. CASE k = 1
            BY <3>1 DEF Before
        <3>2. CASE k # 1
            <4>1. k - 1 \in 1..n /\ ~(k <= k - 1)
                BY <2>2, <3>2
            <4>2. k - 1 \notin Bad
                BY <2>1, <4>1
            <4> QED
                BY <3>2, <4>1, <4>2 DEF Before
        <3> QED
            BY <3>1, <3>2
    <2> HIDE DEF Bad
    <2>4. PICK a \in 1..2 : v4[k].by = a
        BY <1>1, <1>2, <2>2, StoreContents
    <2>5. OnDisk \in SUBSET StoreItems /\ Before(k) \in SUBSET StoreItems
        <3>1. CASE k = 1
            BY <1>1, <3>1, StoreContents DEF Before
        <3>2. CASE k # 1
            <4>1. k - 1 \in 1..n
                BY <2>2, <3>2
            <4> QED
                BY <1>1, <1>2, <3>2, <4>1, StoreContents DEF Before
        <3> QED
            BY <3>1, <3>2
    <2>6. /\ v5[a].pc \in {"moving", "saving"} /\ (v5[a].pc = "moving" => v4[k].what = {OnDisk})
          /\ v5[a].pc = "saving" => v4[k].what = {Changed(a, Before(k))}
        BY <1>1, <1>2, <2>2, <2>4 DEF StoreQueue
    <2>7. CASE v5[a].pc = "moving"
        BY <2>2, <2>5, <2>6, <2>7, StoreParsed
    <2>8. CASE v5[a].pc = "saving"
        <3>1. v5[a].item \in StoreItems /\ v5[a].item # i
            BY <1>1, <2>8, StoreShapes DEF StoreCalls, Store!Idle
        <3>2. Changed(a, Before(k)) \in SUBSET StoreItems /\ (i \in Changed(a, Before(k)) <=> i \in Before(k))
            BY <2>5, <3>1 DEF Changed
        <3>3. Store!parsed(v4[k].what) = Changed(a, Before(k))
            BY <2>6, <2>8, <3>2, StoreParsed
        <3> QED
            BY <2>2, <2>3, <3>2, <3>3
    <2> QED
        BY <2>6, <2>7, <2>8
<1>4. CASE v4 = <<>>
    BY <1>4 DEF Newest
<1>5. CASE v4 # <<>>
    <2>1. Newest = Store!parsed(v4[n].what)
        BY <1>2, <1>5, Zenon DEF Newest
    <2>2. n \in 1..n
        BY <1>1, <1>2, <1>5, StoreContents
    <2>3. i \in Store!parsed(v4[n].what) <=> i \in OnDisk
        BY <1>3, <2>2
    <2> QED
        BY <2>1, <2>3
<1> QED
    BY <1>4, <1>5

LEMMA StoreHolds == StoreInv => Store!StoreKeeps
<1> SUFFICES ASSUME StoreNow, v7 # "deleted", NEW i \in StoreItems,
                    \A a \in 1..2 : ~(v5[a].pc = "saving" /\ v5[a].item = i)
             PROVE  v9[i] = "in" <=> i \in Store!Stored
    BY DEF StoreInv, Store!StoreKeeps, Store!At, StoreItems
<1>1. StoreTypes /\ StoreDisk
    BY DEF StoreNow
<1>2. v9[i] = "in" <=> i \in OnDisk
    BY <1>1 DEF StoreDisk
<1>3. CASE v1 = {}
    <2>1. Store!Stored = OnDisk
        BY <1>3 DEF Store!Stored, OnDisk
    <2> QED
        BY <1>2, <2>1
<1>4. CASE v1 # {}
    <2>1. v1 = {Newest} /\ Newest \in SUBSET StoreItems
        BY <1>1, <1>4, StoreContents DEF StoreDisk
    <2>2. Store!parsed(v1) = Newest
        BY <2>1, StoreParsed
    <2>3. Store!Stored = Newest
        BY <1>4, <2>2 DEF Store!Stored
    <2> QED
        BY <1>2, <2>3, StoreUntouched
<1> QED
    BY <1>3, <1>4

LEMMA StoreNext == StoreInv /\ Store!Next => StoreInv'
<1> SUFFICES ASSUME StoreInv, Store!Next, past' = {} PROVE StoreNow'
    BY DEF StoreInv
<1>1. past = {}
    <2>1. \A x : x \in past => x \in past'
        BY DEF Store!Next, Store!Call, Store!Go, Store!Info, Store!Get, Store!Legacy, Store!Drop, Store!Back,
               Store!Land, Store!LandFails, Store!Delete, Store!Forget, Store!Kill, Store!save
    <2> QED
        BY <2>1
<1>2. StoreNow
    BY <1>1 DEF StoreInv
<1>3. ~Store!LandFails
    BY DEF Store!LandFails
<1> QED
    BY <1>1, <1>2, <1>3, StoreCalls1, StoreReadSteps, StoreLegacy, StoreDrop, StoreLand, StoreRest DEF Store!Next


LEMMA StoreStutters == StoreInv /\ UNCHANGED <<v1, v2, v3, v4, v5, v6, v7, v9, past>> => StoreInv'
<1> SUFFICES ASSUME StoreNow, UNCHANGED <<v1, v2, v3, v4, v5, v6, v7, v9, past>> PROVE StoreNow'
    BY DEF StoreInv
<1>1. StoreTypes'
    BY DEF StoreNow, StoreTypes
<1>2. OnDisk' = OnDisk /\ Newest' = Newest
    BY DEF OnDisk, Newest
<1>3. StoreDisk'
    BY <1>2 DEF StoreNow, StoreDisk
<1>4. \A k : Before(k)' = Before(k)
    BY <1>2 DEF Before
<1>5. \A a, k : Changed(a, Before(k))' = Changed(a, Before(k))
    BY <1>4 DEF Changed
<1>6. StoreQueue'
    BY <1>2, <1>5 DEF StoreNow, StoreQueue
<1>7. ASSUME NEW a \in 1..2 PROVE StoreCall(a)'
    <2>1. StoreCall(a) /\ \A b \in 1..2 : StoreReads(b)' <=> StoreReads(b)
        BY DEF StoreNow, StoreReads
    <2> QED
        BY <1>2, <2>1 DEF StoreCall
<1> QED
    BY <1>1, <1>3, <1>6, <1>7 DEF StoreNow

-------------------------------------------------------------------------------
(* A pull by pages: v1 is the collection on the server, v2 the notes of the  *)
(* device, v3 the pull.                                                      *)

PageNotes == [there : BOOLEAN, pin : BOOLEAN, at : Nat]

PagesTypes ==
    /\ v1 \in [Ids -> PageNotes]
    /\ v2 \in SUBSET Ids
    /\ v3 \in [pc : {"idle", "reading", "complete", "part", "failed", "merged"}, page : Nat \ {0},
               items : SUBSET Ids]
    /\ past \in [count : Nat, touched : SUBSET Ids, sunk : SUBSET Ids, kept : SUBSET Ids]

\* A note the pull need not find: it was written, or one above it was taken away.
Excused(i) == i \in past.touched \/ past.sunk \ {i} # {}

\* A note the pull has found, or finds on a page it has not read yet.
PageFound(i) ==
    /\ v3.pc = "reading" => i \in v3.items \/ Pages!Rank(i) >= (v3.page - 1) * PageSize
    /\ v3.pc = "complete" => i \in v3.items
    /\ v3.pc = "merged" => i \in v2

PagesInv ==
    /\ PagesTypes
    /\ \A i \in Ids : v1[i].at < 10 + past.count
    /\ v3.pc = "idle" => past.kept = {} /\ v3.page = 1
    /\ v3.pc \in {"reading", "complete", "part"} => past.kept = v2
    /\ \A i \in past.kept \cap Pages!There : Excused(i) \/ PageFound(i)

LEMMA PagesCount == ASSUME NEW S PROVE Pages!Cardinality(S) = Cardinality(S)
BY DEF Pages!Cardinality, Cardinality

\* The notes above a note are finitely many.
LEMMA PagesRank ==
    ASSUME NEW i
    PROVE  /\ IsFiniteSet({j \in Pages!There : Pages!Before(j, i)})
           /\ Pages!Rank(i) \in Nat
<1>1. {j \in Pages!There : Pages!Before(j, i)} \in SUBSET Ids
    BY DEF Pages!There
<1>2. IsFiniteSet({j \in Pages!There : Pages!Before(j, i)})
    BY <1>1, SomePages, FS_Subset
<1> QED
    BY <1>2, PagesCount, FS_CardinalityType DEF Pages!Rank

\* The order of the list is strict and total.
LEMMA PagesOrder ==
    ASSUME PagesTypes
    PROVE  /\ \A i \in Ids : ~Pages!Before(i, i)
           /\ \A i, j, k \in Ids : Pages!Before(i, j) /\ Pages!Before(j, k) => Pages!Before(i, k)
           /\ \A i, j \in Ids : i # j => Pages!Before(i, j) \/ Pages!Before(j, i)
<1>1. Ids \subseteq Nat
    BY SomePages
<1>2. \A i \in Ids : v1[i].at \in Nat /\ v1[i].pin \in BOOLEAN /\ i \in Nat
    BY <1>1 DEF PagesTypes, PageNotes
<1>3. \A i \in Ids : ~Pages!Before(i, i)
    BY <1>2 DEF Pages!Before
<1>4. \A i, j, k \in Ids : Pages!Before(i, j) /\ Pages!Before(j, k) => Pages!Before(i, k)
    BY <1>2 DEF Pages!Before
<1>5. \A i, j \in Ids : i # j => Pages!Before(i, j) \/ Pages!Before(j, i)
    BY <1>2 DEF Pages!Before
<1> QED
    BY <1>3, <1>4, <1>5

\* A note above another has a smaller rank.
LEMMA PagesRanks ==
    ASSUME PagesTypes, NEW i \in Pages!There, NEW j \in Pages!There, Pages!Before(j, i)
    PROVE  Pages!Rank(j) < Pages!Rank(i)
<1> DEFINE S == {k \in Pages!There : Pages!Before(k, i)}
           T == {k \in Pages!There : Pages!Before(k, j)}
<1>1. i \in Ids /\ j \in Ids /\ \A k \in Pages!There : k \in Ids
    BY DEF Pages!There
<1>2. T \in SUBSET S
    BY <1>1, PagesOrder
<1>3. j \in S /\ j \notin T
    BY <1>1, PagesOrder
<1>4. IsFiniteSet(S)
    BY PagesRank
<1> HIDE DEF S, T
<1>5. Cardinality(T) <= Cardinality(S) /\ Cardinality(T) # Cardinality(S)
    BY <1>2, <1>3, <1>4, FS_Subset
<1>6. Cardinality(T) \in Nat /\ Cardinality(S) \in Nat
    BY <1>2, <1>4, FS_Subset, FS_CardinalityType
<1>7. Pages!Rank(j) = Cardinality(T) /\ Pages!Rank(i) = Cardinality(S)
    BY PagesCount DEF Pages!Rank, S, T
<1> QED
    BY <1>5, <1>6, <1>7

\* The notes above a note have each of the ranks below its own.
LEMMA PagesTaken ==
    ASSUME PagesTypes, NEW i \in Pages!There, NEW r \in 0..(Pages!Rank(i) - 1)
    PROVE  \E j \in Pages!There : Pages!Rank(j) = r
<1> DEFINE S == {j \in Pages!There : Pages!Before(j, i)}
           n == Pages!Rank(i)
           f == [j \in S |-> Pages!Rank(j)]
<1>1. n \in Nat /\ IsFiniteSet(S) /\ Cardinality(S) = n
    BY PagesRank, PagesCount DEF Pages!Rank
<1>2. f \in [S -> 0..(n - 1)]
    <2> SUFFICES ASSUME NEW j \in S PROVE Pages!Rank(j) \in 0..(n - 1)
        OBVIOUS
    <2>1. Pages!Rank(j) < n /\ Pages!Rank(j) \in Nat
        BY PagesRanks, PagesRank
    <2> QED
        BY <1>1, <2>1
<1>3. ASSUME NEW j \in S, NEW k \in S, f[j] = f[k] PROVE j = k
    <2>1. Pages!Rank(j) = Pages!Rank(k) /\ Pages!Rank(j) \in Nat
        BY <1>3, PagesRank
    <2>2. j \in Ids /\ k \in Ids
        BY DEF Pages!There
    <2> SUFFICES ASSUME j # k PROVE FALSE
        OBVIOUS
    <2>3. CASE Pages!Before(j, k)
        BY <2>1, <2>3, PagesRanks
    <2>4. CASE Pages!Before(k, j)
        BY <2>1, <2>4, PagesRanks
    <2> QED
        BY <2>2, <2>3, <2>4, PagesOrder
<1>4. IsFiniteSet(0..(n - 1)) /\ Cardinality(0..(n - 1)) = n
    BY <1>1, FS_Interval
<1>5. S \subseteq Pages!There /\ \A j \in S : f[j] = Pages!Rank(j)
    OBVIOUS
<1> HIDE DEF S, f, n
<1>6. f \in Injection(S, 0..(n - 1))
    BY <1>2, <1>3 DEF Injection, IsInjective
<1>7. f \in Surjection(S, 0..(n - 1))
    BY <1>1, <1>4, <1>6, FS_Injection
<1>8. r \in 0..(n - 1)
    BY DEF n
<1> QED
    BY <1>5, <1>7, <1>8 DEF Surjection

\* A page above a note is full.
LEMMA PageFull ==
    ASSUME PagesTypes, NEW i \in Pages!There, NEW p \in Nat \ {0}, Pages!Rank(i) >= p * PageSize
    PROVE  Cardinality(Pages!list(p, PageSize)) >= PageSize
<1> DEFINE a == (p - 1) * PageSize
           b == p * PageSize
           B == Pages!list(p, PageSize)
           f == [j \in B |-> Pages!Rank(j)]
<1>1. a \in Nat /\ b \in Nat /\ b = a + PageSize /\ PageSize \in Nat /\ PageSize > 0
    BY SomePages
<1>2. B = {j \in Pages!There : Pages!Rank(j) >= a /\ Pages!Rank(j) < b}
    BY DEF Pages!list
<1>3. B \in SUBSET Ids
    BY <1>2 DEF Pages!There
<1>4. IsFiniteSet(B)
    BY <1>3, SomePages, FS_Subset
<1>5. Pages!Rank(i) \in Nat /\ Pages!Rank(i) >= b
    BY PagesRank
<1> HIDE DEF a, b, B
<1>6. f \in [B -> a..(b - 1)]
    <2> SUFFICES ASSUME NEW j \in B PROVE Pages!Rank(j) \in a..(b - 1)
        OBVIOUS
    <2>1. Pages!Rank(j) \in Nat
        BY PagesRank
    <2> QED
        BY <1>1, <1>2, <2>1
<1>7. ASSUME NEW r \in a..(b - 1) PROVE \E j \in B : f[j] = r
    <2>1. r \in 0..(Pages!Rank(i) - 1) /\ r >= a /\ r < b
        BY <1>1, <1>5
    <2>2. PICK j \in Pages!There : Pages!Rank(j) = r
        BY <2>1, PagesTaken
    <2> QED
        BY <1>2, <2>1, <2>2
<1> HIDE DEF f
<1>8. f \in Surjection(B, a..(b - 1))
    BY <1>6, <1>7 DEF Surjection
<1>9. Cardinality(a..(b - 1)) = PageSize
    <2>1. Cardinality(a..(b - 1)) = IF a > b - 1 THEN 0 ELSE (b - 1) - a + 1
        BY <1>1, FS_Interval
    <2> QED
        BY <1>1, <2>1
<1>10. Cardinality(a..(b - 1)) <= Cardinality(B)
    BY <1>4, <1>8, FS_Surjection
<1>11. Cardinality(B) \in Nat
    BY <1>4, FS_CardinalityType
<1> QED
    BY <1>1, <1>9, <1>10, <1>11 DEF B

LEMMA PagesInit == Init => (part = "pages" => PagesInv)
<1> SUFFICES ASSUME Pages!Init PROVE PagesInv
    BY DEF Init
<1>1. /\ v1 \in [Ids -> {Pages!None} \cup [there : {TRUE}, pin : BOOLEAN, at : Stamps]]
      /\ v2 = Pages!There /\ v3 = Pages!Idle
      /\ past = [count |-> 0, touched |-> {}, sunk |-> {}, kept |-> {}]
    BY DEF Pages!Init
<1>2. \A i \in Ids : v1[i] \in PageNotes /\ v1[i].at \in 0..9
    <2>1. Pages!None \in PageNotes /\ Pages!None.at = 0
        BY DEF Pages!None, PageNotes
    <2>2. ASSUME NEW x \in [there : {TRUE}, pin : BOOLEAN, at : Stamps] PROVE x \in PageNotes /\ x.at \in 0..9
        <3>1. x.there \in {TRUE} /\ x.pin \in BOOLEAN /\ x.at \in Stamps
              /\ x = [there |-> x.there, pin |-> x.pin, at |-> x.at]
            OBVIOUS
        <3>2. Stamps \in SUBSET (0..9)
            BY SomePages, Zenon
        <3>3. x.at \in 0..9
            BY <3>1, <3>2, Zenon
        <3>4. x.there \in BOOLEAN /\ x.at \in Nat
            <4>1. \A n \in 0..9 : n \in Nat
                OBVIOUS
            <4>2. x.at \in Nat
                BY <3>3, <4>1, Zenon
            <4>3. x.there \in BOOLEAN
                BY <3>1, Zenon
            <4> QED
                BY <4>2, <4>3, Zenon
        <3>5. x \in [there : BOOLEAN, pin : BOOLEAN, at : Nat]
            BY <3>1, <3>4, Zenon
        <3> QED
            BY <3>3, <3>5 DEF PageNotes
    <2>3. ASSUME NEW i \in Ids PROVE v1[i] \in PageNotes /\ v1[i].at \in 0..9
        <3>1. v1[i] = Pages!None \/ v1[i] \in [there : {TRUE}, pin : BOOLEAN, at : Stamps]
            BY <1>1
        <3>2. CASE v1[i] = Pages!None
            BY <2>1, <3>2
        <3>3. CASE v1[i] \in [there : {TRUE}, pin : BOOLEAN, at : Stamps]
            BY <2>2, <3>3, Zenon
        <3> QED
            BY <3>1, <3>2, <3>3
    <2> QED
        BY <2>3
<1>3. v1 \in [Ids -> PageNotes]
    BY <1>1, <1>2
<1>4. v2 \in SUBSET Ids
    BY <1>1 DEF Pages!There
<1>5. PagesTypes
    BY <1>1, <1>3, <1>4 DEF PagesTypes, Pages!Idle
<1> QED
    BY <1>1, <1>2, <1>5 DEF PagesInv, Pages!Idle

LEMMA PagesStart == PagesInv /\ Pages!Start => PagesInv'
<1> SUFFICES ASSUME PagesInv, Pages!Start PROVE PagesInv'
    OBVIOUS
<1>1. PagesTypes
    BY DEF PagesInv
<1>2. /\ v3.pc = "idle" /\ v3' = [v3 EXCEPT !.pc = "reading"] /\ past' = [past EXCEPT !.kept = v2]
      /\ v1' = v1 /\ v2' = v2
    BY DEF Pages!Start
<1>3. PagesTypes' /\ v3'.pc = "reading" /\ past'.kept = v2' /\ past'.count = past.count
    BY <1>1, <1>2 DEF PagesTypes
<1>4. ASSUME NEW i PROVE PageFound(i)'
    <2>1. v3'.page = 1 /\ (v3'.page - 1) * PageSize = 0
        BY <1>1, <1>2, SomePages DEF PagesInv, PagesTypes
    <2>2. Pages!Rank(i)' = Pages!Rank(i)
        BY <1>2 DEF Pages!Rank, Pages!There, Pages!Before
    <2>3. Pages!Rank(i)' >= 0
        <3>1. PICK n \in Nat : n = Pages!Rank(i)
            BY PagesRank
        <3> QED
            BY <2>2, <3>1
    <2> QED
        BY <1>3, <2>1, <2>3 DEF PageFound
<1> QED
    BY <1>2, <1>3, <1>4 DEF PagesInv

\* A page takes the notes it has; the others are further down, and if the page is
\* not full there are none.
LEMMA PagesFetch == PagesInv /\ Pages!fetchPage => PagesInv'
<1> SUFFICES ASSUME PagesInv, Pages!fetchPage PROVE PagesInv'
    OBVIOUS
<1> DEFINE B == Pages!list(v3.page, PageSize)
           q == IF Pages!lastPage(Cardinality(B)) THEN "complete"
                ELSE IF v3.page = MaxPages THEN "part" ELSE "reading"
<1>1. PagesTypes
    BY DEF PagesInv
<1>2. /\ v3.pc = "reading" /\ v1' = v1 /\ v2' = v2 /\ past' = past
      /\ v3' = [v3 EXCEPT !.items = @ \cup B, !.page = @ + 1, !.pc = q]
    BY PagesCount DEF Pages!fetchPage
<1>3. PICK p \in Nat \ {0} : p = v3.page
    BY <1>1 DEF PagesTypes
<1>4. B \in SUBSET Ids
    BY DEF Pages!list, Pages!There
<1>5. q \in {"complete", "part", "reading"} /\ (q = "complete" => Cardinality(B) < PageSize)
    BY DEF Pages!lastPage
<1>6. B = {j \in Pages!There : Pages!Rank(j) >= (p - 1) * PageSize /\ Pages!Rank(j) < p * PageSize}
    BY <1>3 DEF Pages!list
<1>7. B = Pages!list(p, PageSize)
    BY <1>3
<1> HIDE DEF B, q
<1>8. PagesTypes' /\ v3'.pc = q /\ v3'.page = p + 1 /\ v3'.items = v3.items \cup B
    <2>1. v3 \in [pc : {"idle", "reading", "complete", "part", "failed", "merged"}, page : Nat \ {0},
                  items : SUBSET Ids]
        BY <1>1 DEF PagesTypes
    <2>2. /\ v3' = [v3 EXCEPT !.items = v3.items \cup B, !.page = p + 1, !.pc = q]
          /\ v3.items \cup B \in SUBSET Ids /\ p + 1 \in Nat \ {0}
        BY <1>2, <1>3, <1>4, <2>1
    <2>3. v3'.pc = q /\ v3'.page = p + 1 /\ v3'.items = v3.items \cup B
        BY <2>1, <2>2
    <2>4. v3' \in [pc : {"idle", "reading", "complete", "part", "failed", "merged"}, page : Nat \ {0},
                   items : SUBSET Ids]
        BY <1>5, <2>1, <2>2
    <2> QED
        BY <1>1, <1>2, <2>3, <2>4 DEF PagesTypes
<1>9. ASSUME NEW i \in past.kept \cap Pages!There, PageFound(i) PROVE PageFound(i)'
    <2>1. i \in v3.items \/ Pages!Rank(i) >= (p - 1) * PageSize
        BY <1>2, <1>3, <1>9 DEF PageFound
    <2>2. Pages!Rank(i)' = Pages!Rank(i)
        BY <1>2 DEF Pages!Rank, Pages!There, Pages!Before
    <2>3. Pages!Rank(i) \in Nat /\ p * PageSize \in Nat
        <3>1. PageSize \in Nat
            BY SomePages
        <3>2. p * PageSize \in Nat
            BY <3>1
        <3> QED
            BY <3>2, PagesRank
    <2>4. i \in v3.items \cup B \/ Pages!Rank(i) >= p * PageSize
        BY <1>6, <2>1, <2>3
    <2>5. (p + 1) - 1 = p
        OBVIOUS
    <2>6. CASE i \in v3.items \cup B
        BY <1>5, <1>8, <2>6 DEF PageFound
    <2>7. CASE Pages!Rank(i) >= p * PageSize
        <3>1. Cardinality(B) >= PageSize
            BY <1>1, <1>7, <2>7, PageFull
        <3>2. Cardinality(B) \in Nat /\ PageSize \in Nat
            BY <1>4, SomePages, FS_Subset, FS_CardinalityType
        <3>3. q # "complete"
            BY <1>5, <3>1, <3>2
        <3> QED
            BY <1>5, <1>8, <2>2, <2>5, <2>7, <3>3 DEF PageFound
    <2> QED
        BY <2>4, <2>6, <2>7
<1>10. \A i : Excused(i)' <=> Excused(i)
    BY <1>2 DEF Excused
<1>11. Pages!There' = Pages!There
    BY <1>2 DEF Pages!There
<1> QED
    BY <1>2, <1>5, <1>8, <1>9, <1>10, <1>11 DEF PagesInv

LEMMA PagesFails == PagesInv /\ Pages!PageFails => PagesInv'
<1> SUFFICES ASSUME PagesInv, Pages!PageFails PROVE PagesInv'
    OBVIOUS
<1>1. PICK q \in {"failed", "part"} : v3' = [v3 EXCEPT !.pc = q]
    BY DEF Pages!PageFails
<1>2. v3.pc = "reading" /\ v1' = v1 /\ v2' = v2 /\ past' = past
    BY DEF Pages!PageFails
<1>3. PagesTypes' /\ v3'.pc = q
    BY <1>1, <1>2 DEF PagesInv, PagesTypes
<1>4. ASSUME NEW i PROVE PageFound(i)'
    BY <1>3 DEF PageFound
<1> QED
    BY <1>2, <1>3, <1>4 DEF PagesInv

LEMMA PagesMerge == PagesInv /\ Pages!merge => PagesInv'
<1> SUFFICES ASSUME PagesInv, Pages!merge PROVE PagesInv'
    OBVIOUS
<1>1. /\ v3.pc \in {"complete", "part"} /\ v1' = v1 /\ past' = past /\ v3' = [v3 EXCEPT !.pc = "merged"]
      /\ v2' = IF v3.pc = "complete" THEN v3.items ELSE v2 \cup v3.items
    BY DEF Pages!merge
<1>2. PagesTypes' /\ v3'.pc = "merged"
    BY <1>1 DEF PagesInv, PagesTypes
<1>3. ASSUME NEW i \in past.kept \cap Pages!There, PageFound(i) PROVE PageFound(i)'
    <2>1. past.kept = v2
        BY <1>1 DEF PagesInv
    <2>2. i \in v2'
        BY <1>1, <1>3, <2>1 DEF PageFound
    <2> QED
        BY <1>2, <2>2 DEF PageFound
<1>4. \A i : Excused(i)' <=> Excused(i)
    BY <1>1 DEF Excused
<1>5. Pages!There' = Pages!There
    BY <1>1 DEF Pages!There
<1> QED
    BY <1>1, <1>2, <1>3, <1>4, <1>5 DEF PagesInv

\* A write of another device takes no note up that it does not excuse: what was
\* above a note is above it afterwards.
LEMMA PagesWritten ==
    ASSUME PagesInv, NEW w \in Ids, NEW row \in PageNotes, NEW s \in BOOLEAN,
           v1' = [v1 EXCEPT ![w] = row], Pages!Written(w, s), UNCHANGED <<v2, v3>>,
           row.at <= 10 + past.count,
           row.there => row.at = 10 + past.count /\ (w \in Pages!There \/ w \notin v2 \cup past.kept),
           w \in Pages!There /\ ~s => row.there /\ (v1[w].pin => row.pin)
    PROVE  PagesInv'
<1>1. PagesTypes
    BY DEF PagesInv
<1>2. v1'[w] = row /\ \A i \in Ids : i # w => v1'[i] = v1[i]
    BY <1>1 DEF PagesTypes
<1>3. /\ past'.count = past.count + 1 /\ past'.kept = past.kept
      /\ past'.touched = IF v3.pc = "reading" THEN past.touched \cup {w} ELSE past.touched
      /\ past'.sunk = IF v3.pc = "reading" /\ s THEN past.sunk \cup {w} ELSE past.sunk
      /\ past' \in [count : Nat, touched : SUBSET Ids, sunk : SUBSET Ids, kept : SUBSET Ids]
    <2>1. past \in [count : Nat, touched : SUBSET Ids, sunk : SUBSET Ids, kept : SUBSET Ids]
        BY <1>1 DEF PagesTypes
    <2> DEFINE t == IF v3.pc = "reading" THEN past.touched \cup {w} ELSE past.touched
               d == IF v3.pc = "reading" /\ s THEN past.sunk \cup {w} ELSE past.sunk
    <2>2. past' = [past EXCEPT !.count = past.count + 1, !.touched = t, !.sunk = d]
        BY <2>1 DEF Pages!Written, Pages!Pulling
    <2>3. t \in SUBSET Ids /\ d \in SUBSET Ids
        BY <2>1
    <2> HIDE DEF t, d
    <2>4. past'.count = past.count + 1 /\ past'.kept = past.kept /\ past'.touched = t /\ past'.sunk = d
        BY <2>1, <2>2
    <2>5. past' = [count |-> past.count + 1, touched |-> t, sunk |-> d, kept |-> past.kept]
        BY <2>1, <2>2
    <2>6. past.count + 1 \in Nat /\ past.kept \in SUBSET Ids
        BY <2>1
    <2>7. past' \in [count : Nat, touched : SUBSET Ids, sunk : SUBSET Ids, kept : SUBSET Ids]
        BY <2>3, <2>5, <2>6
    <2> QED
        BY <2>4, <2>7 DEF t, d
<1>4. PagesTypes'
    BY <1>1, <1>3 DEF PagesTypes
<1>5. \A i \in Ids : v1[i] \in PageNotes /\ v1[i].at \in Nat /\ v1[i].at < 10 + past.count /\ past.count \in Nat
    BY <1>1 DEF PagesInv, PagesTypes, PageNotes
<1>6. \A i \in Ids : v1'[i].at < 10 + past'.count
    BY <1>2, <1>3, <1>5 DEF PageNotes
<1>7. ASSUME NEW i \in past.kept \cap Pages!There' PROVE i \in Ids /\ i \in Pages!There /\ (i # w => v1'[i] = v1[i])
    <2>1. i \in Ids /\ v1'[i].there
        BY DEF Pages!There
    <2>2. i \in Pages!There
        BY <1>2, <2>1 DEF Pages!There
    <2> QED
        BY <1>2, <2>1, <2>2
<1>8. ASSUME NEW i \in Ids, i # w, ~s PROVE Pages!Rank(i)' >= Pages!Rank(i)
    <2> DEFINE S == {j \in Pages!There : Pages!Before(j, i)}
               T == {j \in Pages!There' : Pages!Before(j, i)'}
    <2>1. v1'[i] = v1[i]
        BY <1>2, <1>8
    <2>2. ASSUME NEW j \in Pages!There, Pages!Before(j, i) PROVE j \in Pages!There' /\ Pages!Before(j, i)'
        <3>1. j \in Ids /\ v1[j].there
            BY DEF Pages!There
        <3>2. CASE j # w
            <4>1. v1'[j] = v1[j]
                BY <1>2, <3>1, <3>2
            <4> QED
                BY <2>1, <2>2, <3>1, <4>1 DEF Pages!There, Pages!Before
        <3>3. CASE j = w
            <4>1. v1'[j] = row /\ row.there /\ (v1[j].pin => row.pin) /\ row.at = 10 + past.count
                BY <1>2, <1>8, <3>3
            <4>2. row.at > v1[i].at /\ row.at # v1[i].at
                BY <1>5, <4>1
            <4>3. row.pin \in BOOLEAN /\ v1[i].pin \in BOOLEAN /\ v1[j].pin \in BOOLEAN
                BY <1>5, <3>1 DEF PageNotes
            <4>4. v1[i].pin => row.pin
                BY <2>2, <4>1, <4>3 DEF Pages!Before
            <4>5. Pages!Before(j, i)'
                BY <2>1, <4>1, <4>2, <4>3, <4>4 DEF Pages!Before
            <4> QED
                BY <3>1, <4>1, <4>5 DEF Pages!There
        <3> QED
            BY <3>2, <3>3
    <2>3. S \in SUBSET T
        BY <2>2
    <2>4. T \in SUBSET Ids
        BY DEF Pages!There
    <2>5. IsFiniteSet(T)
        BY <2>4, SomePages, FS_Subset
    <2>6. Pages!Rank(i) = Cardinality(S) /\ Pages!Rank(i)' = Cardinality(T)
        BY PagesCount DEF Pages!Rank
    <2> HIDE DEF S, T
    <2>7. Cardinality(S) <= Cardinality(T)
        BY <2>3, <2>5, FS_Subset
    <2>8. Cardinality(S) \in Nat /\ Cardinality(T) \in Nat
        BY <2>3, <2>5, FS_Subset, FS_CardinalityType
    <2> QED
        BY <2>6, <2>7, <2>8
<1>9. ASSUME NEW i \in past.kept \cap Pages!There' PROVE Excused(i)' \/ PageFound(i)'
    <2>1. CASE Excused(i)
        BY <1>3, <2>1 DEF Excused
    <2>2. CASE PageFound(i) /\ v3.pc # "reading"
        BY <2>2 DEF PageFound
    <2>3. CASE v3.pc = "reading" /\ (i = w \/ s)
        BY <1>3, <2>3 DEF Excused
    <2>4. CASE PageFound(i) /\ v3.pc = "reading" /\ i # w /\ ~s
        <3>1. Pages!Rank(i)' >= Pages!Rank(i)
            BY <1>7, <1>8, <2>4
        <3>2. Pages!Rank(i) \in Nat /\ Pages!Rank(i)' \in Nat
            <4>1. ASSUME NEW u PROVE Pages!Rank(u) \in Nat
                BY PagesRank
            <4>2. Pages!Rank(i)' \in Nat
                <5>1. {j \in Pages!There' : Pages!Before(j, i)'} \in SUBSET Ids
                    BY DEF Pages!There
                <5>2. IsFiniteSet({j \in Pages!There' : Pages!Before(j, i)'})
                    BY <5>1, SomePages, FS_Subset
                <5> QED
                    BY <5>2, PagesCount, FS_CardinalityType DEF Pages!Rank
            <4> QED
                BY <4>1, <4>2
        <3>3. PICK a \in Nat : a = (v3.page - 1) * PageSize
            BY <1>1, SomePages DEF PagesTypes
        <3>4. i \in v3.items \/ Pages!Rank(i) >= a
            BY <2>4, <3>3 DEF PageFound
        <3>5. i \in v3.items \/ Pages!Rank(i)' >= a
            BY <3>1, <3>2, <3>4
        <3> QED
            BY <2>4, <3>3, <3>5 DEF PageFound
    <2>5. Excused(i) \/ PageFound(i)
        BY <1>7 DEF PagesInv
    <2> QED
        BY <2>1, <2>2, <2>3, <2>4, <2>5
<1>10. (v3'.pc = "idle" => past'.kept = {} /\ v3'.page = 1) /\ (v3'.pc \in {"reading", "complete", "part"} => past'.kept = v2')
    BY <1>3 DEF PagesInv
<1> QED
    BY <1>3, <1>4, <1>6, <1>9, <1>10 DEF PagesInv

LEMMA PagesWrites ==
    ASSUME PagesInv, NEW i \in Ids, Pages!Delete(i) \/ \E pin \in BOOLEAN : Pages!Write(i, pin)
    PROVE  PagesInv'
<1>1. PagesTypes /\ past.count \in Nat
    BY DEF PagesInv, PagesTypes
<1>2. CASE Pages!Delete(i)
    <2>1. Pages!None \in PageNotes /\ Pages!None.at <= 10 + past.count /\ ~Pages!None.there
        BY <1>1 DEF Pages!None, PageNotes
    <2>2. v1' = [v1 EXCEPT ![i] = Pages!None] /\ Pages!Written(i, TRUE) /\ UNCHANGED <<v2, v3>>
        BY <1>2 DEF Pages!Delete
    <2> QED
        BY <2>1, <2>2, PagesWritten
<1>3. ASSUME NEW pin \in BOOLEAN, Pages!Write(i, pin) PROVE PagesInv'
    <2> DEFINE row == [there |-> TRUE, pin |-> pin, at |-> 10 + past.count]
               s == v1[i].pin /\ ~pin
    <2>1. /\ v1' = [v1 EXCEPT ![i] = row] /\ Pages!Written(i, s) /\ UNCHANGED <<v2, v3>>
          /\ i \in Pages!There \/ i \notin v2 \cup past.kept
        BY <1>3 DEF Pages!Write, Pages!Now
    <2>2. row \in PageNotes /\ row.at = 10 + past.count /\ row.at <= 10 + past.count /\ row.there /\ row.pin = pin
        BY <1>1 DEF PageNotes
    <2>3. s \in BOOLEAN /\ (~s => (v1[i].pin => row.pin))
        OBVIOUS
    <2> HIDE DEF row, s
    <2> QED
        BY <2>1, <2>2, <2>3, PagesWritten
<1> QED
    BY <1>2, <1>3

LEMMA PagesSteps ==
    ASSUME part = "pages", [Next]_allVars
    PROVE  Pages!Next \/ UNCHANGED <<v1, v2, v3, past>>
BY DEF Next, allVars

LEMMA PagesNext ==
    ASSUME PagesInv, Pages!Next \/ UNCHANGED <<v1, v2, v3, past>>
    PROVE  PagesInv'
<1>1. CASE Pages!Next
    BY <1>1, PagesStart, PagesFetch, PagesFails, PagesMerge, PagesWrites DEF Pages!Next
<1>2. CASE UNCHANGED <<v1, v2, v3, past>>
    <2>1. PagesTypes'
        BY <1>2 DEF PagesInv, PagesTypes
    <2>2. \A i : (Excused(i)' <=> Excused(i)) /\ (PageFound(i)' <=> PageFound(i))
        BY <1>2 DEF Excused, PageFound, Pages!Rank, Pages!There, Pages!Before
    <2> QED
        BY <1>2, <2>1, <2>2 DEF PagesInv, Pages!There
<1> QED
    BY <1>1, <1>2

LEMMA PagesHold == PagesInv => Pages!PullKeepsNotes
<1> SUFFICES ASSUME PagesInv, v3.pc = "merged", NEW i \in past.kept \cap Pages!There
             PROVE  i \in v2 \cup past.touched \/ past.sunk \ {i} # {}
    BY DEF Pages!PullKeepsNotes
<1> QED
    BY DEF PagesInv, Excused, PageFound

\* What a call of the device's store has reported is what a read returns: the disk has
\* what was reported, and the writes that wait take it to what the mirror has.  And a
\* pull by pages finds every note of the device that is still there, but one that was
\* written meanwhile, or that moved up when another was deleted or unpinned.
THEOREM NothingIsLost == Spec => []StoreKeeps
<1> DEFINE I == (part = "store" => StoreInv) /\ (part = "pages" => PagesInv)
<1>1. Init => I
    BY StoreInit, PagesInit
<1>2. I /\ [Next]_allVars => I'
    <2> SUFFICES ASSUME I, [Next]_allVars PROVE I'
        OBVIOUS
    <2>1. CASE part = "store"
        <3>1. part' = "store" /\ (Store!Next \/ UNCHANGED <<v1, v2, v3, v4, v5, v6, v7, v9, past>>)
            BY <2>1, StoreSteps
        <3>2. CASE Store!Next
            BY <2>1, <3>1, <3>2, StoreNext
        <3>3. CASE UNCHANGED <<v1, v2, v3, v4, v5, v6, v7, v9, past>>
            BY <2>1, <3>1, <3>3, StoreStutters
        <3> QED
            BY <3>1, <3>2, <3>3
    <2>2. CASE part = "pages"
        <3>1. part' = "pages"
            BY <2>2 DEF Next, allVars
        <3> QED
            BY <2>2, <3>1, PagesSteps, PagesNext
    <2>3. CASE part \notin {"store", "pages"}
        <3>1. part' = part
            BY DEF Next, allVars
        <3> QED
            BY <2>3, <3>1
    <2> QED
        BY <2>1, <2>2, <2>3
<1>3. I => StoreKeeps
    BY StoreHolds, PagesHold DEF StoreKeeps
<1> HIDE DEF I
<1> QED
    BY <1>1, <1>2, <1>3, PTL DEF Spec, allVars
===============================================================================
