-------------------------------- MODULE MCParts --------------------------------
(***************************************************************************)
(* The parts that share no state, each on its own in one run: the first     *)
(* state chooses the part that goes.  They take turns with the same         *)
(* variables, v1 to v14 and past; a part leaves those it does not need      *)
(* at 0.                                                                    *)
(***************************************************************************)
EXTENDS Naturals, FiniteSets, Sequences

CONSTANTS
    MaxEdits, MaxFaults,                           \* the note editor
    Users, Limit, GlobalLimit, Window, MaxTime,    \* the limiter
    MaxRetries, JobTimeout, StaleAge, Interval,    \* the transcription
    Files, MaxTotal,                               \* the records
    Devices, Passwords, KeyIds, Nil, MaxChanges,   \* the keys
    TempIds, RealIds, MaxWrites,                   \* the trips
    CHUNK_SIZE, HEADER_BYTES, MaxSize,             \* the attachments
    Ids, PageSize, MaxPages, Stamps,               \* the pages of a pull
    MaxVisits, MaxFails,                           \* the news card
    Outlets,                                       \* the headlines
    MaxOpens,                                      \* the notes that are opened again
    H, MonthStarts, Year, MAX_SEARCH_DAYS, Starts, Changes, MaxDay,  \* the recurrence
    MaxGrants, MaxTurns                            \* Canva

\* A user is not the key all users share; a quota lets somebody through.
ASSUME SomeQuota == /\ Limit \in Nat \ {0} /\ GlobalLimit \in Nat \ {0} /\ Window \in Nat
                    /\ "global" \notin Users
\* A job that is waited for is too young to be swept.
ASSUME SomeTimes == /\ StaleAge \in Nat /\ Interval \in Nat /\ JobTimeout \in Nat
                    /\ JobTimeout < StaleAge
\* Notes have numbers, a page has a place, and a stamp is in the past.
ASSUME SomePages == /\ Ids \in SUBSET Nat /\ IsFiniteSet(Ids) /\ PageSize \in Nat \ {0}
                    /\ Stamps \in SUBSET (0..9)
\* The device's ids are none of the server's.
ASSUME SomeTrips == RealIds # {} /\ TempIds \cap RealIds = {}
\* A bound is a number; no value is neither a text nor the row of an escrow.
ASSUME SomeGrants == MaxGrants \in Nat
ASSUME NilIsNoText == Nil \notin [says : 0..3, coats : Nat]
ASSUME NilIsNoKey == Nil \notin [by : Passwords, key : KeyIds \cup {Nil}, recovery : KeyIds]

VARIABLES part, v1, v2, v3, v4, v5, v6, v7, v8, v9, v10, v11, v12, v13, v14, past

Editor  == INSTANCE NoteEditor WITH ed <- v1, saves <- v2, leave <- v3, notes <- v4
Limits  == INSTANCE Limiter WITH now <- v1, events <- v2, passed <- v3, told <- v4
Speech  == INSTANCE Transcription WITH Requests <- Users, req <- v1, age <- v2, sleep <- v3,
                   swept <- v4, faults <- v5
Account == INSTANCE Records WITH MaxFaults <- 1, user <- v1, rows <- v2, files <- v3, used <- v4,
                   pending <- v5, erase <- v6
Key     == INSTANCE Keys WITH MaxEdits <- 1, None <- Nil, password <- v1, escrow <- v2, dev <- v3, note <- v4,
                   made <- v5, shown <- v6, edits <- v7, changes <- v8
Trip    == INSTANCE Trips WITH None <- Nil, trips <- v1, ev <- v2, queue <- v3, screen <- v4, push <- v5,
                   pull <- v6, server <- v7, sev <- v8, del <- v9, other <- v10
Cipher  == INSTANCE AttachmentStream WITH file <- v1, enc <- v2, frames <- v3, hurt <- v4,
                   dec <- v5
Pages   == INSTANCE PagedPull WITH MaxWrites <- 1, rows <- v1, known <- v2, pull <- v3
News    == INSTANCE NewsCard WITH screen <- v1, puts <- v2, user <- v3, prefs <- v4, cache <- v5,
                   card <- v6, writes <- v7
Brew    == INSTANCE DailyBrew WITH Limit <- 3, Feeds <- {<<3, 1>>, <<1, 3>>, <<0, 2>>, <<2, 2>>},
                   feed <- v1, cache <- v2, holder <- v3, fetch <- v4, follow <- v5
Reopen  == INSTANCE OpenNote WITH MaxTime <- 3, loc <- v1, srv <- v2, op <- v3, push <- v4,
                   screen <- v5, get <- v6, up <- v7
Series  == INSTANCE Recurrence WITH rule <- v1, zone <- v2, day <- v3
Link    == INSTANCE Canva WITH MaxFaults <- 1, Requests <- 1..2, states <- v1, calls <- v2,
                   row <- v3, req <- v4, live <- v5
Store   == INSTANCE LocalStore WITH Actors <- 1..2, Items <- {"x", "y"}, MaxCalls <- 4, MaxKills <- 1,
                   cache <- v1, file <- v2, legacy <- v3, writes <- v4, op <- v5, lock <- v6,
                   wipe <- v7, count <- v8, told <- v9
Linked  == INSTANCE NoteLinks WITH Notes <- {"n", "m"}, Events <- {"e", "f"}, MaxTouches <- 2,
                   loc <- v1, srv <- v2, queue <- v3, scr <- v4, stack <- v5, form <- v6, mail <- v7,
                   key <- v8, focus <- v9, reads <- v10, links <- v11, wish <- v12, typed <- v13,
                   count <- v14
Shared  == INSTANCE Shares WITH Posts <- {"d", "e"}, Notes <- {"n", "m", "o"}, First <- "n", Deep <- 3,
                   os <- v1, signed <- v2, run <- v3, draft <- v4, stack <- v5, note <- v6, list <- v7,
                   wish <- v8
Seal    == INSTANCE Ciphertext WITH None <- Nil, MaxSaves <- 2, kind <- v1, row <- v2, copy <- v3,
                   queue <- v4, push <- v5, pull <- v6, dek <- v7, saves <- v8

\* The variables from the n-th on are not used.
Rest11 == v11 = 0 /\ v12 = 0 /\ v13 = 0 /\ v14 = 0
Rest10 == v10 = 0 /\ Rest11
Rest9 == v9 = 0 /\ Rest10
Rest8 == v8 = 0 /\ Rest9
Rest7 == v7 = 0 /\ Rest8
Rest6 == v6 = 0 /\ Rest7
Rest5 == v5 = 0 /\ Rest6
Rest4 == v4 = 0 /\ Rest5

Init ==
    \/ part = "editor" /\ Editor!Init /\ Rest5
    \/ part = "limiter" /\ Limits!Init /\ Rest5 /\ past = 0
    \/ part = "transcription" /\ Speech!Init /\ Rest6 /\ past = 0
    \/ part = "records" /\ Account!Init /\ Rest7
    \/ part = "keys" /\ Key!Init /\ v1 = "p1" /\ Rest9
    \/ part = "trips" /\ Trip!Init /\ Rest11
    \/ part = "attachments" /\ Cipher!Init /\ Rest6 /\ past = 0
    \/ part = "pages" /\ Pages!Init /\ Rest4
    \/ part = "news" /\ News!Init /\ Rest8
    \/ part = "headlines" /\ Brew!Init /\ Rest6
    \/ part = "reopening" /\ Reopen!Init /\ Rest8
    \/ part = "recurrence" /\ Series!Init /\ Rest4 /\ past = 0
    \/ part = "canva" /\ Link!Init /\ Rest6
    \/ part = "store" /\ Store!Init /\ Rest10
    \/ part = "links" /\ Linked!Init
    \/ part = "shares" /\ Shared!Init /\ Rest9
    \/ part = "ciphertext" /\ Seal!Init /\ Rest9

\* What only the trips and the links need.
more == <<v11, v12, v13, v14>>

Next ==
    \/ part = "editor" /\ Editor!Next /\ UNCHANGED <<part, v5, v6, v7, v8, v9, v10, more>>
    \/ part = "limiter" /\ Limits!Next /\ UNCHANGED <<part, v5, v6, v7, v8, v9, v10, more, past>>
    \/ part = "transcription" /\ Speech!Next /\ UNCHANGED <<part, v6, v7, v8, v9, v10, more, past>>
    \/ part = "records" /\ Account!Next /\ UNCHANGED <<part, v7, v8, v9, v10, more>>
    \/ part = "keys" /\ Key!Next /\ UNCHANGED <<part, v9, v10, more>>
    \/ part = "trips" /\ Trip!Next /\ UNCHANGED <<part, more>>
    \/ part = "attachments" /\ Cipher!Next /\ UNCHANGED <<part, v6, v7, v8, v9, v10, more, past>>
    \/ part = "pages" /\ Pages!Next /\ UNCHANGED <<part, v4, v5, v6, v7, v8, v9, v10, more>>
    \/ part = "news" /\ News!Next /\ UNCHANGED <<part, v8, v9, v10, more>>
    \/ part = "headlines" /\ Brew!Next /\ UNCHANGED <<part, v6, v7, v8, v9, v10, more>>
    \/ part = "reopening" /\ Reopen!Next /\ UNCHANGED <<part, v8, v9, v10, more>>
    \/ part = "recurrence" /\ Series!Next /\ UNCHANGED <<part, v4, v5, v6, v7, v8, v9, v10, more, past>>
    \/ part = "canva" /\ Link!Next /\ UNCHANGED <<part, v6, v7, v8, v9, v10, more>>
    \/ part = "store" /\ Store!Next /\ UNCHANGED <<part, v10, more>>
    \/ part = "links" /\ Linked!Next /\ UNCHANGED part
    \/ part = "shares" /\ Shared!Next /\ UNCHANGED <<part, v9, v10, more>>
    \/ part = "ciphertext" /\ Seal!Next /\ UNCHANGED <<part, v9, v10, more>>

Spec == Init /\ [][Next]_<<part, v1, v2, v3, v4, v5, v6, v7, v8, v9, v10, more, past>>

\* Bounds: a part is not followed beyond what excuses its property.  One request
\* at a time waits to write its row; the first key made is k1; one operation of
\* the trips is queued at a time, and a push is not under way with a pull or a
\* deletion; both users of Canva have not gone through each other's connection;
\* one push or pull of the encrypted record is under way at a time.
Followed ==
    /\ part = "records" => Cardinality(v5) <= 1 /\ ~past.late
    /\ part = "keys" => ("k2" \in v5 => "k1" \in v5)
    /\ part = "trips" => /\ ~past.temp /\ ~past.held /\ ~past.raced
                         /\ Cardinality(v3) <= 1
                         /\ v5.on => v6.pc = "idle" /\ v9 = {}
    /\ part = "news" => ~past.lost /\ ~(past.crossed /\ past.straddled)
    /\ part = "canva" => past.crossed # Users
    /\ part \in {"store", "links", "shares"} => past = {}
    /\ part = "ciphertext" => /\ Cardinality(past) <= 1 /\ Cardinality(Seal!Busy) <= 1

\* The note editor makes one note and keeps its last edit (NoteEditor), and a note
\* opened again keeps the edits that were made in it (OpenNote).
EditorKeeps ==
    /\ part = "editor" => Editor!SavedOnce
    /\ part = "reopening" => Reopen!ReopenKeepsEdits

\* The limits hold in every window of time (Limiter).
QuotaHolds == part = "limiter" => Limits!QuotaHolds

\* No recording stays at the speech service longer than it must (Transcription).
AudioGoes == part = "transcription" => Speech!AudioGoes

\* An erased account has left nothing (Records).
ErasedLeavesNothing == part = "records" => Account!ErasedLeavesNothing

\* The account's password opens a key that recovers the notes, and the migration
\* that encrypts them keeps the newest text (Keys).
KeyIsKept ==
    part = "keys" => Key!NotesRecoverable /\ Key!PasswordOpensKey /\ Key!MigrationKeepsEdits

\* An event's link names a trip that is there (Trips).
LinksLive == part = "trips" => Trip!LinksLive

\* A file that opens is the file that was closed (AttachmentStream).
OpensWhole == part = "attachments" => Cipher!OpensWhole

\* The card shows what the reader chose last (NewsCard); the outlets are fetched
\* once and share the reply fairly (DailyBrew).
NewsHolds ==
    /\ part = "news" => News!CacheIsFollowed
    /\ part = "headlines" => Brew!FetchSpared /\ Brew!SlotsAreFair

\* The app and the server find the same days of a series (Recurrence).
SameDays == part = "recurrence" => Series!SameDays

\* A connection that is there works (Canva).
ConnectionLives == part = "canva" => Link!ConnectionLives

\* What a call has reported is what the next read returns (LocalStore), and a pull
\* that ends loses no note of the device (PagedPull).
StoreKeeps ==
    /\ part = "store" => Store!StoreKeeps
    /\ part = "pages" => Pages!PullKeepsNotes

\* An event is linked to the note it was made in (NoteLinks).
LinksLand == part = "links" => Linked!LinksLand

\* A shared post is in the note that was chosen for it (Shares).
SharesArrive == part = "shares" => Shared!SharesArrive

\* A text on the server is encrypted once, or plain and marked so (Ciphertext).
SealHolds == part = "ciphertext" => Seal!SealHolds
===============================================================================
