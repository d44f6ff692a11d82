----------------------------- MODULE ImageStore -----------------------------
(***************************************************************************)
(* Images: the store a pasted one is written to by the hash of its bytes,  *)
(* and the request the attached ones are read into, newest first, within   *)
(* a byte budget and then within the body limit. (image.rs)                *)
(***************************************************************************)
EXTENDS Naturals, Sequences, FiniteSets, SequencesExt

CONSTANTS
    Paster,             \* processes that paste the same image at once
    ImageLength,        \* the bytes of that image
    MaxImageBytes,      \* MAX_IMAGE_BYTES
    MaxTotalBytes,      \* MAX_TOTAL_BYTES
    MaxRequestBytes,    \* MAX_REQUEST_BYTES
    MaxPerMessage,      \* MAX_IMAGES_PER_MESSAGE
    Envelope,           \* bytes of the body that are neither images nor notes
    NoteBytes,          \* bytes of a note
    FileKinds,          \* what the attached paths may hold when they are read
    MaxMessages,        \* bound: messages of the request
    MaxImages           \* bound: images of a message

ASSUME ImageStoreAssumption ==
    /\ ImageLength \in Nat \ {0}
    /\ {MaxImageBytes, MaxTotalBytes, MaxRequestBytes, MaxPerMessage, Envelope, NoteBytes} \subseteq Nat

VARIABLES
    cached,             \* bytes under the hash's name, "none", or other bytes
    paster,             \* per process: what it has done of store_at
    request,            \* the messages: their images, the notes left in their text
    cursor              \* where hydrate_for stands, and what is left of the budget

imageVars == <<cached, paster, request, cursor>>

(***************************************************************************)
(* store_at: create the name, write, then read back what the name holds.   *)
(***************************************************************************)

NoImage == [exists |-> FALSE, length |-> 0, ours |-> TRUE]

Pastes(p, pc) == paster' = [paster EXCEPT ![p] = pc]

(* Bytes that are no image, or a state directory somebody redirected, fail. *)
CreateImage(p) ==
    /\ paster[p] = "idle"
    /\ \/ Pastes(p, "failed") /\ UNCHANGED cached
       \/ cached.exists /\ Pastes(p, "verify") /\ UNCHANGED cached
       \/ ~cached.exists /\ Pastes(p, "write") /\ cached' = [NoImage EXCEPT !.exists = TRUE]
    /\ UNCHANGED <<request, cursor>>

(* write_all goes on until every byte is written, or fails. *)
WriteImage(p) ==
    /\ paster[p] = "write"
    /\ \/ /\ cached' = [cached EXCEPT !.length = @ + 1]
          /\ Pastes(p, IF cached.length + 1 = ImageLength THEN "verify" ELSE "write")
       \/ Pastes(p, "failed") /\ UNCHANGED cached
    /\ UNCHANGED <<request, cursor>>

MutMatches == cached.exists

(* What is under the name must be these bytes, whoever put them there. *)
Matches == cached.exists /\ cached.ours /\ cached.length = ImageLength

VerifyImage(p) ==
    /\ paster[p] = "verify"
    /\ Pastes(p, "failed") \/ (Matches /\ Pastes(p, "stored"))     \* moved away, or unreadable
    /\ UNCHANGED <<cached, request, cursor>>

(* The process dies, or begins again. *)
PasteAgain(p) ==
    /\ paster[p] # "idle"
    /\ Pastes(p, "idle")
    /\ UNCHANGED <<cached, request, cursor>>

(* Somebody put other bytes there before. *)
Occupied == [exists |-> TRUE, length |-> ImageLength, ours |-> FALSE]

(***************************************************************************)
(* Reading the images into the request.                                    *)
(***************************************************************************)

(* What one image may come to: how long its file is when it is inspected,  *)
(* how long when it is read, 0 if it is gone or no image by then. Or it is *)
(* a URL already, and there is no file to look at.                         *)
Link == [link |-> TRUE, inspected |-> 0, read |-> 1]
Outcome == {Link} \cup {[link |-> FALSE, inspected |-> i, read |-> r] : i, r \in FileKinds}

inspect(o) == o.inspected # 0 /\ o.inspected <= MaxImageBytes

data_url_of(o) == o.read # 0 /\ o.read <= MaxImageBytes

(* A body carries base64: four bytes for three, padded. A URL is as long   *)
(* as it is.                                                               *)
Encoded(o) == IF o.link THEN o.read ELSE 4 * ((o.read + 2) \div 3)

Bytes(m) == FoldSeq(LAMBDA i, sum : i.wire + sum, NoteBytes * Len(m.notes), m.images)

serialized_size(messages) == FoldSeq(LAMBDA m, sum : Bytes(m) + sum, Envelope, messages)

ImagesOn(messages, accepted, start) ==
    /\ cached = start
    /\ paster = [p \in Paster |-> "idle"]
    /\ request = messages
    /\ cursor = [message |-> Len(messages), left |-> MaxTotalBytes, accepted |-> accepted,
                 pc |-> "hydrate"]

(* A message that has still to be read: how many images it came with. *)
Unread(n) == [attached |-> n, images |-> <<>>, notes |-> <<>>, cut |-> 0]

HydrateInit ==
    \E n \in 1..MaxMessages, accepted \in BOOLEAN : \E counts \in [1..n -> 0..MaxImages] :
        ImagesOn([i \in 1..n |-> Unread(counts[i])], accepted, NoImage)

PasteInit == \E start \in {NoImage, Occupied} : ImagesOn(<<>>, TRUE, start)

(* What becomes of the image at this position: it goes along, or a note    *)
(* says why not. The gates come before the file is looked at, and a file   *)
(* that cannot be read after all has been charged.                         *)
Verdict(position, o, left, accepted) ==
    IF ~accepted THEN "not accepted"
    ELSE IF position >= MaxPerMessage THEN "over count"
    ELSE IF o.link THEN "sent"
    ELSE IF ~inspect(o) THEN "unavailable"
    ELSE IF o.inspected > left THEN "over total"
    ELSE IF data_url_of(o) THEN "sent" ELSE "unavailable"

Charged(o, fate) == IF fate = "sent" \/ (fate = "unavailable" /\ inspect(o)) THEN o.inspected ELSE 0

(* hydrate_for takes the messages from the last, and in each the images    *)
(* from the last: here one image a step. Images and notes keep the order   *)
(* they were attached in.                                                  *)
hydrate_for ==
    LET m == request[cursor.message]
        position == m.attached - Len(m.images) - Len(m.notes) - 1
    IN /\ cursor.pc = "hydrate" /\ cursor.message > 0
       /\ IF position < 0
          THEN cursor' = [cursor EXCEPT !.message = @ - 1] /\ UNCHANGED request
          ELSE \E o \in Outcome :
                 LET fate == Verdict(position, o, cursor.left, cursor.accepted)
                 IN /\ request' = [request EXCEPT ![cursor.message] =
                                      IF fate = "sent"
                                      THEN [m EXCEPT !.images = <<[wire |-> Encoded(o), charged |-> o.inspected]>> \o @]
                                      ELSE [m EXCEPT !.notes = <<fate>> \o @]]
                    /\ cursor' = [cursor EXCEPT !.left = @ - Charged(o, fate)]
       /\ UNCHANGED <<cached, paster>>

Hydrated ==
    /\ cursor.pc = "hydrate" /\ cursor.message = 0
    /\ cursor' = [cursor EXCEPT !.pc = "fit"]
    /\ UNCHANGED <<cached, paster, request>>

Fits == serialized_size(request) <= MaxRequestBytes

MutOldest == CHOOSE k \in DOMAIN request :
                 /\ request[k].images # <<>>
                 /\ \A j \in DOMAIN request : request[j].images # <<>> => j <= k

WithImages == {i \in DOMAIN request : request[i].images # <<>>}

Oldest == CHOOSE k \in WithImages : \A j \in WithImages : k <= j

(* The oldest image goes, with a note in its place, until the body fits. *)
fit_request_to_limit ==
    /\ cursor.pc = "fit"
    /\ IF Fits \/ WithImages = {}
       THEN cursor' = [cursor EXCEPT !.pc = "sent"] /\ UNCHANGED request
       ELSE LET i == Oldest
            IN /\ request' = [request EXCEPT ![i].images = Tail(@), ![i].cut = @ + 1,
                                             ![i].notes = Append(@, "over request")]
               /\ UNCHANGED cursor
    /\ UNCHANGED <<cached, paster>>

(* Pasting and sending share nothing but the files, which the request's    *)
(* outcomes leave open.                                                    *)
PasteNext ==
    \/ \E p \in Paster : CreateImage(p)
    \/ \E p \in Paster : WriteImage(p)
    \/ \E p \in Paster : VerifyImage(p)
    \/ \E p \in Paster : PasteAgain(p)

HydrateNext == hydrate_for \/ Hydrated \/ fit_request_to_limit

(***************************************************************************)
(* Properties.                                                             *)
(***************************************************************************)

(* A path that a paste was given holds the pasted bytes, although others   *)
(* paste the same image meanwhile, fail in the middle of writing it, or    *)
(* have put something else there. (store_at)                               *)
PastedIsStored ==
    (\E p \in Paster : paster[p] = "stored") => cached.ours /\ cached.length = ImageLength

Total == FoldSeq(LAMBDA m, sum : FoldSeq(LAMBDA i, t : i.charged + t, 0, m.images) + sum, 0, request)

Noted(m, why) == Cardinality({k \in DOMAIN m.notes : m.notes[k] = why})

(* No image is left out in silence or for a reason that is not so, whatever *)
(* becomes of its file between the look at it and the read; a request that *)
(* carries images keeps within the budget and the body limit, the newest   *)
(* being the last to go; and nothing goes to a model that takes no images. *)
(* (hydrate_for, fit_request_to_limit)                                     *)
ImagesAreAccountedFor ==
    /\ Total <= MaxTotalBytes
    /\ ~cursor.accepted => WithImages = {}
    /\ cursor.pc = "sent" =>
          /\ \A i \in DOMAIN request :
                LET m == request[i]
                IN /\ Len(m.images) + Len(m.notes) = m.attached
                   /\ Noted(m, "not accepted") = IF cursor.accepted THEN 0 ELSE m.attached
                   /\ Noted(m, "over count") = IF cursor.accepted /\ m.attached > MaxPerMessage
                                               THEN m.attached - MaxPerMessage ELSE 0
                   /\ Noted(m, "over request") = m.cut
          /\ WithImages # {} => serialized_size(request) <= MaxRequestBytes
          /\ \A i, j \in DOMAIN request : request[j].cut > 0 /\ i < j => i \notin WithImages
=============================================================================
