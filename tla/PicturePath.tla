------------------------------ MODULE PicturePath ------------------------------
(***************************************************************************)
(* From a complete frame to the clients, in the thread of the video packets *)
(* (VideoHandlerWiiU::update from the end of a frame on): the frame is      *)
(* wrapped (NalEscape), decoded into an image, encoded as JPEG and written  *)
(* to every client behind a delimiter, a part at a time.                    *)
(*                                                                         *)
(* A picture is the number of the frame it shows. Which pictures the        *)
(* decoder gives, and when, is up to it; the image it may leave unwritten   *)
(* is memory that was never set. One client is followed; ClientRegistry     *)
(* has what several of them do to each other.                               *)
(***************************************************************************)
EXTENDS NalEscape

CONSTANTS
  Jpeg(_),       \* the bytes a picture is encoded as
  TriesAllowed,  \* failed sends after which a client is removed
  Silent,        \* bound: the frame number up to which the decoder may give no picture
  Delay,         \* bound: how many frames later than its frame it may give one
  LaterLen       \* bound: bytes of a frame that is not the first

\* What an image is encoded as are bytes, whatever its memory shows.
ASSUME PictureAssumption ==
  /\ \A picture \in -2..MaxFrames : Jpeg(picture) \in Seq(0..255)
  /\ TriesAllowed \in Nat /\ Silent \in Nat /\ Delay \in Nat /\ LaterLen \in 0..MaxLen

VARIABLES
  stage,      \* of the frame: "wrap", "encode" or "broadcast"
  out_frame,  \* the last picture the decoder gave
  image_rgb,  \* what the memory of the image shows
  packet,     \* the delimiter and the picture
  remaining,  \* bytes of it left to write
  client,     \* "none", "open" or "closed": a client that asked for video
  tries,      \* its failed sends
  received,   \* the bytes it has got
  written     \* history: for each packet, its picture, whether the decoder gave it, and the bytes written

pictureVars == <<stage, out_frame, image_rgb, packet, remaining, client, tries, received, written>>
pathVars    == <<vars, pictureVars>>

\* The image memory before anything is in it, and a mixture of other contents.
Blank  == -1
Jumble == -2

PACKET_DELIMITER == <<124, 124, 124, 124, 10>>

PathTypeOK ==
  /\ TypeOK
  /\ stage \in {"wrap", "encode", "broadcast"}
  /\ out_frame \in -1..MaxFrames /\ image_rgb \in -2..MaxFrames
  /\ packet \in Seq(0..255) /\ remaining \in 0..Len(packet)
  /\ client \in {"none", "open", "closed"} /\ tries \in 0..TriesAllowed

PathInit ==
  /\ Init /\ stage = "wrap"
  /\ out_frame = Blank /\ image_rgb = Blank /\ packet = <<>> /\ remaining = 0
  /\ client = "none" /\ tries = 0 /\ received = <<>> /\ written = <<>>

\* Server::update accepts a client: in the model between two frames.
Connect ==
  /\ pc = "idle" /\ client = "none" /\ client' = "open"
  /\ UNCHANGED <<vars, stage, out_frame, image_rgb, packet, remaining, tries, received, written>>

\* Frames a client is shown are told apart by their numbers only.
Longest == IF client # "none" THEN 0 ELSE IF frame_decode_num = 0 THEN MaxLen ELSE LaterLen

Wrap ==
  /\ \E idr \in BOOLEAN, n \in 0..Longest : \E f \in [1..n -> Bytes] : Encapsulate(idr, f)
  /\ UNCHANGED pictureVars

Escape == EscapeByte /\ UNCHANGED pictureVars

\* H264Decoder::image. A picture is scaled into out_frame and copied from there; without
\* one, the image keeps what its memory held.
Copied_BeforeScaling(scaled) == out_frame
Copied(scaled) == scaled

Image(got_frame) ==
  /\ stage = "wrap" /\ pc = "escape" /\ byte > Len(frame) /\ stage' = "encode"
  /\ IF got_frame
       THEN /\ out_frame' \in (out_frame + 1)..(frame_decode_num - 1) /\ out_frame' >= frame_decode_num - 1 - Delay
            /\ image_rgb' = Copied(out_frame')
       ELSE /\ frame_decode_num <= Silent
            /\ image_rgb' \in {image_rgb, Blank, Jumble} /\ UNCHANGED out_frame
  /\ written' = IF client = "open" THEN Append(written, [picture |-> image_rgb', given |-> got_frame, bytes |-> 0])
                                   ELSE written
  /\ UNCHANGED <<vars, packet, remaining, client, tries, received>>

\* ImageUtil::rgb_to_jpeg and the packet of broadcast_media.
Encode ==
  /\ stage = "encode" /\ stage' = "broadcast"
  /\ packet' = PACKET_DELIMITER \o Jpeg(image_rgb)
  /\ remaining' = IF client = "open" THEN Len(packet') ELSE 0
  /\ UNCHANGED <<vars, out_frame, image_rgb, client, tries, received, written>>

size == Len(packet) - Len(PACKET_DELIMITER)

\* send() takes what it has room for.
From_Start == 0
From == size - remaining + Len(PACKET_DELIMITER)

Send(sent) ==
  /\ stage = "broadcast" /\ remaining > 0
  /\ received' = received \o SubSeq(packet, From + 1, From + sent)
  /\ remaining' = remaining - sent
  /\ written' = [written EXCEPT ![Len(written)].bytes = @ + sent]
  /\ UNCHANGED <<vars, stage, out_frame, image_rgb, packet, client, tries>>

\* The rest of the packet is dropped; the next one follows on the same connection.
SendFails ==
  /\ stage = "broadcast" /\ remaining > 0 /\ remaining' = 0
  /\ IF tries < TriesAllowed THEN tries' = tries + 1 /\ UNCHANGED client
                             ELSE client' = "closed" /\ UNCHANGED tries
  /\ UNCHANGED <<vars, stage, out_frame, image_rgb, packet, received, written>>

\* The three buffers are freed. The image's memory may be used for the next one.
Free ==
  /\ stage = "broadcast" /\ remaining = 0 /\ stage' = "wrap" /\ Done /\ packet' = <<>>
  /\ UNCHANGED <<out_frame, image_rgb, remaining, client, tries, received, written>>

PathNext ==
  \/ Connect \/ Wrap \/ Escape
  \/ \E got_frame \in BOOLEAN : Image(got_frame)
  \/ Encode
  \/ \E sent \in 1..remaining : Send(sent)
  \/ SendFails \/ Free

PathSpec == PathInit /\ [][PathNext]_pathVars

-----------------------------------------------------------------------------
(* Properties. *)

\* A picture the decoder gave for a frame is what the clients get for it, and newer than
\* all they got before; what they get when it gave none, which nobody looks at
\* (VideoHandlerWiiU.cpp:59), is an older picture or none, never one to come.
PicturesInOrder ==
  \A k \in DOMAIN written :
    /\ written[k].picture <= out_frame
    /\ written[k].given => written[k].picture >= 0 /\ \A i \in 1..(k - 1) : written[i].picture < written[k].picture

\* The positions where a delimiter ends in what a client gets, and the place of one of
\* them, or of a packet, among its like.
Ends(s)    == {i \in Len(PACKET_DELIMITER)..Len(s) :
                 \A j \in DOMAIN PACKET_DELIMITER : s[i - Len(PACKET_DELIMITER) + j] = PACKET_DELIMITER[j]}
Rank(S, x) == Cardinality({y \in S : y <= x})

\* The packets whose delimiter was sent, and the bytes sent of the picture behind it.
Begun  == {k \in DOMAIN written : written[k].bytes >= Len(PACKET_DELIMITER)}
Got(k) == written[k].bytes - Len(PACKET_DELIMITER)

\* Behind the delimiter that ends at e are the bytes sent of picture k, and then
\* nothing but bars, up to and with those of the next delimiter.
Piece(e, k) ==
  /\ e + Got(k) <= Len(received)
  /\ \A p \in 1..Got(k) : received[e + p] = Jpeg(written[k].picture)[p]
  /\ \A next \in Ends(received) : next > e => next >= e + Got(k) + Len(PACKET_DELIMITER)
  /\ \A p \in (e + Got(k) + 1)..Len(received) :
       (\A next \in Ends(received) : next <= e \/ p < next) => received[p] = 124

Unmistakable == \A k \in DOMAIN written : Ends(Jpeg(written[k].picture)) = {}
CutOff       == {k \in 1..(Len(written) - 1) : written[k].bytes < Len(PACKET_DELIMITER) + Len(Jpeg(written[k].picture))}

Apart ==
  /\ Cardinality(Ends(received)) = Cardinality(Begun)
  /\ \A p \in DOMAIN received : (\A e \in Ends(received) : p < e) => received[p] = 124
  /\ \A e \in Ends(received), k \in Begun : Rank(Ends(received), e) = Rank(Begun, k) => Piece(e, k)

\* However the system cuts a packet up, and even when a failed send leaves one
\* unfinished and the next follows on the same connection (Server.cpp:200-211), a client
\* that splits at delimiters gets each picture as a piece of its own, in order, with
\* nothing in it but bars of a delimiter cut off behind it, and no more of them cut off
\* than sends have failed. No picture sent may contain a delimiter for that.
Delimited ==
  /\ Cardinality(CutOff) <= tries + (IF client = "closed" THEN 1 ELSE 0)
  /\ Unmistakable => Apart
=============================================================================
