-------------------------------- MODULE MCNal --------------------------------
(* Small instances of PicturePath, and with it of NalEscape, for TLC. *)
EXTENDS PicturePath

MCJpeg(picture) == <<124, 200 + (picture % 50)>>

\* A client comes within the first two frames and is followed for three.
Followed == client # "none" => Len(written) <= 3 /\ frame_decode_num <= 5
=============================================================================
