----------------------------- MODULE ErrorClasses -----------------------------
(***************************************************************************)
(* What becomes of an error of the remote server on its way to the browser: *)
(* the adapters wrap it (ftp/errclass.go, sftp/errclass.go), the             *)
(* handlers decide whether the connection is lost (api/connlost.go) and      *)
(* which code to answer (api/errclass.go).                                  *)
(*                                                                         *)
(* An error is a record:                                                    *)
(*   is    what errors.Is and errors.As find in its chain                    *)
(*   says  the phrases in its full text that some rule looks for             *)
(*   deep  those in the text deepestMessage returns                         *)
(* Wrapping with one %w keeps deep; with two, as the adapters do, the chain   *)
(* forks, errors.Unwrap stops there, and the full text is what is read.      *)
(***************************************************************************)
EXTENDS FiniteSets

\* Phrases stand for the synonyms a text rule looks for; these speak of a lost connection.
LostPhrases == {"broken pipe", "connection lost"}

SocketLoss == {"EOF", "ErrUnexpectedEOF", "EPIPE", "ECONNRESET", "ErrClosed"}
Replies == {"421", "425", "530", "551", "552", "553", "550", "other reply"}

\* What the sentinel of transfer/client.go says of itself.
Says(sentinel) ==
  CASE sentinel = "ErrConnectionLost"   -> {"connection lost"}
    [] sentinel = "ErrNotFound"         -> {"not found"}
    [] sentinel = "ErrPermissionDenied" -> {"permission denied"}
    [] sentinel = "ErrFileExists"       -> {"exists"}
    [] sentinel = "ErrQuotaExceeded"    -> {"quota"}
    [] sentinel = "ErrDirNotEmpty"      -> {"not empty"}
    [] OTHER                            -> {}

Raw(tags, phrases) == [is |-> tags, says |-> phrases, deep |-> phrases]

\* fmt.Errorf("%w: %w", sentinel, err).
Wrap(sentinel, e) ==
  LET text == Says(sentinel) \cup e.says
  IN  [is |-> e.is \cup {sentinel}, says |-> text, deep |-> text]

Timeout(e) == "timeout" \in e.is
IsSocketLoss(e) == e.is \cap SocketLoss # {}

-----------------------------------------------------------------------------
(* The adapters.  Of the rules for an error the first that fits is taken.   *)

\* A 550 means what the server's wording says, in this order.
Wrap550(e) ==
  IF "not empty" \in e.says THEN Wrap("ErrDirNotEmpty", e) ELSE
  IF "permission denied" \in e.says THEN Wrap("ErrPermissionDenied", e) ELSE
  IF {"no such file", "not found"} \cap e.says # {} THEN Wrap("ErrNotFound", e) ELSE
  IF "exists" \in e.says THEN Wrap("ErrFileExists", e) ELSE
  IF "quota" \in e.says THEN Wrap("ErrQuotaExceeded", e) ELSE
  e

FtpReply(e) ==
  IF "421" \in e.is THEN Wrap("ErrConnectionLost", e) ELSE
  IF "425" \in e.is THEN Wrap("ErrDataConnectionFailed", e) ELSE
  IF "552" \in e.is THEN Wrap("ErrQuotaExceeded", e) ELSE
  IF "553" \in e.is THEN Wrap("ErrPermissionDenied", e) ELSE
  IF "530" \in e.is THEN Wrap("ErrAuthFailed", e) ELSE
  IF "551" \in e.is THEN Wrap("ErrInvalidType", e) ELSE
  IF "550" \in e.is THEN Wrap550(e) ELSE
  e

\* wrapErr of ftp/errclass.go.
FtpWrapErr(e) ==
  IF "ErrListingLimit" \in e.is THEN e ELSE
  IF e.is \cap Replies # {} THEN FtpReply(e) ELSE
  IF Timeout(e) THEN Wrap("ErrConnectionTimeout", e) ELSE
  IF IsSocketLoss(e) THEN Wrap("ErrConnectionLost", e) ELSE
  IF "bad data address" \in e.says THEN Wrap("ErrDataConnectionFailed", e) ELSE
  e

\* Upload of ftp/ftp.go: a failed STOR leaves a part of the file, unless it was refused.
FtpUploadErr(e) ==
  LET w == FtpWrapErr(e)
  IN  IF {"ErrQuotaExceeded", "ErrPermissionDenied"} \cap w.is # {}
      THEN w ELSE Wrap("ErrTransferIncomplete", w)

\* wrapErr of sftp/errclass.go; a status is tagged by its SSH_FX name.
SftpWrapErr(e) ==
  IF "ErrListingLimit" \in e.is THEN e ELSE
  IF "fx no such file" \in e.is THEN Wrap("ErrNotFound", e) ELSE
  IF "fx permission denied" \in e.is THEN Wrap("ErrPermissionDenied", e) ELSE
  IF "fx unsupported" \in e.is THEN Wrap("ErrPermissionsNotSupported", e) ELSE
  IF "fx connection lost" \in e.is THEN Wrap("ErrConnectionLost", e) ELSE
  IF "fx bad message" \in e.is THEN Wrap("ErrInvalidType", e) ELSE
  IF "fx failure" \in e.is THEN e ELSE
  IF Timeout(e) THEN Wrap("ErrConnectionTimeout", e) ELSE
  IF IsSocketLoss(e) THEN Wrap("ErrConnectionLost", e) ELSE
  e

-----------------------------------------------------------------------------
(* The handlers.                                                           *)

IsConnLost(e) ==
  \/ e.is \cap ({"ErrConnectionLost"} \cup SocketLoss) # {}
  \/ "PathError" \notin e.is /\ e.deep \cap LostPhrases # {}

ClassifyText(e) ==
  IF "not empty" \in e.deep THEN "ErrDirNotEmpty" ELSE
  IF "permission denied" \in e.deep THEN "ErrFilePermission" ELSE
  IF "exists" \in e.deep THEN "ErrFileExists" ELSE
  IF {"no such file", "not found"} \cap e.deep # {} THEN "ErrFileNotFound" ELSE
  IF "quota" \in e.deep THEN "ErrQuotaExceeded" ELSE
  "ErrOperationFailed"

\* Sentinels before text, a lost connection before the rest.
ClassifyCode(e) ==
  IF "errStorageLimit" \in e.is THEN "ErrCapacity" ELSE
  IF "ErrListingLimit" \in e.is THEN "ErrListingLimit" ELSE
  IF IsConnLost(e) THEN "ErrConnectionLost" ELSE
  IF {"ErrConnectionTimeout", "timeout"} \cap e.is # {} THEN "ErrConnectionTimeout" ELSE
  IF "ErrDataConnectionFailed" \in e.is THEN "ErrDataConnectionFailed" ELSE
  IF "ErrTransferIncomplete" \in e.is THEN "ErrTransferIncomplete" ELSE
  IF "ErrDirNotEmpty" \in e.is THEN "ErrDirNotEmpty" ELSE
  IF "ErrPermissionDenied" \in e.is THEN "ErrFilePermission" ELSE
  IF "ErrNotFound" \in e.is THEN "ErrFileNotFound" ELSE
  IF "ErrFileExists" \in e.is THEN "ErrFileExists" ELSE
  IF "ErrQuotaExceeded" \in e.is THEN "ErrQuotaExceeded" ELSE
  IF "ErrPermissionsNotSupported" \in e.is THEN "ErrPermissionsNotSupported" ELSE
  IF "ErrInvalidType" \in e.is THEN "ErrInvalidType" ELSE
  IF "ErrAuthFailed" \in e.is THEN "ErrAuthFailed" ELSE
  IF "ErrConnectionFailed" \in e.is THEN "ErrConnectionFailed" ELSE
  ClassifyText(e)

\* The code failClient answers: the caller's own one stands in for the catch-all.
FailCode(e, code) ==
  IF IsConnLost(e) THEN "ErrConnectionLost" ELSE
  IF ClassifyCode(e) = "ErrOperationFailed" THEN code ELSE
  ClassifyCode(e)

=============================================================================
