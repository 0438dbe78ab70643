----------------------------- MODULE AtomicFile -----------------------------
(***************************************************************************)
(* How bumshid replaces one of its JSON files: the new contents go to      *)
(* "<path>.tmp", which is then renamed over <path>. The access roster      *)
(* (admin/accessusers.go, save) and the live settings                      *)
(* (settings/settings.go, save) are both written this way. Contents are    *)
(* abstract values; what matters is which of them a file holds, that it is *)
(* missing, or that it cannot be decoded.                                  *)
(***************************************************************************)
CONSTANTS
    Missing,    \* no file (a zero-length file loads the same way)
    Damaged     \* bytes that do not decode: a torn write, a bad hand edit

VARIABLES
    file,       \* contents of <path>
    tmp         \* contents of <path>.tmp, which nothing ever reads back

fileVars == <<file, tmp>>

\* os.WriteFile(tmp, data) succeeded.
WriteTemp(data) ==
    /\ tmp' = data
    /\ UNCHANGED file

\* Mutant: the file itself is opened and truncated, without a ".tmp".
WriteTempFailsInPlace ==
    /\ file' \in {file, Damaged}
    /\ UNCHANGED tmp

\* os.WriteFile failed: before touching tmp (the open failed), or part way.
WriteTempFails ==
    /\ tmp' \in {tmp, Damaged}
    /\ UNCHANGED file

\* os.Rename(tmp, path): the one step that changes <path>.
RenameTemp ==
    /\ file' = tmp
    /\ tmp' = Missing

\* os.Rename failed: tmp stays behind and <path> keeps its old contents.
RenameTempFails == UNCHANGED fileVars

\* The process dies inside os.WriteFile: tmp is untouched, torn or complete.
DieWriting(data) ==
    /\ tmp' \in {tmp, Damaged, data}
    /\ UNCHANGED file
=============================================================================
