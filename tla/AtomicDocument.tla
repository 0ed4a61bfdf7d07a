--------------------------- MODULE AtomicDocument ---------------------------
(***************************************************************************)
(* Replacing one JSON document in place, as three components do it: the    *)
(* desktop library (atomic_replace, recover_library_document), the package *)
(* registry and the runtime updater (atomic_json_replace and recovery). The *)
(* new text is written and flushed under a temporary name, the old file is *)
(* renamed to <name>.previous, the temporary takes the name, and the old   *)
(* file is removed.  A process may die between any two steps; the next one *)
(* to open the document recovers it.                                       *)
(*                                                                         *)
(* A slot is the document's files and the step of the replacement that is  *)
(* in flight.  The module has no variables: a component keeps a slot in    *)
(* one of its own.                                                         *)
(***************************************************************************)

NoDocument == [kind |-> "none"]

Unreadable == [kind |-> "bad"]

Document(value) == [kind |-> "ok", value |-> value]

EmptySlot ==
    [path |-> NoDocument, previous |-> NoDocument, step |-> "idle", next |-> NoDocument]

\* The temporary is written and flushed.
StartReplace(slot, value) ==
    [slot EXCEPT !.step = "staged", !.next = Document(value)]

\* The document becomes the backup.
SetAside(slot) ==
    [slot EXCEPT !.previous = slot.path, !.path = NoDocument, !.step = "aside"]

\* A first version has nothing to set aside; otherwise a left-over backup is
\* removed, the document set aside, the temporary published, and the backup
\* removed and the directory flushed.
ReplaceStep(slot) ==
    CASE slot.step = "staged" /\ slot.path = NoDocument ->
            [slot EXCEPT !.path = slot.next, !.step = "published"]
      [] slot.step = "staged" /\ slot.path # NoDocument ->
            [slot EXCEPT !.previous = NoDocument, !.step = "cleared"]
      [] slot.step = "cleared" -> SetAside(slot)
      [] slot.step = "aside" ->
            [slot EXCEPT !.path = slot.next, !.step = "published"]
      [] slot.step = "published" ->
            [slot EXCEPT !.previous = NoDocument, !.step = "idle", !.next = NoDocument]

\* The rename of the temporary fails: the old document is put back.
PutBack(slot) ==
    [slot EXCEPT !.path = slot.previous, !.previous = NoDocument,
                 !.step = "idle", !.next = NoDocument]

\* The process dies; a temporary it leaves is never read.
Interrupt(slot) == [slot EXCEPT !.step = "idle", !.next = NoDocument]

Replacing(slot) == slot.step # "idle"

\* The recovery of the registry and the updater fails closed: a backup that
\* is needed must be readable.
CanRecover(slot) ==
    \/ slot.previous = NoDocument
    \/ slot.path.kind = "ok"
    \/ slot.previous.kind = "ok"

\* A form that drops the backup whenever the document exists.
RecoverUnchecked(slot) ==
    IF slot.path # NoDocument \/ slot.previous = NoDocument
    THEN [slot EXCEPT !.previous = NoDocument]
    ELSE [slot EXCEPT !.path = slot.previous, !.previous = NoDocument]

RecoveredSlot(slot) ==
    CASE slot.previous = NoDocument -> slot
      [] slot.path.kind = "ok" -> [slot EXCEPT !.previous = NoDocument]
      [] OTHER -> [slot EXCEPT !.path = slot.previous, !.previous = NoDocument]

\* The desktop library never refuses: what it cannot read it moves to
\* recovery/, and without a readable document it starts from an empty one.
RecoverOrReset(slot) ==
    LET restored == IF slot.path.kind # "ok" /\ slot.previous.kind = "ok"
                    THEN [slot EXCEPT !.path = slot.previous, !.previous = NoDocument]
                    ELSE IF slot.path.kind # "ok"
                    THEN [slot EXCEPT !.previous = NoDocument]
                    ELSE slot
    IN  IF restored.path = Unreadable THEN [restored EXCEPT !.path = NoDocument] ELSE restored
=============================================================================
