------------------------------ MODULE Storage ------------------------------
(***************************************************************************)
(* Uploaded files: src/src/storage/index.ts and routes.ts.  A column holds *)
(* a key, a backend holds the bytes.  A save looks whether the key is      *)
(* taken, awaits, and writes; a delete and a read look first as well.      *)
(* Files are served to be cached for a year, as bytes that never change.   *)
(*                                                                         *)
(* Three backends: the local disk, whose writes are seen half done and     *)
(* survive a crash half done; a bucket of an S3 service, which shows a     *)
(* file whole or not at all; and a Map in memory, for tests.  A key is a   *)
(* string: the name a file kept, which anybody may think of and ask for at *)
(* any moment, or a name with a random suffix, which nobody thinks of      *)
(* before the save that drew it is answered, and anybody may use after     *)
(* that, as the name of another file too.                                  *)
(***************************************************************************)
EXTENDS Naturals, FiniteSets

CONSTANTS
  Names,     \* names of files, made safe
  Drawable,  \* names with a random suffix; a save draws one that no other drew
  Bytes,     \* what a file may hold
  MaxBytes,  \* the limit of an upload
  Accept,    \* the content types accepted
  Slots,     \* bound: calls of the backend at once
  None,
  Half       \* a file half written

ASSUME StorageConstants ==
  /\ MaxBytes \in Nat \ {0} /\ None \notin Bytes /\ Half \notin Bytes /\ None # Half
  /\ Names \cap Drawable = {}

VARIABLES
  backend,   \* "local", "s3" or "memory"
  files,     \* what is stored under each key
  calls,     \* calls of the backend that have begun
  drawn,     \* keys that were drawn
  known,     \* keys that a save was answered with
  cached,    \* what somebody keeps as the bytes behind a key, for a year
  kept,      \* history: keys written under a name that was kept
  disturbed  \* history: keys deleted, overwritten, lost, saved by two at once or read half written

filesVars == <<backend, files, calls, drawn, known, cached, kept, disturbed>>

Keys == Names \cup Drawable
Nameable == Names \cup known
NoCall == [pc |-> "idle", key |-> None, bytes |-> None, drew |-> FALSE, overwrite |-> FALSE]
Call(pc, key) == [NoCall EXCEPT !.pc = pc, !.key = key]

FilesInit ==
  /\ backend \in {"local", "s3", "memory"}
  /\ files = [k \in Keys |-> None] /\ calls = [c \in Slots |-> NoCall]
  /\ drawn = {} /\ known = {} /\ kept = {} /\ disturbed = {} /\ cached = [k \in Keys |-> None]

At(c, pc) == calls[c].pc = pc
Go(c, pc) == calls' = [calls EXCEPT ![c].pc = pc]
Done(c) == calls' = [calls EXCEPT ![c] = NoCall]
Exists(key) == files[key] # None
Put(key, bytes) == files' = [files EXCEPT ![key] = bytes]

-----------------------------------------------------------------------------
\* uniqueKey adds a suffix to safeKey's name; an upload may ask to keep the name.
KeyFor(name, keepName) == IF keepName THEN {name} ELSE Drawable \ drawn

\* upload: an empty file, one over the limit or of another type is refused before any write.
Accepted(size, type) == size # 0 /\ size <= MaxBytes /\ type \in Accept
Upload(c, name, bytes, size, type, keepName, overwrite) ==
  /\ At(c, "idle") /\ name \in Nameable /\ Accepted(size, type)
  /\ \E key \in KeyFor(name, keepName) :
       /\ calls' = [calls EXCEPT ![c] = [Call("check", key) EXCEPT !.bytes = bytes, !.drew = ~keepName,
                                                                   !.overwrite = overwrite]]
       /\ drawn' = IF keepName THEN drawn ELSE drawn \cup {key}
  /\ UNCHANGED <<backend, files, known, cached, kept, disturbed>>

\* save: the key must be free, unless it may be overwritten ...
FreeUnlooked(c) == calls[c].overwrite \/ calls[c].key \in Keys
Free(c) == calls[c].overwrite \/ ~Exists(calls[c].key)
SaveCheck(c) ==
  /\ At(c, "check")
  /\ IF Free(c) THEN Go(c, "write") ELSE Done(c)
  /\ UNCHANGED <<backend, files, drawn, known, cached, kept, disturbed>>

\* ... and after mkdir and toBlob the bytes are written.  The disk can fail.
Saving(key) == {c \in Slots : calls[c].key = key /\ calls[c].pc \in {"write", "writing"}}
Disturbs(c) == \/ calls[c].overwrite /\ Exists(calls[c].key)
               \/ Saving(calls[c].key) # {c}
SaveWrite(c) == LET key == calls[c].key IN
  /\ At(c, "write")
  /\ \/ /\ IF backend = "local" THEN Put(key, Half) /\ Go(c, "writing") /\ UNCHANGED known
                                ELSE Put(key, calls[c].bytes) /\ Done(c) /\ known' = known \cup {key}
        /\ kept' = IF calls[c].drew THEN kept ELSE kept \cup {key}
        /\ disturbed' = IF Disturbs(c) THEN disturbed \cup {key} ELSE disturbed
     \/ Done(c) /\ UNCHANGED <<files, known, kept, disturbed>>
  /\ UNCHANGED <<backend, drawn, cached>>
SaveWritten(c) == LET key == calls[c].key IN
  /\ At(c, "writing")
  /\ Put(key, calls[c].bytes) /\ Done(c) /\ known' = known \cup {key}
  /\ UNCHANGED <<backend, drawn, cached, kept, disturbed>>

-----------------------------------------------------------------------------
\* delete: false when there is no file; on the disk and the bucket the file goes after an await.
Delete(c, key) ==
  /\ At(c, "idle") /\ key \in Nameable /\ Exists(key)
  /\ IF backend = "memory"
     THEN Put(key, None) /\ disturbed' = disturbed \cup {key} /\ UNCHANGED calls
     ELSE calls' = [calls EXCEPT ![c] = Call("remove", key)] /\ UNCHANGED <<files, disturbed>>
  /\ UNCHANGED <<backend, drawn, known, cached, kept>>
Remove(c) ==
  /\ At(c, "remove")
  /\ Put(calls[c].key, None) /\ disturbed' = disturbed \cup {calls[c].key} /\ Done(c)
  /\ UNCHANGED <<backend, drawn, known, cached, kept>>

\* GET /files/*: whatever key is asked for, the bytes are read after the look, as they are then, and
\* kept by whoever asked; when they are gone by then the request fails.
Read(c, key) ==
  /\ At(c, "idle") /\ key \in Nameable /\ Exists(key)
  /\ calls' = [calls EXCEPT ![c] = [Call("read", key) EXCEPT !.bytes = files[key]]]
  /\ UNCHANGED <<backend, files, drawn, known, cached, kept, disturbed>>
Seen(c) == IF backend = "memory" THEN calls[c].bytes ELSE files[calls[c].key]
Respond(c) == LET key == calls[c].key IN
  /\ At(c, "read")
  /\ Done(c)
  /\ cached' = [cached EXCEPT ![key] = IF @ = None THEN Seen(c) ELSE @]
  /\ disturbed' = IF Seen(c) = Half THEN disturbed \cup {key} ELSE disturbed
  /\ UNCHANGED <<backend, files, drawn, known, kept>>

\* The process dies: calls end where they are, and a Map is empty.
Crash ==
  /\ calls' = [c \in Slots |-> NoCall]
  /\ IF backend = "memory"
     THEN files' = [k \in Keys |-> None] /\ disturbed' = disturbed \cup {k \in Keys : Exists(k)}
     ELSE UNCHANGED <<files, disturbed>>
  /\ UNCHANGED <<backend, drawn, known, cached, kept>>

FilesNext ==
  \/ \E c \in Slots :
       \/ \E name \in Keys, bytes \in Bytes, size \in {0, MaxBytes, MaxBytes + 1},
             type \in {"image/png", "text/html"}, keepName, overwrite \in BOOLEAN :
            Upload(c, name, bytes, size, type, keepName, overwrite)
       \/ SaveCheck(c) \/ SaveWrite(c) \/ SaveWritten(c)
       \/ \E key \in Keys : Delete(c, key) \/ Read(c, key)
       \/ Remove(c) \/ Respond(c)
  \/ Crash
FilesSpec == FilesInit /\ [][FilesNext]_filesVars

-----------------------------------------------------------------------------
FilesTypeOK ==
  /\ files \in [Keys -> Bytes \cup {None, Half}] /\ cached \in [Keys -> Bytes \cup {None, Half}]
  /\ drawn \subseteq Drawable /\ known \subseteq Keys /\ kept \subseteq Keys /\ disturbed \subseteq Keys

(* The bytes behind a key never change "because keys carry a random suffix"  *)
(* (routes.ts, to every cache): under a key that was drawn, and that nobody  *)
(* wrote to again as a name to keep, what anybody keeps is whole and is what *)
(* is stored, whatever is saved, deleted, cut off by a crash or read at the  *)
(* same time.  Any other key carries no suffix of its own: under it, what is *)
(* kept is half a file, or not what is stored, only when the file was        *)
(* deleted, overwritten on purpose, lost with the process, saved by two at   *)
(* once or asked for while it was half written.                              *)
BytesStay ==
  \A k \in Keys :
    \/ cached[k] = Half
    \/ cached[k] # None /\ Exists(k) /\ files[k] # cached[k]
    => k \in disturbed /\ k \notin Drawable \ kept
=============================================================================
