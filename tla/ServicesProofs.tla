--------------------------- MODULE ServicesProofs ---------------------------
(***************************************************************************)
(* Proofs about Storage, Email and SignIn: on all three storage backends,  *)
(* and for any number of names, suffixes and calls at once, of mails and   *)
(* batches, and of browsers, accounts and callbacks.                       *)
(***************************************************************************)
EXTENDS SignIn, Storage, Email, SequenceTheorems, FiniteSetTheorems, TLAPS

Saves(c) == calls[c].pc \in {"check", "write", "writing"}

CallTypes == [pc: {"idle", "check", "write", "writing", "remove", "read"},
              key: Keys \cup {None}, bytes: Bytes \cup {None, Half}, drew: BOOLEAN, overwrite: BOOLEAN]

(* The variables keep their types, those of the calls included. *)
Typed ==
  /\ FilesTypeOK
  /\ calls \in [Slots -> CallTypes]
  /\ \A c \in Slots : calls[c].pc # "idle" => calls[c].key \in Keys

(* A key with a suffix was drawn before anybody knew it or used it ... *)
Drawn ==
  /\ \A k \in Drawable : k \in known => k \in drawn
  /\ \A k \in Drawable : k \in kept => k \in known
  /\ \A c \in Slots : calls[c].pc # "idle" /\ calls[c].key \in Drawable => calls[c].key \in drawn

(* ... and is saved by the call that drew it alone until that call is answered. *)
SavedOnce ==
  \A c \in Slots : Saves(c) =>
    /\ calls[c].drew => /\ calls[c].key \in Drawable
                        /\ calls[c].key \notin known
                        /\ \A d \in Slots : Saves(d) /\ calls[d].key = calls[c].key => d = c
    /\ ~calls[c].drew /\ calls[c].key \in Drawable => calls[c].key \in known

(* Nobody reads, deletes or keeps what is behind a suffix that no save was answered with. *)
KeptKnown ==
  /\ \A k \in Drawable : cached[k] # None => k \in known
  /\ \A c \in Slots : calls[c].pc \in {"remove", "read"} /\ calls[c].key \in Drawable => calls[c].key \in known

(* A call that saves holds bytes, meets nothing when it writes unless it may, and has *)
(* the file to itself while it is half written.                                       *)
Holding == \A c \in Slots : Saves(c) => calls[c].bytes \in Bytes
WritesFree == \A c \in Slots : calls[c].pc = "write" /\ ~calls[c].overwrite =>
                files[calls[c].key] = None \/ calls[c].key \in disturbed
WritingHalf == \A c \in Slots : calls[c].pc = "writing" =>
                 /\ files[calls[c].key] = Half \/ calls[c].key \in disturbed
                 /\ ~calls[c].drew => calls[c].key \in kept
                 /\ backend = "local"
WritingAlone == \A c, d \in Slots :
                  calls[c].pc = "writing" /\ calls[d].pc = "writing" /\ calls[c].key = calls[d].key /\ c # d
                  => calls[c].key \in disturbed

(* What a reader of the Map holds, or anybody keeps, is what is stored. *)
ReadsStored == \A c \in Slots : calls[c].pc = "read" /\ backend = "memory" =>
  calls[c].key \in disturbed \/ (calls[c].bytes # None /\ files[calls[c].key] = calls[c].bytes)
KeptStored == \A k \in Keys : cached[k] # None =>
  k \in disturbed \/ (cached[k] # Half /\ files[k] = cached[k])

(* Under a suffix that nobody used as a name the file is whole when it is known, and is never *)
(* another one.                                                                               *)
Pure == Drawable \ kept
Whole ==
  /\ \A k \in Pure : /\ k \in known => files[k] # Half
                     /\ cached[k] # None => cached[k] # Half /\ files[k] \in {None, cached[k]}
  /\ \A c \in Slots : calls[c].pc = "read" /\ backend = "memory" /\ calls[c].key \in Pure =>
       calls[c].bytes # Half /\ files[calls[c].key] \in {None, calls[c].bytes}

FilesInv == /\ Typed /\ Drawn /\ SavedOnce /\ KeptKnown
            /\ Holding /\ WritesFree /\ WritingHalf /\ WritingAlone /\ ReadsStored /\ KeptStored /\ Whole

-----------------------------------------------------------------------------
(* A call that begins. *)
LEMMA NoCallShape == NoCall \in CallTypes /\ NoCall.pc = "idle"
  BY DEF NoCall, CallTypes
LEMMA CallShape ==
  ASSUME NEW pc \in {"check", "remove", "read"}, NEW key \in Keys
  PROVE  /\ Call(pc, key) \in CallTypes
         /\ Call(pc, key).pc = pc /\ Call(pc, key).key = key
  BY NoCallShape DEF Call, CallTypes

LEMMA InitInv == FilesInit => FilesInv
<1> SUFFICES ASSUME FilesInit PROVE FilesInv
  OBVIOUS
<1>1. Typed
  BY NoCallShape DEF FilesInit, Typed, FilesTypeOK
<1>2. \A c \in Slots : calls[c].pc = "idle"
  BY DEF FilesInit, NoCall
<1>3. \A k \in Keys : cached[k] = None
  BY DEF FilesInit
<1>4. Drawable \subseteq Keys
  BY DEF Keys
<1>5. Drawn /\ SavedOnce /\ KeptKnown /\ Holding
  BY <1>2, <1>3, <1>4 DEF FilesInit, Drawn, SavedOnce, Saves, KeptKnown, Holding
<1>6. WritesFree /\ WritingHalf /\ WritingAlone /\ ReadsStored /\ KeptStored
  BY <1>2, <1>3 DEF WritesFree, WritingHalf, WritingAlone, ReadsStored, KeptStored
<1>7. Whole
  BY <1>2, <1>3, <1>4 DEF FilesInit, Whole, Pure
<1> QED
  BY <1>1, <1>5, <1>6, <1>7 DEF FilesInv

(* An upload draws a key that no call has, and nobody knows, or keeps a name somebody knows. *)
LEMMA UploadInv ==
  ASSUME NEW c \in Slots, NEW name \in Keys, NEW bytes \in Bytes, NEW size, NEW type,
         NEW keepName \in BOOLEAN, NEW overwrite \in BOOLEAN,
         FilesInv, Upload(c, name, bytes, size, type, keepName, overwrite)
  PROVE  FilesInv'
<1>1. PICK key \in KeyFor(name, keepName) :
        /\ calls' = [calls EXCEPT ![c] = [Call("check", key) EXCEPT !.bytes = bytes, !.drew = ~keepName,
                                                                    !.overwrite = overwrite]]
        /\ drawn' = IF keepName THEN drawn ELSE drawn \cup {key}
  BY DEF Upload
<1>2. /\ key \in Keys
      /\ keepName /\ key \in Drawable => key \in known
      /\ ~keepName => key \in Drawable /\ key \notin drawn
  BY StorageConstants DEF Upload, KeyFor, Keys, Nameable, StorageConstants
<1>3. /\ UNCHANGED <<backend, files, known, cached, kept, disturbed>>
      /\ calls[c].pc = "idle"
  BY DEF Upload, At
<1> DEFINE new == [Call("check", key) EXCEPT !.bytes = bytes, !.drew = ~keepName, !.overwrite = overwrite]
<1>4. new \in CallTypes /\ new.pc = "check" /\ new.key = key /\ new.bytes = bytes /\ new.drew = ~keepName
  <2>1. Call("check", key) \in CallTypes /\ Call("check", key).pc = "check" /\ Call("check", key).key = key
    BY <1>2, CallShape
  <2>2. bytes \in Bytes \cup {None, Half} /\ (~keepName) \in BOOLEAN
    OBVIOUS
  <2>3. PICK call \in CallTypes : call = Call("check", key)
    BY <2>1
  <2>4. new = [call EXCEPT !.bytes = bytes, !.drew = ~keepName, !.overwrite = overwrite]
    BY <2>3
  <2> HIDE DEF new
  <2>5. new \in CallTypes /\ new.pc = call.pc /\ new.key = call.key /\ new.bytes = bytes /\ new.drew = ~keepName
    BY <2>2, <2>4 DEF CallTypes
  <2> QED
    BY <2>1, <2>3, <2>5
<1>5. calls' = [calls EXCEPT ![c] = new]
  BY <1>1
<1> HIDE DEF new
<1>6. \A d \in Slots : calls'[d] = IF d = c THEN new ELSE calls[d]
  BY <1>5 DEF FilesInv, Typed
<1>7. drawn \subseteq drawn' /\ (~keepName => key \in drawn')
  BY <1>1
<1>8. key \in Drawable => key \in drawn'
  BY <1>2, <1>7 DEF FilesInv, Drawn
<1>9. Typed'
  <2>1. drawn' \subseteq Drawable
    BY <1>1, <1>2 DEF FilesInv, Typed, FilesTypeOK
  <2>2. FilesTypeOK'
    BY <1>3, <2>1 DEF FilesInv, Typed, FilesTypeOK
  <2> QED
    BY <1>2, <1>4, <1>5, <2>2 DEF FilesInv, Typed
<1>10. Drawn'
  BY <1>3, <1>4, <1>6, <1>7, <1>8 DEF FilesInv, Drawn
<1>11. SavedOnce'
  <2>1. ~keepName => key \notin known /\ \A d \in Slots : calls[d].pc # "idle" => calls[d].key # key
    BY <1>2 DEF FilesInv, Drawn
  <2>2. \A d \in Slots : Saves(d) => calls[d].pc # "idle"
    BY DEF Saves
  <2>3. \A d \in Slots : d # c => (Saves(d)' <=> Saves(d)) /\ calls'[d] = calls[d]
    BY <1>6 DEF Saves
  <2>4. Saves(c)' /\ calls'[c].key = key /\ calls'[c].drew = ~keepName
    BY <1>4, <1>6 DEF Saves
  <2>5. \A d \in Slots : Saves(d) /\ calls[d].drew => calls[d].key # key
    BY <1>2, <2>1, <2>2 DEF FilesInv, SavedOnce
  <2> SUFFICES ASSUME NEW d \in Slots, Saves(d)'
               PROVE  /\ calls'[d].drew => /\ calls'[d].key \in Drawable
                                           /\ calls'[d].key \notin known'
                                           /\ \A e \in Slots : Saves(e)' /\ calls'[e].key = calls'[d].key => e = d
                      /\ ~calls'[d].drew /\ calls'[d].key \in Drawable => calls'[d].key \in known'
    BY DEF SavedOnce
  <2>6. CASE d = c
    <3>1. ~keepName => \A e \in Slots : Saves(e)' /\ calls'[e].key = key => e = c
      BY <2>1, <2>2, <2>3
    <3> QED
      BY <1>2, <1>3, <2>1, <2>4, <2>6, <3>1
  <2>7. CASE d # c
    <3>1. Saves(d) /\ calls'[d] = calls[d]
      BY <2>3, <2>7
    <3>2. calls[d].drew => \A e \in Slots : Saves(e)' /\ calls'[e].key = calls[d].key => e = d
      BY <2>3, <2>4, <2>5, <3>1 DEF FilesInv, SavedOnce
    <3> QED
      BY <1>3, <3>1, <3>2 DEF FilesInv, SavedOnce
  <2> QED
    BY <2>6, <2>7
<1>12. KeptKnown' /\ Holding'
  BY <1>3, <1>4, <1>6 DEF FilesInv, KeptKnown, Holding, Saves
<1>13. WritesFree' /\ WritingHalf' /\ WritingAlone' /\ ReadsStored' /\ KeptStored'
  BY <1>3, <1>4, <1>6 DEF FilesInv, WritesFree, WritingHalf, WritingAlone, ReadsStored, KeptStored
<1>14. Whole'
  BY <1>3, <1>4, <1>6 DEF FilesInv, Whole, Pure
<1> QED
  BY <1>9, <1>10, <1>11, <1>12, <1>13, <1>14 DEF FilesInv

(* The look, the write and its end: a new file appears where nobody reads. *)
LEMMA SaveCheckInv ==
  ASSUME NEW c \in Slots, FilesInv, SaveCheck(c)
  PROVE  FilesInv'
<1> DEFINE new == IF Free(c) THEN [calls[c] EXCEPT !.pc = "write"] ELSE NoCall
<1>1. calls[c].pc = "check" /\ calls[c] \in CallTypes /\ calls[c].key \in Keys
  BY DEF SaveCheck, At, FilesInv, Typed
<1>2. UNCHANGED <<backend, files, drawn, known, cached, kept, disturbed>>
  BY DEF SaveCheck
<1>3. new \in CallTypes /\ new.pc \in {"idle", "write"}
  BY <1>1, NoCallShape DEF CallTypes
<1>4. new.pc = "write" => /\ new.key = calls[c].key
                          /\ new.bytes = calls[c].bytes
                          /\ new.drew = calls[c].drew
                          /\ ~new.overwrite => files[calls[c].key] = None
  <2>1. CASE Free(c)
    BY <1>1, <2>1 DEF CallTypes, Free, Exists
  <2>2. CASE ~Free(c)
    BY <2>2, NoCallShape
  <2> QED
    BY <2>1, <2>2
<1>5. calls' = [calls EXCEPT ![c] = new]
  BY DEF SaveCheck, Go, Done
<1> HIDE DEF new
<1>6. \A d \in Slots : calls'[d] = IF d = c THEN new ELSE calls[d]
  BY <1>5 DEF FilesInv, Typed
<1>7. Typed'
  BY <1>1, <1>2, <1>3, <1>4, <1>5 DEF FilesInv, Typed, FilesTypeOK
<1>8. Drawn' /\ KeptKnown'
  BY <1>1, <1>2, <1>3, <1>4, <1>6 DEF FilesInv, Drawn, KeptKnown
<1>9. SavedOnce'
  BY <1>1, <1>2, <1>3, <1>4, <1>6 DEF FilesInv, SavedOnce, Saves
<1>10. WritesFree' /\ WritingHalf' /\ WritingAlone'
  BY <1>1, <1>2, <1>3, <1>4, <1>6 DEF FilesInv, WritesFree, WritingHalf, WritingAlone
<1>11. ReadsStored' /\ KeptStored'
  BY <1>2, <1>3, <1>6 DEF FilesInv, ReadsStored, KeptStored
<1>12. Holding' /\ Whole'
  BY <1>1, <1>2, <1>3, <1>4, <1>6 DEF FilesInv, Holding, Saves, Whole, Pure
<1> QED
  BY <1>7, <1>8, <1>9, <1>10, <1>11, <1>12 DEF FilesInv

(* What every step shares that puts bytes where a call was saving them: "new" is the call *)
(* afterwards, and a call that is over has answered with its key.                        *)
LEMMA PutInv ==
  ASSUME NEW c \in Slots, FilesInv, calls[c].pc \in {"write", "writing"},
         NEW new \in CallTypes, NEW bytes \in Bytes \cup {Half},
         \/ new.pc = "idle" /\ bytes \in Bytes /\ known' = known \cup {calls[c].key}
         \/ /\ new.pc = "writing" /\ new.key = calls[c].key /\ calls[c].pc = "write" /\ known' = known
            /\ bytes = Half /\ new.bytes = calls[c].bytes /\ new.drew = calls[c].drew /\ backend = "local",
         calls' = [calls EXCEPT ![c] = new], files' = [files EXCEPT ![calls[c].key] = bytes],
         \/ calls[c].pc = "writing" /\ kept' = kept /\ disturbed' = disturbed
         \/ /\ calls[c].pc = "write"
            /\ kept' = IF calls[c].drew THEN kept ELSE kept \cup {calls[c].key}
            /\ disturbed' = IF Disturbs(c) THEN disturbed \cup {calls[c].key} ELSE disturbed,
         UNCHANGED <<backend, drawn, cached>>
  PROVE  FilesInv'
<1> DEFINE key == calls[c].key
<1>1. key \in Keys /\ key \in DOMAIN files /\ Drawable \subseteq Keys
  BY DEF FilesInv, Typed, FilesTypeOK, Keys
<1>2. \A d \in Slots : calls'[d] = IF d = c THEN new ELSE calls[d]
  BY DEF FilesInv, Typed
<1>3. \A k \in Keys : files'[k] = IF k = key THEN bytes ELSE files[k]
  BY DEF FilesInv, Typed, FilesTypeOK
<1>4. /\ disturbed \subseteq disturbed' /\ known \subseteq known' /\ kept \subseteq kept'
      /\ \A k \in Keys : k # key => (k \in known' <=> k \in known) /\ (k \in kept' <=> k \in kept)
                                    /\ (k \in disturbed' <=> k \in disturbed)
  OBVIOUS
<1>5. bytes # None
  BY StorageConstants DEF StorageConstants
<1>6. Saves(c)
  BY DEF Saves
<1>7. \A d \in Slots : d # c /\ calls[d].pc \in {"write", "writing"} /\ calls[d].key = key /\ calls[c].pc = "write"
        => key \in disturbed'
  <2> SUFFICES ASSUME NEW d \in Slots, d # c, calls[d].pc \in {"write", "writing"}, calls[d].key = key,
                      calls[c].pc = "write"
               PROVE  key \in disturbed'
    OBVIOUS
  <2>1. d \in Saving(key)
    BY DEF Saving
  <2>2. Disturbs(c)
    BY <2>1 DEF Disturbs
  <2> QED
    BY <2>2
\* A file that is written is not there yet, or is the half of it, or is disturbed.
<1>8. key \in disturbed' \/ files[key] = None \/ (calls[c].pc = "writing" /\ files[key] = Half)
  <2>1. CASE calls[c].pc = "writing"
    BY <2>1, <1>4 DEF FilesInv, WritingHalf
  <2>2. CASE calls[c].pc = "write" /\ calls[c].overwrite
    BY <2>2 DEF Disturbs, Exists
  <2>3. CASE calls[c].pc = "write" /\ ~calls[c].overwrite
    BY <2>3, <1>4 DEF FilesInv, WritesFree
  <2> QED
    BY <2>1, <2>2, <2>3
\* Under a suffix it is the file's first write, or the key is a name that was kept.
<1>9. calls[c].drew => key \notin known /\ \A d \in Slots : Saves(d) /\ calls[d].key = key => d = c
  BY <1>6 DEF FilesInv, SavedOnce
<1>10. ~calls[c].drew => key \in kept' /\ (key \in Drawable => key \in known)
  BY <1>6 DEF FilesInv, SavedOnce, WritingHalf
<1>11. calls[c].drew => kept' = kept /\ key \in Drawable
  BY <1>6 DEF FilesInv, SavedOnce
<1>12. \A d \in Slots : calls[d].pc # "idle" => calls[d].key \in Keys
  BY DEF FilesInv, Typed
<1>13. key \in Drawable => key \in drawn
  BY DEF FilesInv, Drawn
<1> HIDE DEF key
<1>14. Typed'
  <2>1. files' \in [Keys -> Bytes \cup {None, Half}]
    BY DEF FilesInv, Typed, FilesTypeOK
  <2>2. known' \subseteq Keys /\ kept' \subseteq Keys /\ disturbed' \subseteq Keys
    BY <1>1 DEF FilesInv, Typed, FilesTypeOK, key
  <2>3. FilesTypeOK'
    BY <2>1, <2>2 DEF FilesInv, Typed, FilesTypeOK
  <2> QED
    BY <2>3, <1>1 DEF FilesInv, Typed, key
<1>15. Drawn'
  <2>1. \A k \in Drawable : k \in known' => k \in drawn'
    BY <1>1, <1>4, <1>13 DEF FilesInv, Drawn
  <2>2. \A k \in Drawable : k \in kept' => k \in known'
    BY <1>1, <1>4, <1>10, <1>11 DEF FilesInv, Drawn
  <2>3. \A d \in Slots : calls'[d].pc # "idle" /\ calls'[d].key \in Drawable => calls'[d].key \in drawn'
    BY <1>2, <1>13 DEF FilesInv, Drawn, key
  <2> QED
    BY <2>1, <2>2, <2>3 DEF Drawn
<1>16. SavedOnce'
  <2> SUFFICES ASSUME NEW d \in Slots, Saves(d)'
               PROVE  /\ calls'[d].drew => /\ calls'[d].key \in Drawable
                                           /\ calls'[d].key \notin known'
                                           /\ \A e \in Slots : Saves(e)' /\ calls'[e].key = calls'[d].key => e = d
                      /\ ~calls'[d].drew /\ calls'[d].key \in Drawable => calls'[d].key \in known'
    BY DEF SavedOnce
  <2>1. \A e \in Slots : Saves(e)' => Saves(e) /\ calls'[e].key = calls[e].key /\ calls'[e].drew = calls[e].drew
    BY <1>2, <1>6 DEF Saves
  <2>2. calls[d].drew /\ d # c => calls[d].key # key
    BY <1>6, <2>1 DEF FilesInv, SavedOnce, key
  <2>3. d = c => known' = known
    BY <1>2 DEF Saves
  <2>4. calls[d].drew => calls[d].key \in Drawable /\ calls[d].key \notin known
    BY <2>1 DEF FilesInv, SavedOnce
  <2>5. calls[d].drew => calls[d].key \notin known'
    BY <1>1, <1>4, <2>2, <2>3, <2>4
  <2>6. calls[d].drew => \A e \in Slots : Saves(e)' /\ calls'[e].key = calls'[d].key => e = d
    BY <2>1 DEF FilesInv, SavedOnce
  <2>7. ~calls[d].drew /\ calls[d].key \in Drawable => calls[d].key \in known'
    BY <1>4, <2>1 DEF FilesInv, SavedOnce
  <2> QED
    BY <2>1, <2>4, <2>5, <2>6, <2>7
<1>17. KeptKnown'
  BY <1>2, <1>4, <1>6 DEF FilesInv, KeptKnown, Saves
<1>18. Holding'
  BY <1>2, <1>6 DEF FilesInv, Holding, Saves
<1>19. WritesFree'
  <2> SUFFICES ASSUME NEW d \in Slots, calls'[d].pc = "write", ~calls'[d].overwrite
               PROVE  files'[calls'[d].key] = None \/ calls'[d].key \in disturbed'
    BY DEF WritesFree
  <2>1. d # c /\ calls'[d] = calls[d] /\ calls[d].key \in Keys
    BY <1>2, <1>12
  <2>2. files[calls[d].key] = None \/ calls[d].key \in disturbed
    BY <2>1 DEF FilesInv, WritesFree
  <2>3. CASE calls[d].key # key
    BY <1>3, <1>4, <2>1, <2>2, <2>3
  <2>4. CASE calls[d].key = key /\ calls[c].pc = "write"
    BY <1>7, <2>1, <2>4
  <2>5. CASE calls[d].key = key /\ calls[c].pc = "writing"
    <3>1. files[key] = Half \/ key \in disturbed
      BY <2>5 DEF FilesInv, WritingHalf, key
    <3> QED
      BY <1>4, <2>1, <2>2, <2>5, <3>1, StorageConstants DEF StorageConstants
  <2> QED
    BY <2>3, <2>4, <2>5
<1>20. WritingHalf'
  <2> SUFFICES ASSUME NEW d \in Slots, calls'[d].pc = "writing"
               PROVE  /\ files'[calls'[d].key] = Half \/ calls'[d].key \in disturbed'
                      /\ ~calls'[d].drew => calls'[d].key \in kept'
                      /\ backend' = "local"
    BY DEF WritingHalf
  <2>1. CASE d = c
    BY <1>1, <1>2, <1>3, <1>10, <2>1 DEF key
  <2>2. CASE d # c
    <3>1. calls'[d] = calls[d] /\ calls[d].key \in Keys
      BY <1>2, <1>12, <2>2
    <3>2. /\ files[calls[d].key] = Half \/ calls[d].key \in disturbed
          /\ ~calls[d].drew => calls[d].key \in kept
          /\ backend = "local"
      BY <3>1 DEF FilesInv, WritingHalf
    <3>3. calls[d].key = key => key \in disturbed'
      BY <1>4, <1>7, <2>2, <3>1 DEF FilesInv, WritingAlone, key
    <3> QED
      BY <1>3, <1>4, <3>1, <3>2, <3>3
  <2> QED
    BY <2>1, <2>2
<1>21. WritingAlone'
  <2>1. \A d \in Slots : calls'[d].pc = "writing" => \/ d # c /\ calls'[d] = calls[d]
                                                     \/ d = c /\ calls[c].pc = "write" /\ calls'[d].key = key
    BY <1>2 DEF key
  <2>2. \A d, e \in Slots : calls'[d].pc = "writing" /\ calls'[e].pc = "writing" /\ d # e /\ d # c /\ e # c
                            /\ calls'[d].key = calls'[e].key => calls'[d].key \in disturbed'
    BY <1>4, <2>1 DEF FilesInv, WritingAlone
  <2>3. \A d \in Slots : calls'[d].pc = "writing" /\ d # c /\ calls'[c].pc = "writing" /\ calls'[d].key = key
          => key \in disturbed'
    BY <1>7, <2>1
  <2>4. calls'[c].pc = "writing" => calls'[c].key = key
    BY <2>1
  <2> QED
    BY <2>2, <2>3, <2>4 DEF WritingAlone
<1>22. ReadsStored'
  <2> SUFFICES ASSUME NEW d \in Slots, calls'[d].pc = "read", backend = "memory"
               PROVE  \/ calls'[d].key \in disturbed'
                      \/ calls'[d].bytes # None /\ files'[calls'[d].key] = calls'[d].bytes
    BY DEF ReadsStored
  <2>1. calls'[d] = calls[d] /\ calls[d].key \in Keys
    BY <1>2, <1>12
  <2>2. calls[d].key \in disturbed \/ (calls[d].bytes # None /\ files[calls[d].key] = calls[d].bytes)
    BY <2>1 DEF FilesInv, ReadsStored
  <2>3. calls[c].pc = "writing" => backend = "local"
    BY DEF FilesInv, WritingHalf
  <2> QED
    BY <1>3, <1>4, <1>8, <2>1, <2>2, <2>3
<1>23. KeptStored'
  BY <1>1, <1>3, <1>4, <1>8 DEF FilesInv, KeptStored
<1>24. Whole'
  <2>1. key \in Pure' => calls[c].drew /\ key \notin known
    BY <1>9, <1>10 DEF Pure
  <2>2. Half \notin Bytes
    BY StorageConstants DEF StorageConstants
  <2>3. key \in known' /\ key \notin known => bytes \in Bytes
    OBVIOUS
  <2>4. \A k \in Pure' : k \in Pure /\ k \in Keys
    BY <1>1, <1>4 DEF Pure
  <2>5. \A k \in Pure' : k \in known' => files'[k] # Half
    BY <1>3, <1>4, <2>1, <2>2, <2>3, <2>4 DEF FilesInv, Whole
  <2>6. \A k \in Pure' : cached'[k] # None => k # key
    BY <2>1, <2>4 DEF FilesInv, KeptKnown, Pure
  <2>7. \A k \in Pure' : cached'[k] # None => cached'[k] # Half /\ files'[k] \in {None, cached'[k]}
    BY <1>3, <2>4, <2>6 DEF FilesInv, Whole
  <2>8. \A d \in Slots : calls'[d].pc = "read" => calls'[d] = calls[d] /\ calls[d].key \in Keys
    BY <1>2, <1>12
  <2>9. \A d \in Slots : calls'[d].pc = "read" /\ calls'[d].key \in Pure' => calls[d].key # key
    BY <2>1, <2>4, <2>8 DEF FilesInv, KeptKnown, Pure
  <2>10. \A d \in Slots : calls'[d].pc = "read" /\ backend' = "memory" /\ calls'[d].key \in Pure' =>
           calls'[d].bytes # Half /\ files'[calls'[d].key] \in {None, calls'[d].bytes}
    BY <1>3, <2>4, <2>8, <2>9 DEF FilesInv, Whole
  <2> QED
    BY <2>5, <2>7, <2>10 DEF Whole
<1> QED
  BY <1>14, <1>15, <1>16, <1>17, <1>18, <1>19, <1>20, <1>21, <1>22, <1>23, <1>24 DEF FilesInv

(* What a call without a change leaves: any call that is over, or is refused by the disk. *)
LEMMA DoneInv ==
  ASSUME NEW c \in Slots, FilesInv, Done(c), UNCHANGED <<backend, files, drawn, known, cached, kept, disturbed>>
  PROVE  FilesInv'
<1>1. calls' = [calls EXCEPT ![c] = NoCall] /\ NoCall \in CallTypes /\ NoCall.pc = "idle"
  BY NoCallShape DEF Done
<1>2. \A d \in Slots : calls'[d] = IF d = c THEN NoCall ELSE calls[d]
  BY <1>1 DEF FilesInv, Typed
<1>3. Typed'
  BY <1>1 DEF FilesInv, Typed, FilesTypeOK
<1>4. Drawn' /\ SavedOnce' /\ KeptKnown' /\ Holding'
  BY <1>1, <1>2 DEF FilesInv, Drawn, SavedOnce, Saves, KeptKnown, Holding
<1>5. WritesFree' /\ WritingHalf' /\ WritingAlone' /\ ReadsStored' /\ KeptStored' /\ Whole'
  BY <1>1, <1>2 DEF FilesInv, WritesFree, WritingHalf, WritingAlone, ReadsStored, KeptStored, Whole, Pure
<1> QED
  BY <1>3, <1>4, <1>5 DEF FilesInv

LEMMA SaveWriteInv ==
  ASSUME NEW c \in Slots, FilesInv, SaveWrite(c)
  PROVE  FilesInv'
<1>1. calls[c].pc = "write" /\ calls[c] \in CallTypes /\ UNCHANGED <<backend, drawn, cached>>
  BY DEF SaveWrite, At, FilesInv, Typed
<1>2. CASE Done(c) /\ UNCHANGED <<files, known, kept, disturbed>>
  BY <1>1, <1>2, DoneInv
<1>3. CASE /\ IF backend = "local" THEN Put(calls[c].key, Half) /\ Go(c, "writing") /\ UNCHANGED known
              ELSE Put(calls[c].key, calls[c].bytes) /\ Done(c) /\ known' = known \cup {calls[c].key}
           /\ kept' = IF calls[c].drew THEN kept ELSE kept \cup {calls[c].key}
           /\ disturbed' = IF Disturbs(c) THEN disturbed \cup {calls[c].key} ELSE disturbed
  <2>1. CASE backend = "local"
    <3> DEFINE new == [calls[c] EXCEPT !.pc = "writing"]
    <3>1. /\ new \in CallTypes /\ new.pc = "writing" /\ new.key = calls[c].key
          /\ new.bytes = calls[c].bytes /\ new.drew = calls[c].drew
      BY <1>1 DEF CallTypes
    <3>2. calls' = [calls EXCEPT ![c] = new] /\ files' = [files EXCEPT ![calls[c].key] = Half] /\ known' = known
      BY <1>3, <2>1 DEF Go, Put
    <3> HIDE DEF new
    <3> QED
      BY <1>1, <1>3, <2>1, <3>1, <3>2, PutInv
  <2>2. CASE backend # "local"
    <3>1. /\ calls' = [calls EXCEPT ![c] = NoCall] /\ files' = [files EXCEPT ![calls[c].key] = calls[c].bytes]
          /\ known' = known \cup {calls[c].key}
      BY <1>3, <2>2 DEF Done, Put
    <3>2. calls[c].bytes \in Bytes
      BY <1>1 DEF FilesInv, Holding, Saves
    <3> QED
      BY <1>1, <1>3, <3>1, <3>2, NoCallShape, PutInv
  <2> QED
    BY <2>1, <2>2
<1> QED
  BY <1>2, <1>3 DEF SaveWrite

LEMMA SaveWrittenInv ==
  ASSUME NEW c \in Slots, FilesInv, SaveWritten(c)
  PROVE  FilesInv'
<1>1. calls[c].pc = "writing" /\ UNCHANGED <<backend, drawn, cached, kept, disturbed>>
  BY DEF SaveWritten, At
<1>2. /\ calls' = [calls EXCEPT ![c] = NoCall] /\ files' = [files EXCEPT ![calls[c].key] = calls[c].bytes]
      /\ known' = known \cup {calls[c].key}
  BY DEF SaveWritten, Done, Put
<1>3. calls[c].bytes \in Bytes
  BY <1>1 DEF FilesInv, Holding, Saves
<1> QED
  BY <1>1, <1>2, <1>3, NoCallShape, PutInv

-----------------------------------------------------------------------------
(* What every step shares that removes files: the keys are disturbed, and the calls that *)
(* remain are the ones there were.                                                       *)
LEMMA GoneInv ==
  ASSUME FilesInv, NEW gone \in SUBSET Keys, disturbed' = disturbed \cup gone,
         files' \in [Keys -> Bytes \cup {None, Half}],
         \A k \in Keys : files'[k] = IF k \in gone THEN None ELSE files[k],
         calls' \in [Slots -> CallTypes], \A c \in Slots : calls'[c].pc = "idle" \/ calls'[c] = calls[c],
         UNCHANGED <<backend, drawn, known, cached, kept>>
  PROVE  FilesInv'
<1>1. \A c \in Slots : calls'[c].pc # "idle" => calls'[c] = calls[c] /\ calls[c].key \in Keys
  BY DEF FilesInv, Typed
<1>2. Typed'
  BY <1>1 DEF FilesInv, Typed, FilesTypeOK
<1>3. Drawn' /\ SavedOnce' /\ KeptKnown' /\ Holding'
  BY <1>1 DEF FilesInv, Drawn, SavedOnce, Saves, KeptKnown, Holding
<1>4. WritesFree' /\ WritingHalf' /\ WritingAlone'
  BY <1>1 DEF FilesInv, WritesFree, WritingHalf, WritingAlone
<1>5. ReadsStored' /\ KeptStored'
  BY <1>1 DEF FilesInv, ReadsStored, KeptStored
<1>6. Whole'
  <2>1. Pure \subseteq Keys /\ Pure' = Pure
    BY DEF Pure, Keys
  <2> QED
    BY <1>1, <2>1, StorageConstants DEF StorageConstants, FilesInv, Whole
<1> QED
  BY <1>2, <1>3, <1>4, <1>5, <1>6 DEF FilesInv

LEMMA DeleteInv ==
  ASSUME NEW c \in Slots, NEW key \in Keys, FilesInv, Delete(c, key)
  PROVE  FilesInv'
<1>1. /\ calls[c].pc = "idle" /\ (key \in Drawable => key \in known)
      /\ UNCHANGED <<backend, drawn, known, cached, kept>>
  BY StorageConstants DEF Delete, At, Nameable, StorageConstants
<1>2. CASE backend = "memory"
  <2>1. files' = [files EXCEPT ![key] = None] /\ disturbed' = disturbed \cup {key} /\ calls' = calls
    BY <1>2 DEF Delete, Put
  <2>2. \A k \in Keys : files'[k] = IF k \in {key} THEN None ELSE files[k]
    BY <2>1 DEF FilesInv, Typed, FilesTypeOK
  <2>3. files' \in [Keys -> Bytes \cup {None, Half}] /\ calls' \in [Slots -> CallTypes] /\ {key} \in SUBSET Keys
    BY <2>1 DEF FilesInv, Typed, FilesTypeOK
  <2> QED
    BY <1>1, <2>1, <2>2, <2>3, GoneInv
<1>3. CASE backend # "memory"
  <2> DEFINE new == Call("remove", key)
  <2>1. new \in CallTypes /\ new.pc = "remove" /\ new.key = key
    BY CallShape
  <2>2. calls' = [calls EXCEPT ![c] = new] /\ UNCHANGED <<files, disturbed>>
    BY <1>3 DEF Delete
  <2> HIDE DEF new
  <2>3. \A d \in Slots : calls'[d] = IF d = c THEN new ELSE calls[d]
    BY <2>2 DEF FilesInv, Typed
  <2>4. Typed'
    BY <1>1, <2>1, <2>2 DEF FilesInv, Typed, FilesTypeOK
  <2>5. Drawn' /\ SavedOnce' /\ KeptKnown' /\ Holding'
    <3>1. key \in Drawable => key \in drawn
      BY <1>1 DEF FilesInv, Drawn
    <3> QED
      BY <1>1, <2>1, <2>2, <2>3, <3>1 DEF FilesInv, Drawn, SavedOnce, Saves, KeptKnown, Holding
  <2>6. WritesFree' /\ WritingHalf' /\ WritingAlone' /\ ReadsStored' /\ KeptStored' /\ Whole'
    BY <1>1, <2>1, <2>2, <2>3 DEF FilesInv, WritesFree, WritingHalf, WritingAlone, ReadsStored, KeptStored, Whole, Pure
  <2> QED
    BY <2>4, <2>5, <2>6 DEF FilesInv
<1> QED
  BY <1>2, <1>3

LEMMA RemoveInv ==
  ASSUME NEW c \in Slots, FilesInv, Remove(c)
  PROVE  FilesInv'
<1> DEFINE key == calls[c].key
<1>1. key \in Keys
  BY DEF Remove, At, FilesInv, Typed
<1>2. /\ files' = [files EXCEPT ![key] = None] /\ disturbed' = disturbed \cup {key}
      /\ calls' = [calls EXCEPT ![c] = NoCall] /\ UNCHANGED <<backend, drawn, known, cached, kept>>
  BY DEF Remove, Put, Done
<1> HIDE DEF key
<1>3. \A k \in Keys : files'[k] = IF k \in {key} THEN None ELSE files[k]
  BY <1>2 DEF FilesInv, Typed, FilesTypeOK
<1>4. files' \in [Keys -> Bytes \cup {None, Half}] /\ {key} \in SUBSET Keys
  BY <1>1, <1>2 DEF FilesInv, Typed, FilesTypeOK
<1>5. calls' \in [Slots -> CallTypes] /\ \A d \in Slots : calls'[d].pc = "idle" \/ calls'[d] = calls[d]
  BY <1>2, NoCallShape DEF FilesInv, Typed
<1> QED
  BY <1>2, <1>3, <1>4, <1>5, GoneInv

LEMMA CrashInv ==
  ASSUME FilesInv, Crash
  PROVE  FilesInv'
<1>1. calls' \in [Slots -> CallTypes] /\ \A c \in Slots : calls'[c].pc = "idle"
  BY NoCallShape DEF Crash
<1>2. UNCHANGED <<backend, drawn, known, cached, kept>>
  BY DEF Crash
<1>3. CASE backend = "memory"
  <2> DEFINE gone == {k \in Keys : Exists(k)}
  <2>1. files' = [k \in Keys |-> None] /\ disturbed' = disturbed \cup gone
    BY <1>3 DEF Crash
  <2>2. \A k \in Keys : files'[k] = IF k \in gone THEN None ELSE files[k]
    BY <2>1 DEF Exists
  <2>3. files' \in [Keys -> Bytes \cup {None, Half}] /\ gone \in SUBSET Keys
    BY <2>1
  <2> HIDE DEF gone
  <2> QED
    BY <1>1, <1>2, <2>1, <2>2, <2>3, GoneInv
<1>4. CASE backend # "memory"
  <2>1. files' = files /\ disturbed' = disturbed \cup {}
    BY <1>4 DEF Crash
  <2>2. files' \in [Keys -> Bytes \cup {None, Half}] /\ {} \in SUBSET Keys
    BY <2>1 DEF FilesInv, Typed, FilesTypeOK
  <2>3. \A k \in Keys : files'[k] = IF k \in {} THEN None ELSE files[k]
    BY <2>1
  <2> QED
    BY <1>1, <1>2, <2>1, <2>2, <2>3, GoneInv
<1> QED
  BY <1>3, <1>4

-----------------------------------------------------------------------------
LEMMA ReadInv ==
  ASSUME NEW c \in Slots, NEW key \in Keys, FilesInv, Read(c, key)
  PROVE  FilesInv'
<1> DEFINE new == [Call("read", key) EXCEPT !.bytes = files[key]]
<1>1. /\ calls[c].pc = "idle" /\ (key \in Drawable => key \in known)
      /\ UNCHANGED <<backend, files, drawn, known, cached, kept, disturbed>>
  BY StorageConstants DEF Read, At, Nameable, StorageConstants
<1>2. new \in CallTypes /\ new.pc = "read" /\ new.key = key /\ new.bytes = files[key] /\ files[key] # None
  <2>1. PICK call \in CallTypes : call = Call("read", key) /\ call.pc = "read" /\ call.key = key
    BY CallShape
  <2>2. files[key] \in Bytes \cup {None, Half}
    BY DEF FilesInv, Typed, FilesTypeOK
  <2>3. new = [call EXCEPT !.bytes = files[key]]
    BY <2>1
  <2>4. files[key] # None
    BY DEF Read, Exists
  <2> HIDE DEF new
  <2> QED
    BY <2>1, <2>2, <2>3, <2>4 DEF CallTypes
<1>3. calls' = [calls EXCEPT ![c] = new]
  BY DEF Read
<1> HIDE DEF new
<1>4. \A d \in Slots : calls'[d] = IF d = c THEN new ELSE calls[d]
  BY <1>3 DEF FilesInv, Typed
<1>5. Typed'
  BY <1>1, <1>2, <1>3 DEF FilesInv, Typed, FilesTypeOK
<1>6. Drawn' /\ SavedOnce' /\ KeptKnown' /\ Holding'
  <2>1. key \in Drawable => key \in drawn
    BY <1>1 DEF FilesInv, Drawn
  <2> QED
    BY <1>1, <1>2, <1>4, <2>1 DEF FilesInv, Drawn, SavedOnce, Saves, KeptKnown, Holding
<1>7. WritesFree' /\ WritingHalf' /\ WritingAlone' /\ ReadsStored' /\ KeptStored'
  BY <1>1, <1>2, <1>4 DEF FilesInv, WritesFree, WritingHalf, WritingAlone, ReadsStored, KeptStored
<1>8. Whole'
  <2>1. key \in Pure => files[key] # Half
    BY <1>1 DEF FilesInv, Whole, Pure
  <2> QED
    BY <1>1, <1>2, <1>4, <2>1 DEF FilesInv, Whole, Pure
<1> QED
  BY <1>5, <1>6, <1>7, <1>8 DEF FilesInv

(* A reader keeps what it read, or what was kept before; half a file is a disturbance. *)
LEMMA RespondInv ==
  ASSUME NEW c \in Slots, FilesInv, Respond(c)
  PROVE  FilesInv'
<1> DEFINE key == calls[c].key
           keeps == IF cached[key] = None THEN Seen(c) ELSE cached[key]
<1>1. key \in Keys /\ calls[c].pc = "read" /\ calls[c] \in CallTypes /\ (key \in Drawable => key \in known)
  BY DEF Respond, At, FilesInv, Typed, KeptKnown
<1>2. /\ calls' = [calls EXCEPT ![c] = NoCall] /\ UNCHANGED <<backend, files, drawn, known, kept>>
      /\ cached' = [cached EXCEPT ![key] = keeps]
      /\ disturbed' = IF Seen(c) = Half THEN disturbed \cup {key} ELSE disturbed
  BY DEF Respond, Done
<1>3. keeps \in Bytes \cup {None, Half}
  BY <1>1 DEF Seen, CallTypes, FilesInv, Typed, FilesTypeOK
<1>4. Seen(c) # None => key \in disturbed' \/ (Seen(c) # Half /\ files[key] = Seen(c))
  BY <1>1, <1>2 DEF Seen, FilesInv, ReadsStored
<1>5. keeps # None => key \in disturbed' \/ (keeps # Half /\ files[key] = keeps)
  BY <1>1, <1>2, <1>4 DEF FilesInv, KeptStored
<1>6. key \in Pure /\ Seen(c) # None => Seen(c) # Half /\ files[key] \in {None, Seen(c)}
  BY <1>1 DEF Seen, FilesInv, Whole, Pure
<1>7. key \in Pure /\ keeps # None => keeps # Half /\ files[key] \in {None, keeps}
  BY <1>6 DEF FilesInv, Whole
<1> HIDE DEF key, keeps
<1>8. \A k \in Keys : cached'[k] = IF k = key THEN keeps ELSE cached[k]
  BY <1>1, <1>2 DEF FilesInv, Typed, FilesTypeOK
<1>9. \A d \in Slots : calls'[d] = IF d = c THEN NoCall ELSE calls[d]
  BY <1>2 DEF FilesInv, Typed
<1>10. disturbed \subseteq disturbed' /\ disturbed' \subseteq disturbed \cup {key}
  BY <1>2
<1>11. Drawable \subseteq Keys
  BY DEF Keys
<1>12. Typed'
  <2>1. disturbed' \subseteq Keys
    BY <1>1, <1>10 DEF FilesInv, Typed, FilesTypeOK
  <2> QED
    BY <1>1, <1>2, <1>3, <2>1, NoCallShape DEF FilesInv, Typed, FilesTypeOK
<1>13. Drawn' /\ SavedOnce' /\ Holding'
  BY <1>2, <1>9, NoCallShape DEF FilesInv, Drawn, SavedOnce, Saves, Holding
<1>14. KeptKnown'
  BY <1>1, <1>2, <1>8, <1>9, <1>11, NoCallShape DEF FilesInv, KeptKnown
<1>15. WritesFree' /\ WritingHalf' /\ WritingAlone' /\ ReadsStored'
  BY <1>2, <1>9, <1>10, NoCallShape DEF FilesInv, WritesFree, WritingHalf, WritingAlone, ReadsStored
<1>16. KeptStored'
  BY <1>2, <1>5, <1>8, <1>10 DEF FilesInv, KeptStored
<1>17. Whole'
  <2>1. Pure' = Pure /\ Pure \subseteq Keys
    BY <1>2, <1>11 DEF Pure
  <2> QED
    BY <1>2, <1>7, <1>8, <1>9, <2>1, NoCallShape DEF FilesInv, Whole
<1> QED
  BY <1>12, <1>13, <1>14, <1>15, <1>16, <1>17 DEF FilesInv

-----------------------------------------------------------------------------
LEMMA NextInv == FilesInv /\ [FilesNext]_filesVars => FilesInv'
<1> SUFFICES ASSUME FilesInv, [FilesNext]_filesVars PROVE FilesInv'
  OBVIOUS
<1>1. CASE UNCHANGED filesVars
  BY <1>1 DEF filesVars, FilesInv, Typed, FilesTypeOK, Drawn, SavedOnce, Saves, KeptKnown, Holding,
              WritesFree, WritingHalf, WritingAlone, ReadsStored, KeptStored, Whole, Pure
<1>2. CASE Crash
  BY <1>2, CrashInv
<1>3. ASSUME NEW c \in Slots, NEW name \in Keys, NEW bytes \in Bytes, NEW size \in {0, MaxBytes, MaxBytes + 1},
             NEW type \in {"image/png", "text/html"}, NEW keepName \in BOOLEAN, NEW overwrite \in BOOLEAN,
             Upload(c, name, bytes, size, type, keepName, overwrite)
      PROVE  FilesInv'
  BY <1>3, UploadInv
<1>4. ASSUME NEW c \in Slots, SaveCheck(c) \/ SaveWrite(c) \/ SaveWritten(c) \/ Remove(c) \/ Respond(c)
      PROVE  FilesInv'
  BY <1>4, SaveCheckInv, SaveWriteInv, SaveWrittenInv, RemoveInv, RespondInv
<1>5. ASSUME NEW c \in Slots, NEW key \in Keys, Delete(c, key) \/ Read(c, key)
      PROVE  FilesInv'
  BY <1>5, DeleteInv, ReadInv
<1> QED
  BY <1>1, <1>2, <1>3, <1>4, <1>5 DEF FilesNext

LEMMA AlwaysInv == FilesSpec => []FilesInv
  BY InitInv, NextInv, PTL DEF FilesSpec

(* The files, the keys and what is cached keep their types. *)
THEOREM TypeCorrect == FilesSpec => []FilesTypeOK
<1>1. FilesInv => FilesTypeOK
  BY DEF FilesInv, Typed
<1> QED
  BY <1>1, AlwaysInv, PTL

(* The bytes behind a key with a random suffix never change, and nobody keeps half of them,   *)
(* unless somebody uses the key again as a name to keep; under a kept name that holds while   *)
(* the file is not deleted, overwritten, lost, saved by two at once or read half written.     *)
THEOREM BytesNeverChange == FilesSpec => []BytesStay
<1>1. FilesInv => BytesStay
  <2> SUFFICES ASSUME FilesInv, NEW k \in Keys,
                      cached[k] = Half \/ (cached[k] # None /\ Exists(k) /\ files[k] # cached[k])
               PROVE  k \in disturbed /\ k \notin Drawable \ kept
    BY DEF BytesStay
  <2>1. cached[k] # None
    BY StorageConstants DEF StorageConstants
  <2>2. k \in disturbed
    BY <2>1 DEF FilesInv, KeptStored
  <2>3. k \notin Pure
    BY <2>1 DEF FilesInv, Whole, Exists
  <2> QED
    BY <2>2, <2>3 DEF Pure
<1> QED
  BY <1>1, AlwaysInv, PTL

-----------------------------------------------------------------------------
(* Email *)

(* What the provider has: a message of the batch as prepared, the call that posted it. *)
Letter == [index: Nat, call: Nat, message: Mail \cup {Redirected(m) : m \in Mail}]

MailTyped ==
  /\ MailTypeOK /\ settings \in [redirected: BOOLEAN, from: BOOLEAN, backend: {"memory", "console", "null", "http"}]
  /\ batch \in Seq(Mail) /\ mailbox \in Seq(Letter) /\ posted \in 0..Len(batch)
Ready == [i \in 1..Len(batch) |-> Prepared(batch[i])]
AllPrepare == \A i \in 1..Len(batch) : Prepares(batch[i])
FromTheBatch == \A n \in 1..Len(mailbox) :
  /\ mailbox[n].index \in 1..Len(batch) /\ mailbox[n].call \in 1..callsMade
  /\ mailbox[n].message = Ready[mailbox[n].index]
  /\ AllPrepare
InOrder == \A m, n \in 1..Len(mailbox) :
  mailbox[m].call = mailbox[n].call => mailbox[m].index - mailbox[n].index = m - n
(* What a call has posted is the beginning of the batch. *)
Begins == \A n \in 1..Len(mailbox) :
  \/ mailbox[n].index = 1
  \/ n > 1 /\ mailbox[n - 1].call = mailbox[n].call /\ mailbox[n - 1].index = mailbox[n].index - 1
(* A result is of its own message. *)
ResultsOwn ==
  /\ results \in Seq(SUBSET (People \cup {Somewhere}))
  /\ mailer \in {"sending", "reported"} => Len(results) = posted
  /\ mailer \in {"sending", "reported"} => \A i \in 1..posted : results[i] = Recipients(Ready[i])
(* The call that is posting has what it posted at the end of the mailbox, in order. *)
LastOnes ==
  /\ mailer # "idle" => AllPrepare /\ callsMade >= 1
  /\ mailer = "sending" => \A n \in 1..Len(mailbox) :
       mailbox[n].call = callsMade => mailbox[n].index - posted = n - Len(mailbox)
  /\ mailer # "idle" /\ settings.backend \in {"http", "memory"} =>
       /\ posted <= Len(mailbox)
       /\ \A i \in 1..posted : /\ mailbox[Len(mailbox) - posted + i].call = callsMade
                               /\ mailbox[Len(mailbox) - posted + i].index = i
  /\ mailer = "sending" /\ settings.backend # "http" => posted = 0
  /\ mailer = "reported" => posted = Len(batch)
MailInv == MailTyped /\ FromTheBatch /\ InOrder /\ Begins /\ ResultsOwn /\ LastOnes

LEMMA BothMove ==
  ASSUME NEW x \in Int, NEW p \in Int, NEW k \in Int, NEW l \in Int, NEW n \in Int, x - p = k - l
  PROVE  x - (p + n) = k - (l + n)
  OBVIOUS
LEMMA SameDistance ==
  ASSUME NEW x \in Int, NEW y \in Int, NEW p \in Int, NEW m \in Int, NEW k \in Int, NEW l \in Int,
         x - p = m - l, y - p = k - l
  PROVE  x - y = m - k
  OBVIOUS

(* What prepare makes of a message is a message. *)
LEMMA PreparedType == ASSUME NEW m \in Mail PROVE Prepared(m) \in Mail \cup {Redirected(p) : p \in Mail}
  BY DEF Prepared
LEMMA RecipientsType ==
  ASSUME NEW m \in Mail PROVE Recipients(Prepared(m)) \in SUBSET (People \cup {Somewhere})
<1>1. [m EXCEPT !.to = {Somewhere}, !.cc = {}, !.bcc = {}, !.original = m.to].to = {Somewhere}
  BY DEF Mail
<1>2. /\ [m EXCEPT !.to = {Somewhere}, !.cc = {}, !.bcc = {}, !.original = m.to].cc = {}
      /\ [m EXCEPT !.to = {Somewhere}, !.cc = {}, !.bcc = {}, !.original = m.to].bcc = {}
  BY DEF Mail
<1>3. m.to \subseteq People /\ m.cc \subseteq People /\ m.bcc \subseteq People
  BY DEF Mail
<1> QED
  BY <1>1, <1>2, <1>3 DEF Prepared, Redirected, Recipients

(* Deliver appends the next n messages of the batch, and what was there stays. *)
LEMMA DeliverShape ==
  ASSUME MailInv, NEW n \in Nat, posted + n <= Len(batch), Deliver(n)
  PROVE  /\ mailbox' \in Seq(Letter) /\ Len(mailbox') = Len(mailbox) + n
         /\ \A j \in 1..Len(mailbox) : mailbox'[j] = mailbox[j]
         /\ \A i \in 1..n : mailbox'[Len(mailbox) + i] =
              [index |-> posted + i, call |-> callsMade, message |-> Prepared(batch[posted + i])]
<1> DEFINE new == [i \in 1..n |-> [index |-> posted + i, call |-> callsMade,
                                   message |-> Prepared(batch[posted + i])]]
<1>1. /\ mailbox \in Seq(Letter) /\ batch \in Seq(Mail) /\ Len(batch) \in Nat /\ Len(mailbox) \in Nat
      /\ posted \in 0..Len(batch) /\ callsMade \in Nat
  BY EmailConstants DEF MailInv, MailTyped, MailTypeOK
<1>2. ASSUME NEW i \in 1..n
      PROVE  [index |-> posted + i, call |-> callsMade, message |-> Prepared(batch[posted + i])] \in Letter
  <2>1. posted + i \in 1..Len(batch) /\ posted + i \in Nat
    BY <1>1
  <2>2. batch[posted + i] \in Mail
    BY <1>1, <2>1
  <2>3. Prepared(batch[posted + i]) \in Mail \cup {Redirected(p) : p \in Mail}
    BY <2>2, PreparedType
  <2> QED
    BY <1>1, <2>1, <2>3 DEF Letter
<1>3. new \in Seq(Letter) /\ Len(new) = n
  BY <1>2
<1>4. mailbox' = mailbox \o new
  BY DEF Deliver
<1>5. \A i \in 1..n : new[i] = [index |-> posted + i, call |-> callsMade, message |-> Prepared(batch[posted + i])]
  OBVIOUS
<1> HIDE DEF new
<1>6. mailbox' \in Seq(Letter) /\ Len(mailbox') = Len(mailbox) + n
  BY <1>1, <1>3, <1>4, ConcatProperties
<1>7. \A j \in 1..Len(mailbox) : mailbox'[j] = mailbox[j]
  BY <1>1, <1>3, <1>4
<1>8. ASSUME NEW i \in 1..n PROVE mailbox'[Len(mailbox) + i] = new[i]
  BY <1>1, <1>3, <1>4
<1> QED
  BY <1>5, <1>6, <1>7, <1>8

(* What is delivered is of the batch, and follows what its call has posted before. *)
LEMMA DeliverKeeps ==
  ASSUME MailInv, mailer = "sending", NEW n \in Nat, posted + n <= Len(batch), Deliver(n),
         UNCHANGED <<settings, batch, callsMade>>
  PROVE  /\ mailbox' \in Seq(Letter) /\ FromTheBatch' /\ InOrder' /\ AllPrepare'
         /\ \A k \in 1..Len(mailbox)' : mailbox'[k].call = callsMade =>
              mailbox'[k].index - (posted + n) = k - Len(mailbox')
         /\ settings.backend = "http" \/ posted = 0 =>
              /\ Begins'
              /\ posted + n <= Len(mailbox')
              /\ \A i \in 1..(posted + n) : /\ mailbox'[Len(mailbox') - (posted + n) + i].call = callsMade
                                            /\ mailbox'[Len(mailbox') - (posted + n) + i].index = i
<1>1. /\ batch \in Seq(Mail) /\ Len(batch) \in Nat /\ Len(mailbox) \in Nat
      /\ posted \in 0..Len(batch) /\ callsMade \in Nat
      /\ \A k \in 1..Len(mailbox) : mailbox[k].index \in Nat
  <2>1. /\ batch \in Seq(Mail) /\ mailbox \in Seq(Letter) /\ posted \in 0..Len(batch)
        /\ callsMade \in 0..MaxCalls
    BY DEF MailInv, MailTyped, MailTypeOK
  <2>2. Len(batch) \in Nat /\ Len(mailbox) \in Nat
    BY <2>1
  <2>3. callsMade \in Nat
    BY <2>1
  <2>4. \A k \in 1..Len(mailbox) : mailbox[k].index \in 1..Len(batch)
    BY DEF MailInv, FromTheBatch
  <2> QED
    BY <2>1, <2>2, <2>3, <2>4
<1>2. /\ mailbox' \in Seq(Letter) /\ Len(mailbox') = Len(mailbox) + n
      /\ \A j \in 1..Len(mailbox) : mailbox'[j] = mailbox[j]
      /\ \A i \in 1..n : mailbox'[Len(mailbox) + i] =
           [index |-> posted + i, call |-> callsMade, message |-> Prepared(batch[posted + i])]
  BY DeliverShape
<1>3. AllPrepare' = AllPrepare /\ AllPrepare
  BY DEF MailInv, LastOnes, AllPrepare, Prepares, Sender, WithBody
<1>4. ASSUME NEW k \in 1..(Len(mailbox) + n), k \notin 1..Len(mailbox)
      PROVE  /\ mailbox'[k].index = posted + (k - Len(mailbox)) /\ mailbox'[k].call = callsMade
             /\ mailbox'[k].message = Prepared(batch[posted + (k - Len(mailbox))])
             /\ posted + (k - Len(mailbox)) \in 1..Len(batch)
  <2>1. k - Len(mailbox) \in 1..n /\ k = Len(mailbox) + (k - Len(mailbox))
    BY <1>1, <1>4
  <2>2. mailbox'[k] = [index |-> posted + (k - Len(mailbox)), call |-> callsMade,
                       message |-> Prepared(batch[posted + (k - Len(mailbox))])]
    BY <1>2, <2>1
  <2> QED
    BY <1>1, <2>1, <2>2
<1>5. Ready' = Ready /\ \A i \in 1..Len(batch) : Ready[i] = Prepared(batch[i])
  BY DEF Ready, Prepared, Redirected
<1>6. ASSUME NEW k \in 1..(Len(mailbox) + n)
      PROVE  /\ mailbox'[k].index \in 1..Len(batch) /\ mailbox'[k].call \in 1..callsMade
             /\ mailbox'[k].message = Ready[mailbox'[k].index]
  <2>1. CASE k \in 1..Len(mailbox)
    BY <1>2, <2>1 DEF MailInv, FromTheBatch
  <2>2. CASE k \notin 1..Len(mailbox)
    <3>1. callsMade >= 1
      BY DEF MailInv, LastOnes
    <3>2. /\ mailbox'[k].index \in 1..Len(batch) /\ mailbox'[k].call = callsMade
          /\ mailbox'[k].message = Prepared(batch[mailbox'[k].index])
      BY <1>4, <2>2
    <3> QED
      BY <1>1, <1>5, <3>1, <3>2
  <2> QED
    BY <2>1, <2>2
<1>7. FromTheBatch'
  BY <1>2, <1>3, <1>5, <1>6 DEF FromTheBatch
<1>8. ASSUME NEW k \in 1..(Len(mailbox) + n), mailbox'[k].call = callsMade
      PROVE  mailbox'[k].index - (posted + n) = k - (Len(mailbox) + n)
  <2>1. CASE k \in 1..Len(mailbox)
    <3>1. mailbox[k].index - posted = k - Len(mailbox)
      BY <1>2, <1>8, <2>1 DEF MailInv, LastOnes
    <3>2. mailbox'[k].index = mailbox[k].index /\ mailbox[k].index \in Int /\ k \in Int
      BY <1>1, <1>2, <2>1
    <3>3. posted \in Int /\ Len(mailbox) \in Int /\ n \in Int
      BY <1>1
    <3> QED
      BY <3>1, <3>2, <3>3, BothMove
  <2>2. CASE k \notin 1..Len(mailbox)
    BY <1>1, <1>4, <2>2
  <2> QED
    BY <2>1, <2>2
<1>9. InOrder'
  <2> SUFFICES ASSUME NEW k \in 1..(Len(mailbox) + n), NEW m \in 1..(Len(mailbox) + n),
                      mailbox'[m].call = mailbox'[k].call
               PROVE  mailbox'[m].index - mailbox'[k].index = m - k
    BY <1>2 DEF InOrder
  <2>1. CASE m \in 1..Len(mailbox) /\ k \in 1..Len(mailbox)
    BY <1>2, <2>1 DEF MailInv, InOrder
  <2>2. CASE ~(m \in 1..Len(mailbox) /\ k \in 1..Len(mailbox))
    <3>1. mailbox'[m].call = callsMade /\ mailbox'[k].call = callsMade
      BY <1>4, <2>2
    <3>2. /\ mailbox'[m].index - (posted + n) = m - (Len(mailbox) + n)
          /\ mailbox'[k].index - (posted + n) = k - (Len(mailbox) + n)
      BY <1>8, <3>1
    <3>3. mailbox'[m].index \in Int /\ mailbox'[k].index \in Int
      BY <1>1, <1>6
    <3>4. posted + n \in Int /\ Len(mailbox) + n \in Int /\ m \in Int /\ k \in Int
      BY <1>1
    <3> DEFINE x == mailbox'[m].index
               y == mailbox'[k].index
               p == posted + n
               l == Len(mailbox) + n
    <3>5. x \in Int /\ y \in Int /\ p \in Int /\ l \in Int /\ x - p = m - l /\ y - p = k - l
      BY <3>2, <3>3, <3>4
    <3> HIDE DEF x, y, p, l
    <3>6. x - y = m - k
      BY <3>4, <3>5, SameDistance
    <3> QED
      BY <3>6 DEF x, y
  <2> QED
    BY <2>1, <2>2
<1>10. ASSUME settings.backend = "http" \/ posted = 0, NEW i \in 1..(posted + n)
       PROVE  /\ mailbox'[Len(mailbox') - (posted + n) + i].call = callsMade
              /\ mailbox'[Len(mailbox') - (posted + n) + i].index = i
  <2>1. posted <= Len(mailbox)
    BY <1>1, <1>10 DEF MailInv, LastOnes
  <2>2. Len(mailbox') - (posted + n) + i = Len(mailbox) - posted + i /\ i \in Nat
    BY <1>1, <1>2
  <2>3. CASE i <= posted
    <3>1. i \in 1..posted /\ settings.backend = "http"
      BY <1>1, <1>10, <2>3
    <3>2. /\ mailbox[Len(mailbox) - posted + i].call = callsMade
          /\ mailbox[Len(mailbox) - posted + i].index = i
      BY <3>1 DEF MailInv, LastOnes
    <3>3. Len(mailbox) - posted + i \in 1..Len(mailbox)
      BY <1>1, <2>1, <2>3
    <3> QED
      BY <1>2, <2>2, <3>2, <3>3
  <2>4. CASE i > posted
    <3> DEFINE k == Len(mailbox) - posted + i
    <3>1. k \in 1..(Len(mailbox) + n) /\ k \notin 1..Len(mailbox) /\ posted + (k - Len(mailbox)) = i
      BY <1>1, <2>1, <2>2, <2>4
    <3> HIDE DEF k
    <3>2. mailbox'[k].index = i /\ mailbox'[k].call = callsMade
      BY <1>4, <3>1
    <3> QED
      BY <2>2, <3>2 DEF k
  <2> QED
    BY <1>1, <2>2, <2>3, <2>4
<1>11. settings.backend = "http" \/ posted = 0 => posted + n <= Len(mailbox')
  BY <1>1, <1>2 DEF MailInv, LastOnes
<1>12. ASSUME settings.backend = "http" \/ posted = 0 PROVE Begins'
  <2> SUFFICES ASSUME NEW k \in 1..(Len(mailbox) + n), mailbox'[k].index # 1
               PROVE  /\ k > 1 /\ mailbox'[k - 1].call = mailbox'[k].call
                      /\ mailbox'[k - 1].index = mailbox'[k].index - 1
    BY <1>2 DEF Begins
  <2>1. CASE k \in 1..Len(mailbox)
    <3>1. mailbox'[k] = mailbox[k]
      BY <1>2, <2>1
    <3>2. k > 1 /\ mailbox[k - 1].call = mailbox[k].call /\ mailbox[k - 1].index = mailbox[k].index - 1
      BY <2>1, <3>1 DEF MailInv, Begins
    <3>3. k - 1 \in 1..Len(mailbox)
      BY <1>1, <2>1, <3>2
    <3> QED
      BY <1>2, <3>1, <3>2, <3>3
  <2>2. CASE k \notin 1..Len(mailbox)
    <3>1. mailbox'[k].index = posted + (k - Len(mailbox)) /\ mailbox'[k].call = callsMade
      BY <1>4, <2>2
    <3>2. CASE k - 1 \in 1..(Len(mailbox) + n) /\ k - 1 \notin 1..Len(mailbox)
      <4>1. mailbox'[k - 1].index = posted + ((k - 1) - Len(mailbox)) /\ mailbox'[k - 1].call = callsMade
        BY <1>4, <3>2
      <4>2. k > 1
        BY <1>1, <3>2
      <4> QED
        BY <1>1, <3>1, <4>1, <4>2
    <3>3. CASE ~(k - 1 \in 1..(Len(mailbox) + n) /\ k - 1 \notin 1..Len(mailbox))
      <4>1. k = Len(mailbox) + 1
        BY <1>1, <2>2, <3>3
      <4>2. posted > 0
        BY <1>1, <3>1, <4>1
      <4>3. settings.backend = "http" /\ posted \in 1..posted
        BY <1>1, <1>12, <4>2
      <4>4. posted <= Len(mailbox) /\ Len(mailbox) - posted + posted = Len(mailbox)
        BY <1>1, <4>3 DEF MailInv, LastOnes
      <4>5. mailbox[Len(mailbox)].call = callsMade /\ mailbox[Len(mailbox)].index = posted
        BY <4>3, <4>4 DEF MailInv, LastOnes
      <4>6. Len(mailbox) \in 1..Len(mailbox) /\ k > 1 /\ k - 1 = Len(mailbox)
        BY <1>1, <4>1, <4>2, <4>4
      <4> QED
        BY <1>1, <1>2, <3>1, <4>1, <4>5, <4>6
    <3> QED
      BY <3>2, <3>3
  <2> QED
    BY <2>1, <2>2
<1> QED
  BY <1>2, <1>3, <1>7, <1>8, <1>9, <1>10, <1>11, <1>12 DEF MailInv, LastOnes

LEMMA MailInitInv == MailInit => MailInv
<1> SUFFICES ASSUME MailInit PROVE MailInv
  OBVIOUS
<1>1. batch \in Seq(Mail) /\ Len(batch) \in Nat
  BY EmailConstants DEF MailInit
<1>2. mailbox = <<>> /\ Len(mailbox) = 0 /\ mailer = "idle" /\ posted = 0 /\ callsMade = 0 /\ results = <<>>
  BY DEF MailInit
<1>3. MailTyped
  BY <1>1, <1>2, EmailConstants DEF MailInit, MailTyped, MailTypeOK
<1>4. 1..Len(mailbox) = {} /\ results \in Seq(SUBSET (People \cup {Somewhere}))
  BY <1>2
<1> QED
  BY <1>2, <1>3, <1>4 DEF MailInv, FromTheBatch, InOrder, Begins, ResultsOwn, LastOnes

LEMMA SendManyInv == ASSUME MailInv, SendMany PROVE MailInv'
<1>1. /\ batch \in Seq(Mail) /\ Len(batch) \in Nat /\ Len(mailbox) \in Nat /\ callsMade \in Nat /\ MaxCalls \in Nat
      /\ callsMade <= MaxCalls /\ DOMAIN batch = 1..Len(batch)
  BY EmailConstants DEF MailInv, MailTyped, MailTypeOK
<1>2. /\ callsMade' = callsMade + 1 /\ callsMade < MaxCalls /\ posted' = 0 /\ mailer' \in {"sending", "idle"}
      /\ results' = <<>> /\ UNCHANGED <<settings, batch, mailbox>>
  BY DEF SendMany
<1>3. MailTyped'
  BY <1>1, <1>2 DEF MailInv, MailTyped, MailTypeOK
<1>4. Ready' = Ready /\ (AllPrepare' <=> AllPrepare)
  BY <1>2 DEF Ready, Prepared, Redirected, AllPrepare, Prepares, Sender, WithBody
<1>5. FromTheBatch'
  BY <1>1, <1>2, <1>4 DEF MailInv, FromTheBatch
<1>6. InOrder' /\ Begins'
  BY <1>2 DEF MailInv, InOrder, Begins
<1>7. mailer' = "sending" => AllPrepare
  BY <1>1 DEF SendMany, AllPrepare
<1>8. \A n \in 1..Len(mailbox) : mailbox[n].call # callsMade + 1
  BY <1>1 DEF MailInv, FromTheBatch
<1>9. 1..posted' = {} /\ posted' <= Len(mailbox)
  BY <1>1, <1>2
<1>10. LastOnes'
  BY <1>1, <1>2, <1>4, <1>7, <1>8, <1>9 DEF LastOnes
<1>11. ResultsOwn'
  BY <1>2, <1>9 DEF ResultsOwn
<1> QED
  BY <1>3, <1>5, <1>6, <1>10, <1>11 DEF MailInv

LEMMA TakeAllInv == ASSUME MailInv, TakeAll PROVE MailInv'
<1>1. /\ batch \in Seq(Mail) /\ Len(batch) \in Nat /\ Len(mailbox) \in Nat
      /\ posted \in 0..Len(batch) /\ callsMade \in Nat /\ mailbox \in Seq(Letter)
  BY EmailConstants DEF MailInv, MailTyped, MailTypeOK
<1>2. /\ mailer = "sending" /\ mailer' = "reported" /\ posted' = Len(batch) /\ UNCHANGED <<settings, batch, callsMade>>
      /\ settings.backend # "http" \/ batch = <<>>
  BY DEF TakeAll
<1>3. posted = 0
  BY <1>1, <1>2 DEF MailInv, LastOnes
<1>4. Ready' = Ready /\ (AllPrepare' <=> AllPrepare)
  BY <1>2 DEF Ready, Prepared, Redirected, AllPrepare, Prepares, Sender, WithBody
<1>5. callsMade >= 1 /\ AllPrepare
  BY <1>2 DEF MailInv, LastOnes
<1>8. ResultsOwn'
  <2>1. results' = [i \in 1..Len(batch) |-> Recipients(Prepared(batch[i]))]
    BY <1>1 DEF TakeAll
  <2>2. \A i \in 1..Len(batch) : Recipients(Prepared(batch[i])) \in SUBSET (People \cup {Somewhere})
    BY <1>1, RecipientsType
  <2>3. results' \in Seq(SUBSET (People \cup {Somewhere})) /\ Len(results') = Len(batch)
    BY <1>1, <2>1, <2>2
  <2>4. \A i \in 1..Len(batch) : results'[i] = Recipients(Ready[i])
    BY <2>1 DEF Ready
  <2> QED
    BY <1>2, <1>4, <2>3, <2>4 DEF ResultsOwn
<1>6. CASE settings.backend = "memory"
  <2>1. Deliver(Len(batch))
    BY <1>6 DEF TakeAll
  <2>. posted + Len(batch) <= Len(batch) /\ Len(batch) \in Nat
    BY <1>1, <1>3
  <2>2. /\ mailbox' \in Seq(Letter) /\ FromTheBatch' /\ InOrder' /\ Begins'
        /\ posted + Len(batch) <= Len(mailbox')
        /\ \A i \in 1..(posted + Len(batch)) :
             /\ mailbox'[Len(mailbox') - (posted + Len(batch)) + i].call = callsMade
             /\ mailbox'[Len(mailbox') - (posted + Len(batch)) + i].index = i
    BY <1>2, <1>3, <2>1, DeliverKeeps
  <2>3. posted + Len(batch) = Len(batch)
    BY <1>1, <1>3
  <2>4. MailTyped'
    BY <1>1, <1>2, <2>2 DEF MailInv, MailTyped, MailTypeOK
  <2>5. LastOnes'
    BY <1>1, <1>2, <1>4, <1>5, <2>2, <2>3 DEF LastOnes
  <2> QED
    BY <1>8, <2>2, <2>4, <2>5 DEF MailInv
<1>7. CASE settings.backend # "memory"
  <2>1. UNCHANGED mailbox
    BY <1>7 DEF TakeAll
  <2>2. MailTyped'
    BY <1>1, <1>2, <2>1 DEF MailInv, MailTyped, MailTypeOK
  <2>3. FromTheBatch' /\ InOrder' /\ Begins'
    BY <1>2, <1>4, <2>1 DEF MailInv, FromTheBatch, InOrder, Begins
  <2>4. settings.backend = "http" => 1..posted' = {} /\ posted' <= Len(mailbox)
    BY <1>1, <1>2
  <2>5. LastOnes'
    BY <1>1, <1>2, <1>4, <1>5, <1>7, <2>1, <2>4 DEF LastOnes
  <2> QED
    BY <1>8, <2>2, <2>3, <2>5 DEF MailInv
<1> QED
  BY <1>6, <1>7

LEMMA PostInv == ASSUME MailInv, Post \/ PostFails PROVE MailInv'
<1>1. /\ batch \in Seq(Mail) /\ Len(batch) \in Nat /\ Len(mailbox) \in Nat
      /\ posted \in 0..Len(batch) /\ callsMade \in Nat /\ mailbox \in Seq(Letter)
  BY EmailConstants DEF MailInv, MailTyped, MailTypeOK
<1>2. /\ mailer = "sending" /\ settings.backend = "http" /\ posted < Len(batch)
      /\ UNCHANGED <<settings, batch, callsMade>>
  BY DEF Post, PostFails, Posting
<1>3. Ready' = Ready /\ (AllPrepare' <=> AllPrepare)
  BY <1>2 DEF Ready, Prepared, Redirected, AllPrepare, Prepares, Sender, WithBody
<1>4. callsMade >= 1 /\ AllPrepare
  BY <1>2 DEF MailInv, LastOnes
<1>5. ASSUME Deliver(1)
      PROVE  /\ mailbox' \in Seq(Letter) /\ FromTheBatch' /\ InOrder' /\ Begins'
             /\ \A k \in 1..Len(mailbox)' : mailbox'[k].call = callsMade =>
                  mailbox'[k].index - (posted + 1) = k - Len(mailbox')
             /\ posted + 1 <= Len(mailbox')
             /\ \A i \in 1..(posted + 1) : /\ mailbox'[Len(mailbox') - (posted + 1) + i].call = callsMade
                                           /\ mailbox'[Len(mailbox') - (posted + 1) + i].index = i
  <2>1. posted + 1 <= Len(batch) /\ 1 \in Nat
    BY <1>1, <1>2
  <2> QED
    BY <1>2, <1>5, <2>1, DeliverKeeps
<1>6. CASE Post
  <2>1. /\ Deliver(1) /\ posted' = posted + 1
        /\ mailer' = IF posted + 1 = Len(batch) THEN "reported" ELSE "sending"
    BY <1>6 DEF Post
  <2>2. MailTyped'
    BY <1>1, <1>2, <1>5, <2>1 DEF MailInv, MailTyped, MailTypeOK
  <2>3. LastOnes'
    BY <1>1, <1>2, <1>3, <1>4, <1>5, <2>1 DEF LastOnes
  <2>4. ResultsOwn'
    <3> DEFINE answer == Recipients(Prepared(batch[posted + 1]))
    <3>1. results' = Append(results, answer)
      BY <1>6 DEF Post
    <3>2. posted + 1 \in 1..Len(batch)
      BY <1>1, <1>2
    <3>3. answer \in SUBSET (People \cup {Somewhere}) /\ answer = Recipients(Ready[posted + 1])
      BY <1>1, <3>2, RecipientsType DEF Ready
    <3> HIDE DEF answer
    <3>4. /\ results \in Seq(SUBSET (People \cup {Somewhere})) /\ Len(results) = posted
          /\ \A i \in 1..posted : results[i] = Recipients(Ready[i])
      BY <1>2 DEF MailInv, ResultsOwn
    <3>5. results' \in Seq(SUBSET (People \cup {Somewhere})) /\ Len(results') = posted + 1
      BY <3>1, <3>3, <3>4
    <3>6. \A i \in 1..(posted + 1) : results'[i] = Recipients(Ready[i])
      BY <1>1, <3>1, <3>3, <3>4
    <3> QED
      BY <1>3, <2>1, <3>5, <3>6 DEF ResultsOwn
  <2> QED
    BY <1>5, <2>1, <2>2, <2>3, <2>4 DEF MailInv
<1>7. CASE PostFails
  <2>1. mailer' = "idle" /\ results' = <<>> /\ posted' = posted /\ (mailbox' = mailbox \/ Deliver(1))
    BY <1>7 DEF PostFails
  <2>2. mailbox' \in Seq(Letter) /\ FromTheBatch' /\ InOrder' /\ Begins'
    <3>1. CASE mailbox' = mailbox
      BY <1>1, <1>2, <1>3, <3>1 DEF MailInv, FromTheBatch, InOrder, Begins
    <3> QED
      BY <1>5, <2>1, <3>1
  <2>3. MailTyped'
    BY <1>1, <1>2, <2>1, <2>2 DEF MailInv, MailTyped, MailTypeOK
  <2>4. LastOnes' /\ ResultsOwn'
    BY <2>1 DEF LastOnes, ResultsOwn
  <2> QED
    BY <2>2, <2>3, <2>4 DEF MailInv
<1> QED
  BY <1>6, <1>7

LEMMA MailNextInv == MailInv /\ [MailNext]_mailVars => MailInv'
<1> SUFFICES ASSUME MailInv, [MailNext]_mailVars PROVE MailInv'
  OBVIOUS
<1>1. CASE UNCHANGED mailVars
  <2>1. UNCHANGED <<settings, batch, mailer, posted, callsMade, results, mailbox>>
    BY <1>1 DEF mailVars
  <2>2. Ready' = Ready /\ (AllPrepare' <=> AllPrepare)
    BY <2>1 DEF Ready, Prepared, Redirected, AllPrepare, Prepares, Sender, WithBody
  <2> QED
    BY <2>1, <2>2 DEF MailInv, MailTyped, MailTypeOK, FromTheBatch, InOrder, Begins, ResultsOwn,
                     LastOnes
<1> QED
  BY <1>1, SendManyInv, TakeAllInv, PostInv DEF MailNext

(* A call has a message accepted at one place of the mailbox, if at all. *)
LEMMA OneCopy ==
  ASSUME MailInv, NEW call, NEW i, NEW n \in Copies(call, i)
  PROVE  Copies(call, i) = {n}
<1>1. mailbox \in Seq(Letter) /\ DOMAIN mailbox = 1..Len(mailbox)
  BY DEF MailInv, MailTyped
<1>2. n \in 1..Len(mailbox) /\ mailbox[n].call = call /\ mailbox[n].index = i
  BY <1>1 DEF Copies
<1>3. ASSUME NEW m \in Copies(call, i) PROVE m = n
  <2>1. m \in 1..Len(mailbox) /\ mailbox[m].call = call /\ mailbox[m].index = i
    BY <1>1 DEF Copies
  <2>2. mailbox[m].index - mailbox[n].index = m - n
    BY <1>2, <2>1 DEF MailInv, InOrder
  <2>3. mailbox[m] \in Letter
    BY <1>1, <2>1
  <2>4. mailbox[m].index \in Nat
    BY <2>3 DEF Letter
  <2> QED
    BY <1>2, <2>1, <2>2, <2>4
<1> QED
  BY <1>3

(* With redirectTo nobody else is written to; what a call has had accepted is the beginning  *)
(* of the batch, in order and without doubles, whether it threw or returned; and a call that *)
(* returns has had every message accepted and has a result of each, for any batch, backend   *)
(* and number of attempts (email/index.ts).                                                  *)
THEOREM MailStaysHonest == MailSpec => []MailHonest
<1>1. MailInv => MailHonest
  <2> SUFFICES ASSUME MailInv PROVE MailHonest
    OBVIOUS
  <2>1. /\ mailbox \in Seq(Letter) /\ DOMAIN mailbox = 1..Len(mailbox) /\ Len(mailbox) \in Nat
        /\ batch \in Seq(Mail) /\ DOMAIN batch = 1..Len(batch) /\ Len(batch) \in Nat
    BY DEF MailInv, MailTyped
  <2>2. ASSUME NEW n \in DOMAIN mailbox, settings.redirected
        PROVE  /\ Recipients(mailbox[n].message) = {Somewhere}
               /\ mailbox[n].message.original = batch[mailbox[n].index].to
    <3>1. mailbox[n].index \in 1..Len(batch) /\ mailbox[n].message = Ready[mailbox[n].index]
      BY <2>1 DEF MailInv, FromTheBatch
    <3>2. PICK m \in Mail : m = batch[mailbox[n].index]
      BY <2>1, <3>1
    <3>3. mailbox[n].message = Redirected(m)
      BY <2>2, <3>1, <3>2 DEF Ready, Prepared
    <3>4. [m EXCEPT !.to = {Somewhere}, !.cc = {}, !.bcc = {}, !.original = m.to].original = m.to
      BY DEF Mail
    <3>5. Recipients([m EXCEPT !.to = {Somewhere}, !.cc = {}, !.bcc = {}, !.original = m.to]) = {Somewhere}
      BY DEF Mail, Recipients
    <3> QED
      BY <3>2, <3>3, <3>4, <3>5 DEF Redirected
  <2>3. ASSUME NEW n \in DOMAIN mailbox PROVE \A i \in DOMAIN batch : Prepares(batch[i])
    BY <2>1 DEF MailInv, FromTheBatch, AllPrepare
  <2>4. ASSUME NEW n \in DOMAIN mailbox
        PROVE  \/ mailbox[n].index = 1
               \/ /\ n > 1 /\ mailbox[n - 1].call = mailbox[n].call
                  /\ mailbox[n - 1].index = mailbox[n].index - 1
    BY <2>1 DEF MailInv, Begins
  <2>5. ASSUME NEW call, NEW i PROVE Copies(call, i) \in {{}} \cup {{n} : n \in DOMAIN mailbox}
    <3>1. CASE Copies(call, i) = {}
      BY <3>1
    <3>2. ASSUME NEW n \in Copies(call, i) PROVE n \in DOMAIN mailbox /\ Copies(call, i) = {n}
      BY <3>2, OneCopy DEF Copies
    <3> QED
      BY <3>1, <3>2
  <2>6. ASSUME mailer = "reported"
        PROVE  /\ DOMAIN results = DOMAIN batch
               /\ \A i \in DOMAIN batch : results[i] = Recipients(Ready[i])
    <3>1. posted = Len(batch)
      BY <2>6 DEF MailInv, LastOnes
    <3>2. /\ results \in Seq(SUBSET (People \cup {Somewhere})) /\ Len(results) = posted
          /\ \A i \in 1..posted : results[i] = Recipients(Ready[i])
      BY <2>6 DEF MailInv, ResultsOwn
    <3> QED
      BY <2>1, <3>1, <3>2
  <2>7. ASSUME mailer = "reported", settings.backend \in {"http", "memory"}, NEW i \in DOMAIN batch
        PROVE  \E n \in Copies(callsMade, i) : results[i] = Recipients(mailbox[n].message)
    <3>1. posted = Len(batch) /\ posted <= Len(mailbox) /\ i \in 1..posted
      BY <2>1, <2>7 DEF MailInv, LastOnes
    <3>2. PICK n : n = Len(mailbox) - posted + i
      OBVIOUS
    <3>3. n \in 1..Len(mailbox)
      BY <2>1, <3>1, <3>2
    <3>4. mailbox[n].call = callsMade /\ mailbox[n].index = i
      BY <2>7, <3>1, <3>2 DEF MailInv, LastOnes
    <3>5. n \in Copies(callsMade, i)
      BY <2>1, <3>3, <3>4 DEF Copies
    <3>6. mailbox[n].message = Ready[i]
      BY <3>3, <3>4 DEF MailInv, FromTheBatch
    <3> QED
      BY <2>6, <2>7, <3>5, <3>6
  <2> QED
    BY <2>2, <2>3, <2>4, <2>5, <2>6, <2>7 DEF MailHonest
<1> QED
  BY <1>1, MailInitInv, MailNextInv, PTL DEF MailSpec
-----------------------------------------------------------------------------
(* SignIn *)

Stage == {"idle", "exchange", "keys", "verify", "userinfo", "issue"}
UrlType == [state: Flows, challenge: Flows, provider: Providers \cup {Nobody}, nonce: Flows \cup {Nobody},
            subject: Subjects \cup {Nobody}]
TokenType == [sub: Subjects \cup {Nobody}, nonce: Flows \cup {Nobody}, kid: SigningKeys, exp: Nat]
CallbackType == [pc: Stage, browser: Browsers \cup {Nobody}, url: UrlType \cup {Nobody},
                 flow: Flows \cup {Nobody}, token: TokenType \cup {Nobody},
                 keys: SUBSET SigningKeys, at: Nat]
SessionType == [browser: Browsers, subject: Subjects \cup {Nobody}, flow: Flows, at: Nat]

SignInTyped ==
  /\ clock \in Nat /\ signing \in SigningKeys /\ jwks.keys \subseteq SigningKeys
  /\ begun \in [Flows -> [browser: Browsers \cup {Nobody}, provider: Providers \cup {Nobody}, at: Nat]]
  /\ cookie \in [Browsers -> [flow: Flows \cup {Nobody}, exp: Nat]]
  /\ returns \subseteq UrlType /\ callbacks \in [Served -> CallbackType] /\ sessions \subseteq SessionType

(* A cookie holds a flow that its browser began; a browser is sent back once per flow. *)
CookiesBegun == \A b \in Browsers : cookie[b].flow \in Flows =>
  /\ begun[cookie[b].flow].browser = b
  /\ cookie[b].exp = begun[cookie[b].flow].at + FlowTtl
ReturnsBegun ==
  /\ \A u \in returns : begun[u.state] # NotBegun
  /\ \A u, v \in returns : u.state = v.state => u = v

(* The callbacks past the exchange of their code, *)
Past == {"keys", "verify", "userinfo", "issue"}
(* and what a callback is for: the flow its browser began, in time. *)
CallbacksMatch == \A c \in Served : callbacks[c].pc # "idle" =>
  /\ callbacks[c].url \in returns /\ callbacks[c].flow \in Flows /\ callbacks[c].browser \in Browsers
  /\ callbacks[c].url.state = callbacks[c].flow
  /\ begun[callbacks[c].flow].browser = callbacks[c].browser
  /\ callbacks[c].at <= begun[callbacks[c].flow].at + FlowTtl + Tolerance
PastExchange == \A c \in Served : callbacks[c].pc \in Past =>
  /\ callbacks[c].url \in spent /\ callbacks[c].token.sub = callbacks[c].url.subject
  /\ callbacks[c].token \in TokenType
  /\ \A d \in Served : callbacks[d].pc \in Past /\ callbacks[d].url = callbacks[c].url => d = c
  /\ \A s \in sessions : s.flow # callbacks[c].flow
SessionsMatch ==
  /\ \A s \in sessions :
       /\ begun[s.flow].browser = s.browser
       /\ \E u \in returns \cap spent : u.state = s.flow /\ u.subject = s.subject
       /\ s.at <= begun[s.flow].at + FlowTtl + Tolerance
  /\ \A s, t \in sessions : s.flow = t.flow => s = t
SignInInv == /\ SignInTyped /\ CookiesBegun /\ ReturnsBegun
             /\ CallbacksMatch /\ PastExchange /\ SessionsMatch

LEMMA NoneType ==
  /\ NotBegun \in [browser: Browsers \cup {Nobody}, provider: Providers \cup {Nobody}, at: Nat]
  /\ NoCookie \in [flow: Flows \cup {Nobody}, exp: Nat] /\ NoCookie.flow = Nobody
  /\ NoCallback \in CallbackType /\ NoCallback.pc = "idle"
<1>1. /\ NotBegun \in [browser: Browsers \cup {Nobody}, provider: Providers \cup {Nobody}, at: Nat]
      /\ NoCookie \in [flow: Flows \cup {Nobody}, exp: Nat] /\ NoCookie.flow = Nobody
  BY DEF NotBegun, NoCookie
<1>2. NoCallback.pc = "idle"
  BY DEF NoCallback
<1>3. {} \in SUBSET SigningKeys /\ "idle" \in Stage
  BY DEF Stage
<1>4. NoCallback \in CallbackType
  BY <1>3 DEF NoCallback, CallbackType
<1> QED
  BY <1>1, <1>2, <1>4

LEMMA SignInInitInv == SignInInit => SignInInv
<1> SUFFICES ASSUME SignInInit PROVE SignInInv
  OBVIOUS
<1>1. SignInTyped
  BY NoneType, SignInConstants DEF SignInInit, SignInTyped
<1>2. CookiesBegun
  BY NoneType, SignInConstants DEF SignInInit, CookiesBegun
<1> QED
  BY <1>1, <1>2, NoneType DEF SignInInit, SignInInv, ReturnsBegun, CallbacksMatch, PastExchange, SessionsMatch, Past

(* An answer clears the cookie, so that no cookie holds a flow it did not hold. *)
LEMMA CookiesCleared ==
  ASSUME SignInInv, UNCHANGED begun, cookie' = cookie \/ \E b \in Browsers : cookie' = [cookie EXCEPT ![b] = NoCookie]
  PROVE  CookiesBegun' /\ cookie' \in [Browsers -> [flow: Flows \cup {Nobody}, exp: Nat]]
<1>1. cookie \in [Browsers -> [flow: Flows \cup {Nobody}, exp: Nat]]
  BY DEF SignInInv, SignInTyped
<1>2. ASSUME NEW b \in Browsers PROVE cookie'[b] = cookie[b] \/ cookie'[b] = NoCookie
  BY <1>1
<1>3. cookie' \in [Browsers -> [flow: Flows \cup {Nobody}, exp: Nat]]
  BY <1>1, NoneType
<1>4. ASSUME NEW b \in Browsers, cookie'[b].flow \in Flows
      PROVE  /\ begun[cookie'[b].flow].browser = b
             /\ cookie'[b].exp = begun[cookie'[b].flow].at + FlowTtl
  BY <1>2, <1>4, NoneType, SignInConstants DEF SignInInv, CookiesBegun
<1> QED
  BY <1>3, <1>4 DEF CookiesBegun

(* A callback ends, or goes on for the flow it was opened for. *)
LEMMA CallbackMoves ==
  ASSUME SignInInv, NEW c \in Served, NEW next \in CallbackType,
         UNCHANGED <<begun, returns, spent, sessions>>,
         callbacks' = [callbacks EXCEPT ![c] = next],
         \/ next.pc = "idle"
         \/ /\ callbacks[c].pc # "idle" /\ next.browser = callbacks[c].browser /\ next.url = callbacks[c].url
            /\ next.flow = callbacks[c].flow /\ next.at = callbacks[c].at
            /\ callbacks[c].pc \in Past /\ next.token = callbacks[c].token
  PROVE  /\ callbacks' \in [Served -> CallbackType]
         /\ ReturnsBegun' /\ CallbacksMatch' /\ PastExchange' /\ SessionsMatch'
<1>1. callbacks \in [Served -> CallbackType]
  BY DEF SignInInv, SignInTyped
<1>2. callbacks' \in [Served -> CallbackType]
  BY <1>1
<1>3. callbacks'[c] = next /\ \A d \in Served \ {c} : callbacks'[d] = callbacks[d]
  BY <1>1
<1>4. ReturnsBegun' /\ SessionsMatch'
  BY DEF SignInInv, ReturnsBegun, SessionsMatch
<1>5. ASSUME NEW d \in Served, callbacks'[d].pc # "idle"
      PROVE  /\ callbacks[d].pc # "idle" /\ callbacks'[d].browser = callbacks[d].browser
             /\ callbacks'[d].url = callbacks[d].url /\ callbacks'[d].flow = callbacks[d].flow
             /\ callbacks'[d].at = callbacks[d].at
             /\ callbacks'[d].pc \in Past => callbacks[d].pc \in Past /\ callbacks'[d].token = callbacks[d].token
  BY <1>3, <1>5
<1>6. CallbacksMatch'
  BY <1>5 DEF SignInInv, CallbacksMatch
<1>7. \A d \in Served : callbacks'[d].pc \in Past => callbacks'[d].pc # "idle"
  BY DEF Past
<1>8. PastExchange'
  BY <1>5, <1>7 DEF SignInInv, PastExchange
<1> QED
  BY <1>2, <1>4, <1>6, <1>8

LEMMA BeginInv ==
  ASSUME SignInInv, NEW b \in Browsers, NEW p \in Providers, NEW f \in Flows, Begin(b, p, f)
  PROVE  SignInInv'
<1> DEFINE new == [browser |-> b, provider |-> p, at |-> clock]
<1>1. /\ begun' = [begun EXCEPT ![f] = new] /\ cookie' = [cookie EXCEPT ![b] = [flow |-> f, exp |-> clock + FlowTtl]]
      /\ begun[f] = NotBegun /\ UNCHANGED <<clock, returns, spent, signing, jwks, callbacks, sessions>>
  BY DEF Begin, remote, Sealed
<1>2. new \in [browser: Browsers \cup {Nobody}, provider: Providers \cup {Nobody}, at: Nat]
  BY DEF SignInInv, SignInTyped
<1>3. new.browser = b /\ new.at = clock /\ new # NotBegun
  <2>1. new.browser = b /\ NotBegun.browser = Nobody
    BY DEF NotBegun
  <2> QED
    BY <2>1, SignInConstants
<1> HIDE DEF new
<1>4. clock \in Nat /\ clock + FlowTtl \in Nat
  BY SignInConstants DEF SignInInv, SignInTyped
<1>5. begun'[f] = new /\ \A g \in Flows \ {f} : begun'[g] = begun[g]
  BY <1>1 DEF SignInInv, SignInTyped
<1>6. SignInTyped'
  <2>1. begun' \in [Flows -> [browser: Browsers \cup {Nobody}, provider: Providers \cup {Nobody}, at: Nat]]
    BY <1>1, <1>2 DEF SignInInv, SignInTyped
  <2>2. [flow |-> f, exp |-> clock + FlowTtl] \in [flow: Flows \cup {Nobody}, exp: Nat]
    BY <1>4
  <2>3. cookie' \in [Browsers -> [flow: Flows \cup {Nobody}, exp: Nat]]
    BY <1>1, <2>2 DEF SignInInv, SignInTyped
  <2> QED
    BY <1>1, <2>1, <2>3 DEF SignInInv, SignInTyped
<1>7. \A u \in returns : u.state \in Flows /\ begun'[u.state] = begun[u.state] /\ u.state # f
  <2> SUFFICES ASSUME NEW u \in returns PROVE u.state \in Flows /\ begun'[u.state] = begun[u.state] /\ u.state # f
    OBVIOUS
  <2>1. u.state \in Flows /\ begun[u.state] # NotBegun
    BY DEF SignInInv, SignInTyped, ReturnsBegun, UrlType
  <2> QED
    BY <1>1, <1>5, <2>1
<1>8. CookiesBegun'
  <2> SUFFICES ASSUME NEW e \in Browsers, cookie'[e].flow \in Flows
               PROVE  /\ begun'[cookie'[e].flow].browser = e
                      /\ cookie'[e].exp = begun'[cookie'[e].flow].at + FlowTtl
    BY DEF CookiesBegun
  <2>1. CASE e = b
    <3>1. cookie'[e] = [flow |-> f, exp |-> clock + FlowTtl]
      BY <1>1, <2>1 DEF SignInInv, SignInTyped
    <3> QED
      BY <1>3, <1>5, <2>1, <3>1
  <2>2. CASE e # b
    <3>1. cookie'[e] = cookie[e]
      BY <1>1, <2>2 DEF SignInInv, SignInTyped
    <3>2. /\ begun[cookie[e].flow].browser = e
          /\ cookie[e].exp = begun[cookie[e].flow].at + FlowTtl
      BY <3>1 DEF SignInInv, CookiesBegun
    <3>3. cookie[e].flow # f
      BY <1>1, <3>2, SignInConstants DEF NotBegun
    <3> QED
      BY <1>5, <3>1, <3>2, <3>3
  <2> QED
    BY <2>1, <2>2
<1>9. ReturnsBegun'
  BY <1>1, <1>7 DEF SignInInv, ReturnsBegun
<1>10. CallbacksMatch'
  BY <1>1, <1>7 DEF SignInInv, CallbacksMatch
<1>11. PastExchange'
  BY <1>1 DEF SignInInv, PastExchange
<1>12. SessionsMatch'
  <2>1. \A s \in sessions : begun'[s.flow] = begun[s.flow]
    BY <1>7 DEF SignInInv, SessionsMatch
  <2> QED
    BY <1>1, <2>1 DEF SignInInv, SessionsMatch
<1> QED
  BY <1>6, <1>8, <1>9, <1>10, <1>11, <1>12 DEF SignInInv

LEMMA SendBackInv ==
  ASSUME SignInInv, NEW f \in Flows, NEW subject \in Subjects \cup {Nobody}, SendBack(f, subject)
  PROVE  SignInInv'
<1>1. /\ begun[f] # NotBegun /\ \A u \in returns : u.state # f
      /\ returns' = returns \cup {Url(f, subject)}
      /\ UNCHANGED <<clock, begun, cookie, spent, signing, jwks, callbacks, sessions>>
  BY DEF SendBack
<1>2. Url(f, subject) \in UrlType /\ Url(f, subject).state = f
  <2>1. begun[f].provider \in Providers \cup {Nobody}
    BY DEF SignInInv, SignInTyped
  <2> QED
    BY <2>1 DEF Url, UrlType
<1>3. SignInTyped'
  BY <1>1, <1>2 DEF SignInInv, SignInTyped
<1>4. ReturnsBegun'
  BY <1>1, <1>2 DEF SignInInv, ReturnsBegun
<1>5. CookiesBegun' /\ CallbacksMatch' /\ PastExchange'
  BY <1>1 DEF SignInInv, CookiesBegun, CallbacksMatch, PastExchange
<1>6. SessionsMatch'
  BY <1>1 DEF SignInInv, SessionsMatch
<1> QED
  BY <1>3, <1>4, <1>5, <1>6 DEF SignInInv

LEMMA CallbackInv ==
  ASSUME SignInInv, NEW c \in Served, NEW b \in Browsers, NEW url \in returns, Callback(c, b, url)
  PROVE  SignInInv'
<1>1. callbacks[c].pc = "idle" /\ UNCHANGED <<clock, begun, returns, spent, signing, jwks, sessions>>
  BY DEF Callback, CallbackAt, remote
<1>2. CASE Answer(c, b)
  <2>1. callbacks' = [callbacks EXCEPT ![c] = NoCallback] /\ cookie' = [cookie EXCEPT ![b] = NoCookie]
    BY <1>2 DEF Answer
  <2>2. CookiesBegun' /\ cookie' \in [Browsers -> [flow: Flows \cup {Nobody}, exp: Nat]]
    BY <1>1, <2>1, CookiesCleared
  <2>3. /\ callbacks' \in [Served -> CallbackType]
        /\ ReturnsBegun' /\ CallbacksMatch' /\ PastExchange' /\ SessionsMatch'
    BY <1>1, <2>1, NoneType, CallbackMoves
  <2> QED
    BY <1>1, <2>2, <2>3 DEF SignInInv, SignInTyped
<1>3. CASE ~Answer(c, b)
  <2> DEFINE new == [NoCallback EXCEPT !.pc = "exchange", !.browser = b, !.url = url, !.flow = cookie[b].flow, !.at = clock]
  <2>1. /\ callbacks' = [callbacks EXCEPT ![c] = new] /\ UNCHANGED cookie
        /\ Opens(cookie[b]) /\ url.state = cookie[b].flow
    BY <1>3 DEF Callback, StateMatches
  <2>2. url \in UrlType /\ cookie[b].flow \in Flows /\ clock \in Nat /\ cookie[b].exp \in Nat
    BY <2>1 DEF SignInInv, SignInTyped, UrlType
  <2>3. NoCallback \in CallbackType
    BY NoneType
  <2>4. /\ new \in CallbackType /\ new.pc = "exchange" /\ new.browser = b /\ new.url = url
        /\ new.flow = cookie[b].flow /\ new.at = clock
    BY <2>2, <2>3 DEF CallbackType, Stage
  <2> HIDE DEF new
  <2>5. callbacks' \in [Served -> CallbackType] /\ callbacks'[c] = new /\ \A d \in Served \ {c} : callbacks'[d] = callbacks[d]
    BY <2>1, <2>4 DEF SignInInv, SignInTyped
  <2>6. SignInTyped'
    BY <1>1, <2>1, <2>5 DEF SignInInv, SignInTyped
  <2>7. CookiesBegun' /\ ReturnsBegun' /\ SessionsMatch'
    BY <1>1, <2>1 DEF SignInInv, CookiesBegun, ReturnsBegun, SessionsMatch
  <2>8. begun[cookie[b].flow].browser = b /\ clock <= begun[cookie[b].flow].at + FlowTtl + Tolerance
    <3>1. begun[cookie[b].flow].browser = b /\ cookie[b].exp = begun[cookie[b].flow].at + FlowTtl
      BY <2>2 DEF SignInInv, CookiesBegun
    <3>2. ~(clock > cookie[b].exp + Tolerance)
      BY <2>1 DEF Opens, Expired
    <3> QED
      BY <2>2, <3>1, <3>2, SignInConstants
  <2>9. CallbacksMatch'
    <3> SUFFICES ASSUME NEW d \in Served, callbacks'[d].pc # "idle"
                 PROVE  /\ callbacks'[d].url \in returns /\ callbacks'[d].flow \in Flows /\ callbacks'[d].browser \in Browsers
                        /\ callbacks'[d].url.state = callbacks'[d].flow
                        /\ begun[callbacks'[d].flow].browser = callbacks'[d].browser
                        /\ callbacks'[d].at <= begun[callbacks'[d].flow].at + FlowTtl + Tolerance
      BY <1>1 DEF CallbacksMatch
    <3>1. CASE d = c
      BY <2>1, <2>2, <2>4, <2>5, <2>8, <3>1
    <3>2. CASE d # c
      BY <2>5, <3>2 DEF SignInInv, CallbacksMatch
    <3> QED
      BY <3>1, <3>2
  <2>10. PastExchange'
    <3>1. \A d \in Served : callbacks'[d].pc \in Past => callbacks'[d] = callbacks[d]
      BY <2>4, <2>5 DEF Past
    <3> QED
      BY <1>1, <3>1 DEF SignInInv, PastExchange
  <2> QED
    BY <2>6, <2>7, <2>9, <2>10 DEF SignInInv
<1> QED
  BY <1>2, <1>3

(* A callback that fails is answered. *)
LEMMA FailInv ==
  ASSUME SignInInv, NEW c \in Served, callbacks[c].pc # "idle", Fail(c),
         UNCHANGED <<clock, begun, returns, spent, signing, sessions>>, jwks'.keys \subseteq SigningKeys
  PROVE  SignInInv'
<1>1. callbacks[c].browser \in Browsers
  BY DEF SignInInv, CallbacksMatch
<1>2. callbacks' = [callbacks EXCEPT ![c] = NoCallback] /\ cookie' = [cookie EXCEPT ![callbacks[c].browser] = NoCookie]
  BY DEF Fail, Answer
<1>3. CookiesBegun' /\ cookie' \in [Browsers -> [flow: Flows \cup {Nobody}, exp: Nat]]
  BY <1>1, <1>2, CookiesCleared
<1>4. /\ callbacks' \in [Served -> CallbackType]
      /\ ReturnsBegun' /\ CallbacksMatch' /\ PastExchange' /\ SessionsMatch'
  BY <1>2, NoneType, CallbackMoves
<1> QED
  BY <1>3, <1>4 DEF SignInInv, SignInTyped

LEMMA GoesOnInv ==
  ASSUME SignInInv, NEW c \in Served, NEW pc \in Stage, NEW keys \in SUBSET SigningKeys, callbacks[c].pc \in Past,
         callbacks' = [callbacks EXCEPT ![c] = [callbacks[c] EXCEPT !.pc = pc, !.keys = keys]],
         UNCHANGED <<clock, begun, cookie, returns, spent, signing, sessions>>, jwks'.keys \subseteq SigningKeys
  PROVE  SignInInv'
<1> DEFINE next == [callbacks[c] EXCEPT !.pc = pc, !.keys = keys]
<1>1. callbacks[c] \in CallbackType
  BY DEF SignInInv, SignInTyped
<1>2. /\ next \in CallbackType /\ next.browser = callbacks[c].browser /\ next.url = callbacks[c].url
      /\ next.flow = callbacks[c].flow /\ next.at = callbacks[c].at /\ next.token = callbacks[c].token
  BY <1>1 DEF CallbackType
<1>3. callbacks' = [callbacks EXCEPT ![c] = next]
  OBVIOUS
<1> HIDE DEF next
<1>4. callbacks[c].pc # "idle"
  BY DEF Past
<1>5. /\ callbacks' \in [Served -> CallbackType]
      /\ ReturnsBegun' /\ CallbacksMatch' /\ PastExchange' /\ SessionsMatch'
  BY <1>2, <1>3, <1>4, CallbackMoves
<1>6. CookiesBegun'
  BY DEF SignInInv, CookiesBegun
<1> QED
  BY <1>5, <1>6 DEF SignInInv, SignInTyped

LEMMA ExchangeInv == ASSUME SignInInv, NEW c \in Served, Exchange(c) PROVE SignInInv'
<1>1. callbacks[c].pc = "exchange" /\ UNCHANGED <<clock, begun, returns, signing, jwks, sessions>>
  BY DEF Exchange, CallbackAt
<1>2. CASE Fail(c) /\ UNCHANGED spent
  <2>1. jwks'.keys \subseteq SigningKeys
    BY <1>1 DEF SignInInv, SignInTyped
  <2> QED
    BY <1>1, <1>2, <2>1, FailInv
<1>3. CASE ~(Fail(c) /\ UNCHANGED spent)
  <2> DEFINE token == IdToken(callbacks[c].url)
  <2>1. /\ callbacks[c].url \notin spent /\ spent' = spent \cup {callbacks[c].url} /\ UNCHANGED cookie
        /\ \E pc \in ProfileFrom(callbacks[c].url) :
             callbacks' = [callbacks EXCEPT ![c].pc = pc, ![c].token = token]
    BY <1>3 DEF Exchange, Exchanges
  <2>15. PICK pc \in ProfileFrom(callbacks[c].url) :
           callbacks' = [callbacks EXCEPT ![c].pc = pc, ![c].token = token]
    BY <2>1
  <2> DEFINE next == [callbacks[c] EXCEPT !.pc = pc, !.token = token]
  <2>2. callbacks[c] \in CallbackType /\ callbacks[c].url \in returns /\ callbacks[c].url \in UrlType
    BY <1>1 DEF SignInInv, SignInTyped, CallbacksMatch
  <2>3. token \in TokenType /\ token.sub = callbacks[c].url.subject
    <3>1. clock + TokenTtl \in Nat /\ signing \in SigningKeys
      BY SignInConstants DEF SignInInv, SignInTyped
    <3> QED
      BY <2>2, <3>1 DEF IdToken, TokenType, UrlType
  <2>4. pc \in {"keys", "userinfo"}
    BY DEF ProfileFrom
  <2> HIDE DEF token
  <2>5. callbacks' = [callbacks EXCEPT ![c] = next]
    BY <2>2, <2>15 DEF SignInInv, SignInTyped, CallbackType
  <2>6. /\ next \in CallbackType /\ next.pc \in {"keys", "userinfo"} /\ next.token = token
        /\ next.browser = callbacks[c].browser /\ next.url = callbacks[c].url
        /\ next.flow = callbacks[c].flow /\ next.at = callbacks[c].at
    BY <2>2, <2>3, <2>4 DEF CallbackType, Stage
  <2> HIDE DEF next
  <2>7. callbacks' \in [Served -> CallbackType] /\ callbacks'[c] = next /\ \A d \in Served \ {c} : callbacks'[d] = callbacks[d]
    BY <2>5, <2>6 DEF SignInInv, SignInTyped
  <2>8. SignInTyped'
    BY <1>1, <2>1, <2>7 DEF SignInInv, SignInTyped
  <2>9. CookiesBegun' /\ ReturnsBegun'
    BY <1>1, <2>1 DEF SignInInv, CookiesBegun, ReturnsBegun
  <2>10. SessionsMatch'
    BY <1>1, <2>1 DEF SignInInv, SessionsMatch
  <2>11. CallbacksMatch'
    BY <1>1, <2>6, <2>7 DEF SignInInv, CallbacksMatch
  <2>12. \A s \in sessions : s.flow # callbacks[c].flow
    <3> SUFFICES ASSUME NEW s \in sessions, s.flow = callbacks[c].flow PROVE FALSE
      OBVIOUS
    <3>1. PICK u \in returns \cap spent : u.state = s.flow
      BY DEF SignInInv, SessionsMatch
    <3>2. callbacks[c].url.state = callbacks[c].flow
      BY <1>1 DEF SignInInv, CallbacksMatch
    <3>3. u = callbacks[c].url
      BY <2>2, <3>1, <3>2 DEF SignInInv, ReturnsBegun
    <3> QED
      BY <2>1, <3>1, <3>3
  <2>13. \A d \in Served \ {c} : callbacks[d].pc \in Past => callbacks[d].url # callbacks[c].url
    BY <2>1 DEF SignInInv, PastExchange
  <2>14. PastExchange'
    <3> SUFFICES ASSUME NEW d \in Served, callbacks'[d].pc \in Past
                 PROVE  /\ callbacks'[d].url \in spent' /\ callbacks'[d].token.sub = callbacks'[d].url.subject
                        /\ callbacks'[d].token \in TokenType
                        /\ \A e \in Served : callbacks'[e].pc \in Past /\ callbacks'[e].url = callbacks'[d].url => e = d
                        /\ \A s \in sessions : s.flow # callbacks'[d].flow
      BY <1>1 DEF PastExchange
    <3>1. CASE d = c
      BY <2>1, <2>3, <2>6, <2>7, <2>12, <2>13, <3>1
    <3>2. CASE d # c
      BY <2>1, <2>6, <2>7, <2>13, <3>2 DEF SignInInv, PastExchange
    <3> QED
      BY <3>1, <3>2
  <2> QED
    BY <2>8, <2>9, <2>10, <2>11, <2>14 DEF SignInInv
<1> QED
  BY <1>2, <1>3

LEMMA IssueInv == ASSUME SignInInv, NEW c \in Served, Issue(c) PROVE SignInInv'
<1>1. /\ callbacks[c].pc = "issue" /\ UNCHANGED <<clock, begun, returns, spent, signing, jwks>>
      /\ Answer(c, callbacks[c].browser)
  BY DEF Issue, CallbackAt, remote
<1>2. CASE UNCHANGED sessions
  <2>1. callbacks[c].pc # "idle" /\ jwks'.keys \subseteq SigningKeys /\ Fail(c)
    BY <1>1 DEF SignInInv, SignInTyped, Fail
  <2> QED
    BY <1>1, <1>2, <2>1, FailInv
<1>3. CASE ~UNCHANGED sessions
  <2> DEFINE new == [browser |-> callbacks[c].browser, subject |-> callbacks[c].token.sub,
                     flow |-> callbacks[c].flow, at |-> callbacks[c].at]
  <2>1. sessions' = sessions \cup {new}
    BY <1>3 DEF Issue
  <2>2. callbacks[c].pc \in Past /\ callbacks[c] \in CallbackType
    BY <1>1 DEF Past, SignInInv, SignInTyped
  <2>3. /\ callbacks[c].url \in returns /\ callbacks[c].flow \in Flows /\ callbacks[c].browser \in Browsers
        /\ callbacks[c].url.state = callbacks[c].flow
        /\ begun[callbacks[c].flow].browser = callbacks[c].browser
        /\ callbacks[c].at <= begun[callbacks[c].flow].at + FlowTtl + Tolerance
    BY <1>1 DEF SignInInv, CallbacksMatch
  <2>4. /\ callbacks[c].url \in spent /\ callbacks[c].token.sub = callbacks[c].url.subject
        /\ callbacks[c].token \in TokenType
        /\ \A d \in Served : callbacks[d].pc \in Past /\ callbacks[d].url = callbacks[c].url => d = c
        /\ \A s \in sessions : s.flow # callbacks[c].flow
    BY <2>2 DEF SignInInv, PastExchange
  <2>5. new \in SessionType
    BY <2>2, <2>3, <2>4 DEF SessionType, CallbackType, TokenType
  <2>6. /\ new.browser = callbacks[c].browser /\ new.subject = callbacks[c].token.sub
        /\ new.flow = callbacks[c].flow /\ new.at = callbacks[c].at
    OBVIOUS
  <2> HIDE DEF new
  <2>7. callbacks' = [callbacks EXCEPT ![c] = NoCallback] /\ cookie' = [cookie EXCEPT ![callbacks[c].browser] = NoCookie]
    BY <1>1 DEF Answer
  <2>8. CookiesBegun' /\ cookie' \in [Browsers -> [flow: Flows \cup {Nobody}, exp: Nat]]
    BY <1>1, <2>3, <2>7, CookiesCleared
  <2>9. /\ callbacks' \in [Served -> CallbackType] /\ callbacks'[c] = NoCallback
        /\ \A d \in Served \ {c} : callbacks'[d] = callbacks[d]
    BY <2>7, NoneType DEF SignInInv, SignInTyped
  <2>10. SignInTyped'
    BY <1>1, <2>1, <2>5, <2>8, <2>9 DEF SignInInv, SignInTyped
  <2>11. ReturnsBegun'
    BY <1>1 DEF SignInInv, ReturnsBegun
  <2>12. CallbacksMatch'
    BY <1>1, <2>9, NoneType DEF SignInInv, CallbacksMatch
  <2>13. SessionsMatch'
    BY <1>1, <2>1, <2>3, <2>4, <2>6 DEF SignInInv, SessionsMatch
  <2>14. PastExchange'
    <3> SUFFICES ASSUME NEW d \in Served, callbacks'[d].pc \in Past
                 PROVE  /\ callbacks'[d].url \in spent /\ callbacks'[d].token.sub = callbacks'[d].url.subject
                        /\ callbacks'[d].token \in TokenType
                        /\ \A e \in Served : callbacks'[e].pc \in Past /\ callbacks'[e].url = callbacks'[d].url => e = d
                        /\ \A s \in sessions' : s.flow # callbacks'[d].flow
      BY <1>1 DEF PastExchange
    <3>1. d # c /\ callbacks'[d] = callbacks[d] /\ callbacks[d].pc \in Past
      BY <2>9, NoneType DEF Past
    <3>2. /\ callbacks[d].url \in spent /\ callbacks[d].token.sub = callbacks[d].url.subject
          /\ callbacks[d].token \in TokenType
          /\ \A e \in Served : callbacks[e].pc \in Past /\ callbacks[e].url = callbacks[d].url => e = d
          /\ \A s \in sessions : s.flow # callbacks[d].flow
      BY <3>1 DEF SignInInv, PastExchange
    <3>3. \A e \in Served : callbacks'[e].pc \in Past => callbacks'[e] = callbacks[e]
      BY <2>9, NoneType DEF Past
    <3>4. callbacks[d].flow # callbacks[c].flow
      <4>1. callbacks[d].url \in returns /\ callbacks[d].url.state = callbacks[d].flow
        BY <3>1 DEF SignInInv, CallbacksMatch, Past
      <4> QED
        BY <2>3, <2>4, <3>1, <4>1 DEF SignInInv, ReturnsBegun
    <3> QED
      BY <2>1, <2>6, <3>1, <3>2, <3>3, <3>4
  <2> QED
    BY <2>8, <2>10, <2>11, <2>12, <2>13, <2>14 DEF SignInInv
<1> QED
  BY <1>2, <1>3

LEMMA SignInNextInv == SignInInv /\ [SignInNext]_signInVars => SignInInv'
<1> SUFFICES ASSUME SignInInv, [SignInNext]_signInVars PROVE SignInInv'
  OBVIOUS
<1>1. CASE UNCHANGED signInVars
  BY <1>1 DEF signInVars, SignInInv, SignInTyped, CookiesBegun, ReturnsBegun, CallbacksMatch, PastExchange, SessionsMatch
<1>2. ASSUME NEW k \in SigningKeys, Rotate(k) PROVE SignInInv'
  BY <1>2 DEF Rotate, SignInInv, SignInTyped, CookiesBegun, ReturnsBegun, CallbacksMatch, PastExchange, SessionsMatch
<1>3. CASE Tick
  <2>1. clock' = clock + 1 /\ UNCHANGED <<begun, cookie, returns, spent, signing, jwks, callbacks, sessions>>
    BY <1>3 DEF Tick, remote
  <2> QED
    BY <2>1 DEF SignInInv, SignInTyped, CookiesBegun, ReturnsBegun, CallbacksMatch, PastExchange, SessionsMatch
<1>4. CASE Restart
  <2>1. /\ callbacks' = [c \in Served |-> NoCallback] /\ jwks'.keys = {}
        /\ UNCHANGED <<clock, begun, cookie, returns, spent, signing, sessions>>
    BY <1>4 DEF Restart, remote
  <2>2. callbacks' \in [Served -> CallbackType] /\ \A c \in Served : callbacks'[c].pc = "idle"
    BY <2>1, NoneType
  <2>3. CallbacksMatch' /\ PastExchange'
    BY <2>2 DEF CallbacksMatch, PastExchange, Past
  <2> QED
    BY <2>1, <2>2, <2>3 DEF SignInInv, SignInTyped, CookiesBegun, ReturnsBegun, SessionsMatch
<1>5. ASSUME NEW c \in Served, FetchJwks(c) \/ Verify(c) \/ Userinfo(c) PROVE SignInInv'
  <2>1. callbacks[c].pc \in Past /\ callbacks[c].pc # "idle" /\ UNCHANGED <<clock, begun, returns, spent, signing, sessions>>
    BY <1>5 DEF FetchJwks, Verify, Userinfo, CallbackAt, remote, Past
  <2>2. callbacks[c] \in CallbackType /\ callbacks \in [Served -> CallbackType]
    BY DEF SignInInv, SignInTyped
  <2>3. {jwks.keys, jwks'.keys, callbacks[c].keys} \subseteq SUBSET SigningKeys
    BY <1>5, <2>2 DEF FetchJwks, Verify, Userinfo, CallbackType, SignInInv, SignInTyped
  <2>4. CASE Fail(c)
    BY <2>1, <2>3, <2>4, FailInv
  <2>5. CASE GoesOn(c, "issue")
    <3>1. callbacks' = [callbacks EXCEPT ![c].pc = "issue"] /\ UNCHANGED cookie
      BY <2>5 DEF GoesOn
    <3>2. [callbacks[c] EXCEPT !.pc = "issue"] = [callbacks[c] EXCEPT !.pc = "issue", !.keys = callbacks[c].keys]
      BY <2>2 DEF CallbackType
    <3>3. callbacks' = [callbacks EXCEPT ![c] = [callbacks[c] EXCEPT !.pc = "issue", !.keys = callbacks[c].keys]]
      BY <3>1, <3>2
    <3>4. "issue" \in Stage
      BY DEF Stage
    <3> QED
      BY <2>1, <2>3, <3>1, <3>3, <3>4, GoesOnInv
  <2>6. ASSUME NEW keys \in SUBSET SigningKeys, TakesKeys(c, keys) PROVE SignInInv'
    <3>1. /\ callbacks' = [callbacks EXCEPT ![c] = [callbacks[c] EXCEPT !.pc = "verify", !.keys = keys]]
          /\ UNCHANGED cookie
      BY <2>2, <2>6 DEF TakesKeys
    <3>2. "verify" \in Stage
      BY DEF Stage
    <3> QED
      BY <2>1, <2>3, <3>1, <3>2, GoesOnInv
  <2>7. CASE FetchJwks(c)
    <3>1. {signing} \in SUBSET SigningKeys /\ jwks.keys \in SUBSET SigningKeys
      BY <2>3 DEF SignInInv, SignInTyped
    <3>2. Fail(c) \/ TakesKeys(c, {signing}) \/ TakesKeys(c, jwks.keys)
      BY <2>7 DEF FetchJwks
    <3> QED
      BY <2>4, <2>6, <3>1, <3>2
  <2>8. CASE Verify(c) \/ Userinfo(c)
    BY <2>4, <2>5, <2>8 DEF Verify, Userinfo
  <2> QED
    BY <1>5, <2>7, <2>8
<1> QED
  BY <1>1, <1>2, <1>3, <1>4, <1>5, BeginInv, SendBackInv, CallbackInv, ExchangeInv, IssueInv
     DEF SignInNext, Away, Back

(* A session is for whoever consented in the flow its browser began, in time, and one consent *)
(* makes one session, for any number of browsers, flows and callbacks served at once, through *)
(* restarts and key rotations (auth/social-app.ts).                                           *)
THEOREM SessionsAreBegunHere == SignInSpec => []SessionMatchesFlow
<1>1. SignInInv => SessionMatchesFlow
  BY DEF SignInInv, SessionsMatch, SessionMatchesFlow
<1> QED
  BY <1>1, SignInInitInv, SignInNextInv, PTL DEF SignInSpec
=============================================================================
