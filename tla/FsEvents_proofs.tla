--------------------------- MODULE FsEvents_proofs ---------------------------
(***************************************************************************)
(* Proof that the FS monitor's handler reports the deletion of every file *)
(* whose creation or opening it was told of, for any sets of directories, *)
(* files and CPUs and any buffer size.                                     *)
(***************************************************************************)
EXTENDS FsEvents, TLAPS

\* A file the group was told of carries the group's mark.
SeenMarked == seen \subseteq marks

IInv == SeenMarked /\ SeenDeleteReported

(***************************************************************************)
(* Whether or not the buffer has room for it, the delete record a call of *)
(* _trace_file_event writes is committed or counted as dropped, and none  *)
(* already there is lost.                                                 *)
(***************************************************************************)
LEMMA TraceKeepsDeletes ==
    ASSUME NEW c, NEW mask, NEW o, TraceFileEvents(c, mask, o)
    PROVE  reported' \cup dropped' =
              reported \cup dropped \cup {<<o, inc[o]>> : x \in {"delete_self"} \cap mask}
BY DEF TraceFileEvents

\* The handler only adds marks, and adds the child's on create and open.
LEMMA HandleMarks ==
    ASSUME NEW c, NEW mask, NEW o, HandleEvent(c, mask, o)
    PROVE  /\ marks \subseteq marks'
           /\ "create" \in mask \/ "open" \in mask => o \in marks'
BY DEF HandleEvent, MarksAfter, AddMark

LEMMA InitIInv == Init => IInv
BY DEF Init, IInv, SeenMarked, SeenDeleteReported

(***************************************************************************)
(* A step that leaves gone alone, keeps the seen files marked and does   *)
(* not shrink reported \cup dropped keeps the invariant.                  *)
(***************************************************************************)
LEMMA FrameIInv ==
    ASSUME IInv, UNCHANGED gone, seen' \subseteq marks',
           reported \cup dropped \subseteq reported' \cup dropped'
    PROVE  IInv'
BY DEF IInv, SeenMarked, SeenDeleteReported

LEMMA NextIInv == IInv /\ [Next]_vars => IInv'
<1> SUFFICES ASSUME IInv, [Next]_vars PROVE IInv'
  OBVIOUS
<1>0. seen \subseteq marks
  BY DEF IInv, SeenMarked
<1>1. ASSUME NEW f \in Files, NEW d \in Dirs, NEW c \in Cpus, Create(f, d, c)
      PROVE  IInv'
  <2>1. CASE d \in marks
    <3>1. HandleEvent(c, {"create"}, f) /\ seen' = seen \cup {f} /\ UNCHANGED gone
      BY <1>1, <2>1 DEF Create
    <3>2. seen' \subseteq marks'
      BY <3>1, <1>0, HandleMarks
    <3>3. reported \cup dropped \subseteq reported' \cup dropped'
      BY <3>1, TraceKeepsDeletes DEF HandleEvent
    <3>. QED
      BY <3>1, <3>2, <3>3, FrameIInv
  <2>5. CASE d \notin marks
    BY <1>1, <2>5, <1>0, FrameIInv DEF Create, handlerVars
  <2>. QED
    BY <2>1, <2>5
<1>2. ASSUME NEW f \in Files, NEW c \in Cpus, Open(f, c)
      PROVE  IInv'
  <2>1. HandleEvent(c, {"open"}, f) /\ seen' = seen \cup {f} /\ UNCHANGED gone
    BY <1>2 DEF Open
  <2>2. seen' \subseteq marks'
    BY <2>1, <1>0, HandleMarks
  <2>3. reported \cup dropped \subseteq reported' \cup dropped'
    BY <2>1, TraceKeepsDeletes DEF HandleEvent
  <2>. QED
    BY <2>1, <2>2, <2>3, FrameIInv
<1>3. ASSUME NEW f \in Files, NEW d \in Dirs, NEW c \in Cpus, Rename(f, d, c)
      PROVE  IInv'
  <2> DEFINE m == {x \in {"moved_from", "moved_to"} :
                      IF x = "moved_from" THEN parent[f] \in marks ELSE d \in marks}
  <2>1. UNCHANGED <<seen, gone>>
    BY <1>3 DEF Rename
  <2>2. CASE m # {}
    <3>1. HandleEvent(c, m, f)
      BY <1>3, <2>2 DEF Rename
    <3>2. marks \subseteq marks'
      BY <3>1, HandleMarks
    <3>3. reported \cup dropped \subseteq reported' \cup dropped'
      BY <3>1, TraceKeepsDeletes DEF HandleEvent
    <3>. QED
      BY <2>1, <3>2, <3>3, <1>0, FrameIInv
  <2>6. CASE m = {}
    BY <1>3, <2>1, <2>6, <1>0, FrameIInv DEF Rename, handlerVars
  <2>. QED
    BY <2>2, <2>6
<1>4. ASSUME NEW f \in Files, NEW c \in Cpus, Delete(f, c)
      PROVE  IInv'
  <2>1. /\ gone' = gone \cup {<<f, inc[f], f \in named, f \in seen>>}
        /\ seen' = seen \ {f} /\ marks' = marks \ {f}
    BY <1>4 DEF Delete
  <2>2. SeenMarked'
    BY <2>1, <1>0 DEF SeenMarked
  \* the record of the deletion is in the trace or dropped
  <2>3. f \in seen => <<f, inc[f]>> \in reported' \cup dropped'
    <3>1. ASSUME f \in seen PROVE TraceFileEvents(c, {"delete_self"}, f)
      BY <3>1, <1>0, <1>4 DEF Delete
    <3>. QED
      BY <3>1, TraceKeepsDeletes
  <2>4. reported \cup dropped \subseteq reported' \cup dropped'
    <3>1. CASE f \in marks
      BY <3>1, <1>4, TraceKeepsDeletes DEF Delete
    <3>2. CASE f \notin marks
      BY <3>2, <1>4 DEF Delete
    <3>. QED
      BY <3>1, <3>2
  <2>5. SeenDeleteReported'
    <3> SUFFICES ASSUME NEW g \in gone', g[4]
                 PROVE  <<g[1], g[2]>> \in reported' \cup dropped'
      BY DEF SeenDeleteReported
    <3>1. CASE g \in gone
      BY <3>1, <2>4 DEF IInv, SeenDeleteReported
    <3>2. CASE g = <<f, inc[f], f \in named, f \in seen>>
      <4>1. f \in seen /\ <<g[1], g[2]>> = <<f, inc[f]>>
        BY <3>2
      <4>. QED
        BY <4>1, <2>3
    <3>. QED
      BY <3>1, <3>2, <2>1
  <2>. QED
    BY <2>2, <2>5 DEF IInv
<1>5. ASSUME NEW f \in Files, Io(f)
      PROVE  IInv'
  BY <1>5, <1>0, FrameIInv DEF Io, AddMark
<1>6. ASSUME NEW c \in Cpus, Drain(c)
      PROVE  IInv'
  BY <1>6, <1>0, FrameIInv DEF Drain
<1>7. CASE UNCHANGED vars
  BY <1>7, <1>0, FrameIInv DEF vars
<1>. QED
  BY <1>1, <1>2, <1>3, <1>4, <1>5, <1>6, <1>7 DEF Next

(***************************************************************************)
(* Every deleted incarnation of a file whose FS_CREATE or FS_OPEN reached *)
(* the group has its delete record in the trace or counted as dropped     *)
(* (SeenDeleteReported): the handler marks the file itself, the mark      *)
(* lives until the deletion, and FS_DELETE_SELF to it writes the record,  *)
(* for every order of creations, opens, renames, I/O and deletions.       *)
(***************************************************************************)
THEOREM SeenDeleteReportedThm == Spec => []SeenDeleteReported
<1>1. IInv => SeenDeleteReported
  BY DEF IInv
<1>. QED
  BY <1>1, InitIInv, NextIInv, PTL DEF Spec

-----------------------------------------------------------------------------
(***************************************************************************)
(* Type correctness.  A present file has had at least one incarnation, so *)
(* the delete record of its unlink names an incarnation in 1..MaxInc.     *)
(***************************************************************************)
PresentInc == \A f \in Files : present[f] => inc[f] \in 1..MaxInc

TInv == TypeOK /\ PresentInc

(***************************************************************************)
(* _trace_file_event never takes more slots than the buffer has free:    *)
(* the records written are cut at room[c], so the free count stays in    *)
(* 0..SinkSize; a delete record names an incarnation of the inode.        *)
(***************************************************************************)
LEMMA TraceType ==
    ASSUME TypeOK, NEW c \in Cpus, NEW mask, NEW o \in Files,
           "delete_self" \in mask => inc[o] \in 1..MaxInc,
           TraceFileEvents(c, mask, o)
    PROVE  /\ room' \in [Cpus -> 0..SinkSize]
           /\ leaked' \subseteq Cpus
           /\ reported' \subseteq Files \X (1..MaxInc)
           /\ dropped' \subseteq Files \X (1..MaxInc)
<1>1. PICK r \in 0..SinkSize : r = room[c]
  BY DEF TypeOK
<1>2. PICK n \in 0..r :
         n = Len(SubSeq(TraceKinds(mask), 1,
                        IF Len(TraceKinds(mask)) > r THEN r
                        ELSE Len(TraceKinds(mask))))
  BY <1>1
<1>3. room' = [room EXCEPT ![c] = r - n]
  BY <1>1, <1>2 DEF TraceFileEvents
<1>4. {<<o, inc[o]>> : x \in {"delete_self"} \cap mask} \subseteq Files \X (1..MaxInc)
  OBVIOUS
<1>. QED
  BY <1>1, <1>3, <1>4, FsAssumption DEF TraceFileEvents, TypeOK

\* Create: a new incarnation; FS_CREATE to a marked directory marks f.
LEMMA CreateType ==
    ASSUME TInv, NEW f \in Files, NEW d \in Dirs, NEW c \in Cpus, Create(f, d, c)
    PROVE  TInv'
<1>0. /\ TypeOK /\ PresentInc /\ inc[f] < MaxInc
      /\ present' = [present EXCEPT ![f] = TRUE]
      /\ parent' = [parent EXCEPT ![f] = d]
      /\ inc' = [inc EXCEPT ![f] = @ + 1]
      /\ UNCHANGED <<named, gone>>
  BY DEF TInv, Create
<1>1. (present' \in [Files -> BOOLEAN] /\ parent' \in [Files -> Dirs]
       /\ inc' \in [Files -> 0..MaxInc] /\ PresentInc')
  BY <1>0, FsAssumption DEF TypeOK, PresentInc
<1>2. CASE d \in marks
  <2>1. HandleEvent(c, {"create"}, f) /\ seen' = seen \cup {f}
    BY <1>2 DEF Create
  <2>2. marks' \subseteq Objs
    BY <2>1, <1>0 DEF HandleEvent, MarksAfter, AddMark, TypeOK, Objs
  <2>3. /\ room' \in [Cpus -> 0..SinkSize] /\ leaked' \subseteq Cpus
        /\ reported' \subseteq Files \X (1..MaxInc)
        /\ dropped' \subseteq Files \X (1..MaxInc)
    BY <2>1, <1>0, TraceType DEF HandleEvent
  <2>. QED
    BY <1>0, <1>1, <2>1, <2>2, <2>3 DEF TInv, TypeOK
<1>3. CASE d \notin marks
  BY <1>3, <1>0, <1>1 DEF Create, handlerVars, TInv, TypeOK
<1>. QED
  BY <1>2, <1>3

\* Open: FS_OPEN marks the file and traces nothing.
LEMMA OpenType ==
    ASSUME TInv, NEW f \in Files, NEW c \in Cpus, Open(f, c)
    PROVE  TInv'
<1>0. /\ TypeOK /\ PresentInc /\ HandleEvent(c, {"open"}, f)
      /\ seen' = seen \cup {f}
      /\ UNCHANGED <<present, parent, inc, named, gone>>
  BY DEF TInv, Open
<1>1. marks' \subseteq Objs
  BY <1>0 DEF HandleEvent, MarksAfter, AddMark, TypeOK, Objs
<1>2. /\ room' \in [Cpus -> 0..SinkSize] /\ leaked' \subseteq Cpus
      /\ reported' \subseteq Files \X (1..MaxInc)
      /\ dropped' \subseteq Files \X (1..MaxInc)
  BY <1>0, TraceType DEF HandleEvent
<1>. QED
  BY <1>0, <1>1, <1>2 DEF TInv, TypeOK, PresentInc

\* Rename: FS_MOVED_FROM / FS_MOVED_TO to the marked directories.
LEMMA RenameType ==
    ASSUME TInv, NEW f \in Files, NEW d \in Dirs, NEW c \in Cpus, Rename(f, d, c)
    PROVE  TInv'
<1> DEFINE m == {x \in {"moved_from", "moved_to"} :
                    IF x = "moved_from" THEN parent[f] \in marks ELSE d \in marks}
<1>0. /\ TypeOK /\ PresentInc
      /\ parent' = [parent EXCEPT ![f] = d]
      /\ UNCHANGED <<present, inc, named, seen, gone>>
  BY DEF TInv, Rename
<1>1. parent' \in [Files -> Dirs]
  BY <1>0 DEF TypeOK
<1>2. CASE m # {}
  <2>1. HandleEvent(c, m, f)
    BY <1>2 DEF Rename
  <2>2. marks' = marks
    BY <2>1 DEF HandleEvent, MarksAfter
  <2>3. /\ room' \in [Cpus -> 0..SinkSize] /\ leaked' \subseteq Cpus
        /\ reported' \subseteq Files \X (1..MaxInc)
        /\ dropped' \subseteq Files \X (1..MaxInc)
    BY <2>1, <1>0, TraceType DEF HandleEvent
  <2>. QED
    BY <1>0, <1>1, <2>2, <2>3 DEF TInv, TypeOK, PresentInc
<1>3. CASE m = {}
  BY <1>3, <1>0, <1>1 DEF Rename, handlerVars, TInv, TypeOK, PresentInc
<1>. QED
  BY <1>2, <1>3

(***************************************************************************)
(* Delete: FS_DELETE_SELF to the file's own mark, and the deleted         *)
(* incarnation, present until now, is recorded.                           *)
(***************************************************************************)
LEMMA DeleteType ==
    ASSUME TInv, NEW f \in Files, NEW c \in Cpus, Delete(f, c)
    PROVE  TInv'
<1>0. /\ TypeOK /\ PresentInc /\ present[f]
      /\ present' = [present EXCEPT ![f] = FALSE]
      /\ marks' = marks \ {f}
      /\ gone' = gone \cup {<<f, inc[f], f \in named, f \in seen>>}
      /\ named' = named \ {f} /\ seen' = seen \ {f}
      /\ UNCHANGED <<parent, inc>>
  BY DEF TInv, Delete
<1>1. inc[f] \in 1..MaxInc
  BY <1>0 DEF PresentInc
<1>2. /\ room' \in [Cpus -> 0..SinkSize] /\ leaked' \subseteq Cpus
      /\ reported' \subseteq Files \X (1..MaxInc)
      /\ dropped' \subseteq Files \X (1..MaxInc)
  <2>1. CASE f \in marks
    BY <2>1, <1>0, <1>1, TraceType DEF Delete
  <2>2. CASE f \notin marks
    BY <2>2, <1>0 DEF Delete, TypeOK
  <2>. QED
    BY <2>1, <2>2
<1>3. <<f, inc[f], f \in named, f \in seen>>
          \in Files \X (1..MaxInc) \X BOOLEAN \X BOOLEAN
  <2>0. (f \in named) \in BOOLEAN /\ (f \in seen) \in BOOLEAN
    OBVIOUS
  <2>1. PICK b1 \in BOOLEAN, b2 \in BOOLEAN : b1 = (f \in named) /\ b2 = (f \in seen)
    BY <2>0, Zenon
  <2>2. <<f, inc[f], b1, b2>> \in Files \X (1..MaxInc) \X BOOLEAN \X BOOLEAN
    BY <1>1, Zenon
  <2>. QED
    BY <2>1, <2>2, Zenon
<1>4. gone' \subseteq Files \X (1..MaxInc) \X BOOLEAN \X BOOLEAN
  <2>1. gone \subseteq Files \X (1..MaxInc) \X BOOLEAN \X BOOLEAN
    BY <1>0 DEF TypeOK
  <2>. QED
    BY <2>1, <1>0, <1>3, Zenon
<1>5. PresentInc'
  BY <1>0 DEF PresentInc, TypeOK
<1>. QED
  BY <1>0, <1>2, <1>4, <1>5 DEF TInv, TypeOK

\* I/O: the walk names f and marks its directory.
LEMMA IoType ==
    ASSUME TInv, NEW f \in Files, Io(f)
    PROVE  TInv'
BY DEF TInv, Io, AddMark, TypeOK, PresentInc, Objs

\* The consumer frees a slot.
LEMMA DrainType ==
    ASSUME TInv, NEW c \in Cpus, Drain(c)
    PROVE  TInv'
BY FsAssumption DEF TInv, Drain, TypeOK, PresentInc

LEMMA InitType == Init => TInv
BY FsAssumption DEF Init, TInv, TypeOK, PresentInc

LEMMA NextType == TInv /\ [Next]_vars => TInv'
<1> SUFFICES ASSUME TInv, [Next]_vars PROVE TInv'
  OBVIOUS
<1>1. CASE UNCHANGED vars
  BY <1>1 DEF vars, TInv, TypeOK, PresentInc
<1>. QED
  BY <1>1, CreateType, OpenType, RenameType, DeleteType, IoType, DrainType
     DEF Next

(***************************************************************************)
(* The TypeOK of the events run, for any sets of directories, files and   *)
(* CPUs and any buffer size: in particular the handler never drives a    *)
(* CPU's free-slot count below zero, whatever the event's number of      *)
(* records, since _trace_file_event stops at the first failed reservation. *)
(***************************************************************************)
THEOREM FsTypeCorrect == Spec => []TypeOK
<1>1. TInv => TypeOK
  BY DEF TInv
<1>. QED
  BY <1>1, InitType, NextType, PTL DEF Spec

=============================================================================
