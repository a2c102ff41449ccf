-------------------------- MODULE InterfaceSaveProofs --------------------------
(***************************************************************************)
(* What a finished operation on an interface leaves behind, for any set of *)
(* peers and any number of failing steps and crashes.                      *)
(*                                                                         *)
(* The properties of InterfaceSave speak of settled states; the invariants *)
(* here say what each step in between has already reached: what was read,  *)
(* what the device is, and for which peers the loops are still to come.    *)
(***************************************************************************)
EXTENDS InterfaceSave, TLAPS

-----------------------------------------------------------------------------
(* Which step changes what.                                                *)

\* The groups of the actions.
Saving == (\E c \in Config : Submit(c)) \/ Load \/ PreSave \/ Teardown \/ Apply \/ Commit
Rollback == RollbackDelete \/ RollbackApply \/ RollbackPeers
Finishing == CopyPeers \/ PostSave \/ Reload \/ Readd
Deletion == DeleteStart \/ DeletePeers \/ DeleteDevice \/ DeleteRow
Restore == Boot \/ Probe \/ Mark \/ RestorePeers \/ RemoveForeign
Editing == (\E p \in Peer, on \in BOOLEAN : EditSave(p, on)) \/ (\E p \in Peer : EditDelete(p))
           \/ EditSaved \/ EditDeleteDevice \/ EditDeleteRow

\* Every step belongs to one of them.
LEMMA Groups ==
    ASSUME Next
    PROVE  Saving \/ Rollback \/ Finishing \/ Deletion \/ Restore \/ Editing \/ Crash
  BY DEF Next, Saving, Rollback, Finishing, Deletion, Restore, Editing

\* The actions that may change a variable.
Frame ==
    /\ UNCHANGED row \/ Commit \/ DeleteRow \/ Probe \/ Mark
    /\ UNCHANGED peers \/ CopyPeers \/ DeletePeers \/ DeleteRow \/ EditSaved \/ EditDeleteRow
    /\ \/ UNCHANGED dev \/ Teardown \/ Apply \/ RollbackDelete \/ RollbackApply
       \/ DeleteDevice \/ Crash
    /\ \/ UNCHANGED devPeers \/ Teardown \/ RollbackDelete \/ RollbackPeers \/ Readd
       \/ DeletePeers \/ DeleteDevice \/ RestorePeers \/ RemoveForeign
       \/ EditSaved \/ EditDeleteDevice \/ Crash
    /\ UNCHANGED posted \/ PostSave \/ (\E c \in Config : Submit(c))
    /\ UNCHANGED kind \/ Probe \/ (\E c \in Config : Submit(c))
    /\ UNCHANGED cfg \/ Boot \/ (\E c \in Config : Submit(c))
    /\ UNCHANGED old \/ Load
    /\ UNCHANGED snap \/ Load \/ DeleteStart
    /\ UNCHANGED ed \/ Editing \/ Crash
    /\ UNCHANGED crashes \/ Crash

\* Every step respects the frame.
LEMMA FrameStep == ASSUME Next PROVE Frame
<1>1. CASE Saving
  BY <1>1 DEF Saving, Submit, Load, PreSave, Teardown, Apply, Commit, Frame
<1>2. CASE Rollback
  BY <1>2 DEF Rollback, RollbackDelete, RollbackApply, RollbackPeers, Frame
<1>3. CASE Finishing
  BY <1>3 DEF Finishing, CopyPeers, PostSave, Reload, Readd, Frame
<1>4. CASE Deletion
  BY <1>4 DEF Deletion, DeleteStart, DeletePeers, DeleteDevice, DeleteRow, Frame
<1>5. CASE Restore
  BY <1>5 DEF Restore, Boot, Probe, Mark, RestorePeers, RemoveForeign, Frame
<1>6. CASE Editing
  BY <1>6 DEF Editing, EditSave, EditDelete, EditSaved, EditDeleteDevice, EditDeleteRow,
              opVars, Frame
<1>7. CASE Crash
  BY <1>7 DEF Crash, Frame
<1> QED BY <1>1, <1>2, <1>3, <1>4, <1>5, <1>6, <1>7, Groups

\* A failing step counts, and one that nothing makes up for leaves a mark.
\* Only a boot takes the mark away.
LEMMA FaultStep ==
    ASSUME TypeOK, Next
    PROVE  /\ faults' \in 0..MaxFault /\ dirty' \in BOOLEAN
           /\ ~dirty' /\ pc # "down" => ~dirty
<1> DEFINE Result == /\ faults' \in 0..MaxFault /\ dirty' \in BOOLEAN
                     /\ ~dirty' => ~dirty
<1>1. Good \/ Bad(TRUE) \/ Bad(FALSE) => Result
 <2>1. CASE Good
   BY <2>1 DEF Good, TypeOK
 <2>2. CASE Bad(TRUE) \/ Bad(FALSE)
  <3>1. faults' \in 0..MaxFault
    BY <2>2, BoundAssumption DEF Bad, TypeOK
  <3>2. dirty' \in BOOLEAN /\ (~dirty' => ~dirty)
    BY <2>2, Zenon DEF Bad, TypeOK
  <3> QED BY <3>1, <3>2
 <2> QED BY <2>1, <2>2
<1>2. ASSUME NEW x \in BOOLEAN, dirty' = (dirty \/ x), UNCHANGED faults PROVE Result
  BY <1>2 DEF TypeOK
<1> HIDE DEF Result
<1>3. CASE Saving
 <2>1. ASSUME NEW c \in Config, Submit(c) PROVE Result
  <3>1. dirty' = (dirty \/ ed.at # "none") /\ UNCHANGED faults
    BY <2>1 DEF Submit
  <3> QED BY <3>1, <1>2
 <2> QED BY <2>1, <1>1, <1>3 DEF Saving, Load, PreSave, Teardown, Apply, Commit, Result
<1>4. CASE Rollback \/ Finishing
  BY <1>1, <1>4 DEF Rollback, RollbackDelete, RollbackApply, RollbackPeers, Finishing,
                    CopyPeers, PostSave, Reload, Readd, Result
<1>5. CASE Deletion
 <2>1. CASE DeleteStart
  <3>1. Bad(FALSE) \/ (dirty' = (dirty \/ ed.at # "none") /\ UNCHANGED faults)
    BY <2>1 DEF DeleteStart
  <3> QED BY <3>1, <1>1, <1>2 DEF Result
 <2> QED BY <2>1, <1>1, <1>5 DEF Deletion, DeletePeers, DeleteDevice, DeleteRow, Result
<1>6. CASE Restore
 <2>1. CASE Boot
   BY <2>1 DEF Boot, TypeOK
 <2>2. CASE Probe
   BY <2>2, <1>1 DEF Probe, Result
 <2> QED BY <2>1, <2>2, <1>1, <1>6 DEF Restore, Mark, RestorePeers, RemoveForeign,
            Result
<1>7. CASE Editing
 <2>1. Overlap /\ UNCHANGED faults => Result
  <3>1. (pc # "idle") \in BOOLEAN
    OBVIOUS
  <3> QED BY <3>1, <1>2 DEF Overlap
 <2> QED BY <2>1, <1>1, <1>7 DEF Editing, EditSave, EditDelete, EditSaved,
            EditDeleteDevice, EditDeleteRow, Result
<1>8. CASE Crash
  BY <1>8 DEF Crash, TypeOK, Result
<1> QED BY <1>3, <1>4, <1>5, <1>6, <1>7, <1>8, Groups DEF Result

-----------------------------------------------------------------------------
(* Types, and which of the local variables have been assigned.             *)

Assigned ==
    /\ pc \in SaveStep \cup {"probe", "mark", "rpeers", "rforeign"} => cfg \in Config
    /\ Booting /\ pc # "down" => row \in Config
    /\ pc \in {"rbapply", "rbpeers"} => old \in Config
    /\ pc = "teardown" => awgModeChanged(old, cfg)
    /\ pc \in {"copy", "rbpeers"} => todo \subseteq Stored(snap)
    /\ ed.at # "none" => ed.p \in Peer /\ ~Booting
    /\ crashes = 0 => ~Booting

Shape == TypeOK /\ Assigned

\* A configuration of which one field changes.
LEMMA ConfigExcept ==
    ASSUME NEW c \in Config, NEW b \in BOOLEAN
    PROVE  /\ [c EXCEPT !.on = b] \in Config /\ [c EXCEPT !.awg = b] \in Config
           /\ [c EXCEPT !.awg = b].awg = b /\ [c EXCEPT !.awg = b].on = c.on
           /\ [c EXCEPT !.on = b].on = b /\ [c EXCEPT !.on = b].awg = c.awg
           /\ c.on \in BOOLEAN /\ c.awg \in BOOLEAN /\ c # None
  BY NoneAssumption DEF Config

\* The device after it was configured, and after that failed half-way.
LEMMA ConfiguredDevice ==
    ASSUME TypeOK, NEW c \in Config, NEW up \in BOOLEAN
    PROVE  /\ Configured(c, up) \in Device /\ Configured(c, up) # None
           /\ Configured(c, up).up = up
           /\ Configured(c, up).awg = IF dev = None THEN c.awg ELSE dev.awg
<1>1. c.awg \in BOOLEAN
  BY DEF Config
<1>2. dev # None => dev.awg \in BOOLEAN
  BY DEF TypeOK, Device
<1> QED BY <1>1, <1>2, NoneAssumption DEF Configured, Device

\* A configured device keeps its driver, also when the configuration fails half-way,
\* and a device that was there stays.
LEMMA AppliedDevice ==
    ASSUME TypeOK, NEW c \in Config, ApplyPhysical(c) \/ ApplyPhysicalFails(c)
    PROVE  /\ dev' \in Device \cup {None}
           /\ dev' = None => dev = None
           /\ dev' # None => dev'.awg = IF dev = None THEN c.awg ELSE dev.awg
           /\ ApplyPhysical(c) => dev' # None /\ dev'.up = c.on
<1> DEFINE was == dev # None /\ dev.up
<1>1. was \in BOOLEAN /\ c.on \in BOOLEAN
  BY DEF Config
<1>2. dev' \in {dev, Configured(c, was), Configured(c, c.on)}
      /\ (ApplyPhysical(c) => dev' = Configured(c, c.on))
  BY DEF ApplyPhysical, ApplyPhysicalFails
<1> HIDE DEF was
<1>3. \A up \in {was, c.on} : /\ Configured(c, up) \in Device /\ Configured(c, up) # None
                              /\ Configured(c, up).up = up
                              /\ Configured(c, up).awg = IF dev = None THEN c.awg ELSE dev.awg
  BY <1>1, ConfiguredDevice
<1> QED BY <1>2, <1>3 DEF TypeOK

\* Variable by variable: the actions that change it keep its type.
LEMMA TypeStep ==
    ASSUME Shape, Next PROVE TypeOK'
<1> USE DEF Shape
<1>1. Frame
  BY FrameStep
<1>2. row' \in Config \cup {None}
 <2>1. Commit => row' \in Config \cup {None}
   BY DEF Commit, TypeOK
 <2>2. DeleteRow => row' \in Config \cup {None}
   BY DEF DeleteRow, TypeOK
 <2>3. Probe => row' \in Config \cup {None}
  <3>1. Probe => row \in Config
    BY DEF Probe, Assigned, Booting
  <3>2. Probe => row' \in {row, [row EXCEPT !.on = FALSE]}
    BY DEF Probe
  <3>3. row \in Config => [row EXCEPT !.on = FALSE] \in Config
    BY DEF Config
  <3> QED BY <3>1, <3>2, <3>3
 <2>4. Mark => row' \in Config \cup {None}
  <3>1. Mark => row \in Config /\ cfg.on \in BOOLEAN
    BY ConfigExcept DEF Mark, Assigned, Booting
  <3>2. Mark => row' \in {row, [row EXCEPT !.on = FALSE], [row EXCEPT !.on = cfg.on]}
    BY DEF Mark
  <3>3. row \in Config /\ cfg.on \in BOOLEAN =>
           [row EXCEPT !.on = FALSE] \in Config /\ [row EXCEPT !.on = cfg.on] \in Config
    BY DEF Config
  <3> QED BY <3>1, <3>2, <3>3
 <2> QED BY <2>1, <2>2, <2>3, <2>4, <1>1 DEF Frame, TypeOK
<1>3. peers' \in [Peer -> PeerRow \cup {None}]
 <2>1. CopyPeers => peers' \in [Peer -> PeerRow \cup {None}]
  <3>1. ASSUME NEW p \in Peer, p \in Stored(snap), cfg \in Config
        PROVE  [snap[p] EXCEPT !.awg = cfg.awg] \in PeerRow
    BY <3>1, ConfigExcept DEF Stored, TypeOK, PeerRow, Config
  <3>2. CopyPeers => UNCHANGED peers \/ \E p \in todo : CopyPeer(p)
    BY DEF CopyPeers
  <3>3. CopyPeers => cfg \in Config /\ todo \subseteq Stored(snap)
    BY DEF CopyPeers, Assigned, SaveStep
  <3> QED BY <3>1, <3>2, <3>3 DEF CopyPeer, TypeOK
 <2>2. DeletePeers => peers' \in [Peer -> PeerRow \cup {None}]
   BY DEF DeletePeers, TypeOK
 <2>3. DeleteRow => peers' \in [Peer -> PeerRow \cup {None}]
   BY DEF DeleteRow, TypeOK
 <2>4. EditSaved => peers' \in [Peer -> PeerRow \cup {None}]
  <3>1. [on |-> ed.on, awg |-> ed.awg] \in PeerRow
    BY DEF TypeOK, Edit, PeerRow
  <3> QED BY <3>1 DEF EditSaved, TypeOK
 <2>5. EditDeleteRow => peers' \in [Peer -> PeerRow \cup {None}]
   BY DEF EditDeleteRow, TypeOK
 <2> QED BY <2>1, <2>2, <2>3, <2>4, <2>5, <1>1 DEF Frame, TypeOK
<1>4. /\ dev' \in Device \cup {None} /\ devPeers' \in SUBSET Peer
      /\ dev' = None => devPeers' = {}
 <2> DEFINE Kept == /\ dev' \in Device \cup {None} /\ devPeers' \in SUBSET Peer
                    /\ dev' = None => devPeers' = {}
 <2>1. DropDevice \/ DropDeviceFails => Kept
   BY DEF DropDevice, DropDeviceFails, TypeOK
 <2>2. \A c \in Config :
         (ApplyPhysical(c) \/ ApplyPhysicalFails(c)) /\ UNCHANGED devPeers => Kept
   BY AppliedDevice DEF TypeOK
 <2>3. \A p \in Peer : \A r : PutPeer(p, r) /\ UNCHANGED dev => Kept
   BY DEF PutPeer, TypeOK
 <2>4. devPeers' \in SUBSET devPeers /\ UNCHANGED dev => Kept
   BY DEF TypeOK
 <2>5. todo \subseteq Peer /\ devPeers \subseteq devPeers
   BY DEF TypeOK
 <2> SUFFICES Kept
   OBVIOUS
 <2> HIDE DEF Kept
 <2>6. CASE Teardown \/ RollbackDelete \/ DeleteDevice
   BY <2>1, <2>4, <2>6 DEF Teardown, RollbackDelete, DeleteDevice
 <2>7. CASE Apply \/ RollbackApply
   BY <2>2, <2>7 DEF Apply, RollbackApply, Assigned, SaveStep
 <2>8. CASE RollbackPeers \/ Readd \/ RestorePeers
   BY <2>3, <2>4, <2>5, <2>8 DEF RollbackPeers, Readd, RestorePeers
 <2>9. CASE DeletePeers \/ RemoveForeign
   BY <2>4, <2>9 DEF DeletePeers, RemoveForeign
 <2>10. CASE EditSaved \/ EditDeleteDevice
   BY <2>3, <2>4, <2>5, <2>10 DEF EditSaved, EditDeleteDevice, Assigned
 <2>11. CASE Crash
   BY <2>1, <2>4, <2>11 DEF Crash
 <2>12. CASE UNCHANGED <<dev, devPeers>>
   BY <2>4, <2>12
 <2> QED BY <2>6, <2>7, <2>8, <2>9, <2>10, <2>11, <2>12, <1>1 DEF Frame
<1>5. posted' \in BOOLEAN
 <2>1. (\E c \in Config : Submit(c)) => posted' \in BOOLEAN
   BY DEF Submit
 <2>2. PostSave => posted' \in BOOLEAN
   BY ConfigExcept DEF PostSave, Assigned, SaveStep, TypeOK
 <2> QED BY <2>1, <2>2, <1>1 DEF Frame, TypeOK
<1>6. pc' \in Step
 <2> USE DEF TypeOK, Step, SaveStep, Goto, GotoWith, SaveFails, SaveDone
 <2>1. CASE Saving
   BY <2>1 DEF Saving, Submit, Load, PreSave, Teardown, Apply, Commit
 <2>2. CASE Rollback \/ Finishing
   BY <2>2 DEF Rollback, RollbackDelete, RollbackApply, RollbackPeers, Finishing,
               CopyPeers, PostSave, Reload, Readd
 <2>3. CASE Deletion \/ Restore \/ Crash
   BY <2>3 DEF Deletion, DeleteStart, DeletePeers, DeleteDevice, DeleteRow, Crash,
               Restore, Boot, Probe, Mark, RestorePeers, RemoveForeign
 <2>4. CASE Editing
   BY <2>4 DEF Editing, EditSave, EditDelete, EditSaved, EditDeleteDevice,
               EditDeleteRow, opVars
 <2> QED BY <2>1, <2>2, <2>3, <2>4, Groups
<1>7. /\ kind' \in {"update", "restore", "missing"}
      /\ cfg' \in Config \cup {None} /\ old' \in Config \cup {None}
  BY <1>1 DEF Frame, TypeOK, Submit, Probe, Boot, Load
<1>8. snap' \in [Peer -> PeerRow \cup {None}]
  BY <1>1 DEF Frame, TypeOK, Load, DeleteStart
<1>9. todo' \in SUBSET Peer
 <2> USE DEF TypeOK, Stored, Goto, GotoWith, SaveDone
 <2>1. CASE Saving
   BY <2>1 DEF Saving, Submit, Load, PreSave, Teardown, Apply, Commit
 <2>2. CASE Rollback \/ Finishing
   BY <2>2 DEF Rollback, RollbackDelete, RollbackApply, RollbackPeers, Finishing,
               CopyPeers, PostSave, Reload, Readd
 <2>3. CASE Deletion \/ Restore \/ Crash
   BY <2>3 DEF Deletion, DeleteStart, DeletePeers, DeleteDevice, DeleteRow, Crash,
               Restore, Boot, Probe, Mark, RestorePeers, RemoveForeign
 <2>4. CASE Editing
   BY <2>4 DEF Editing, EditSave, EditDelete, EditSaved, EditDeleteDevice,
               EditDeleteRow, opVars
 <2> QED BY <2>1, <2>2, <2>3, <2>4, Groups
<1>10. ed' \in Edit
 <2>0. NoEdit \in Edit /\ [ed EXCEPT !.at = "rowdel"] \in Edit /\ ed \in Edit
   BY DEF NoEdit, Edit, TypeOK
 <2>1. ASSUME NEW p \in Peer, NEW on \in BOOLEAN, EditSave(p, on) PROVE ed' \in Edit
  <3>1. row.awg \in BOOLEAN
    BY <2>1, ConfigExcept DEF EditSave, TypeOK
  <3> QED BY <3>1, <2>0, <2>1 DEF EditSave, Edit
 <2>2. ASSUME NEW p \in Peer, EditDelete(p) PROVE ed' \in Edit
   BY <2>0, <2>2 DEF EditDelete, Edit, NoEdit
 <2>3. CASE EditSaved \/ EditDeleteRow \/ Crash
   BY <2>0, <2>3 DEF EditSaved, EditDeleteRow, Crash
 <2>4. CASE EditDeleteDevice
   BY <2>0, <2>4 DEF EditDeleteDevice
 <2> QED BY <2>0, <2>1, <2>2, <2>3, <2>4, <1>1 DEF Frame, Editing
<1>11. crashes' \in 0..MaxCrash
  BY <1>1, BoundAssumption DEF Frame, Crash, TypeOK
<1>12. faults' \in 0..MaxFault /\ dirty' \in BOOLEAN
  BY FaultStep
<1> QED BY <1>2, <1>3, <1>4, <1>5, <1>6, <1>7, <1>8, <1>9, <1>10, <1>11, <1>12 DEF
           TypeOK

\* No step is reached before the local variables it reads are assigned.
LEMMA AssignedStep ==
    ASSUME Shape, Next PROVE Assigned'
<1> USE DEF Shape, Assigned, Booting, SaveStep, Goto, GotoWith, SaveFails
<1>1. None \notin Config
  BY NoneAssumption DEF Config
<1>2. ASSUME NEW c \in Config, Submit(c) PROVE Assigned'
  BY <1>2 DEF Submit, TypeOK
<1>3. CASE Load \/ PreSave
  BY <1>3 DEF Load, PreSave
<1>4. CASE Teardown \/ Apply
  BY <1>4 DEF Teardown, Apply
<1>5. CASE Commit
  BY <1>5 DEF Commit
<1>6. CASE RollbackDelete
  BY <1>1, <1>6 DEF RollbackDelete, TypeOK, awgModeChanged
<1>7. CASE RollbackApply \/ RollbackPeers
  BY <1>7 DEF RollbackApply, RollbackPeers
<1>8. CASE CopyPeers \/ PostSave
  BY <1>8 DEF CopyPeers, PostSave
<1>9. CASE Reload \/ Readd
  BY <1>9 DEF Reload, Readd, SaveDone
<1>10. CASE Deletion
  BY <1>10 DEF Deletion, DeleteStart, DeletePeers, DeleteDevice, DeleteRow
<1>11. CASE Boot
  BY <1>11 DEF Boot, TypeOK
<1>12. CASE Probe
 <2>1. row \in Config => [row EXCEPT !.on = FALSE] \in Config
   BY DEF Config
 <2> QED BY <2>1, <1>12 DEF Probe
<1>13. CASE Mark \/ Crash
 <2>1. CASE Mark
   BY <2>1 DEF Mark
 <2>2. CASE Crash
  <3>1. crashes' # 0
    BY <2>2, BoundAssumption DEF Crash, TypeOK
  <3> QED BY <3>1, <2>2 DEF Crash, NoEdit
 <2> QED BY <2>1, <2>2, <1>13
<1>14. CASE RestorePeers \/ RemoveForeign
  BY <1>14 DEF RestorePeers, RemoveForeign
<1>15. CASE Editing
 <2>1. CASE EditSaved \/ EditDeleteDevice \/ EditDeleteRow
  <3>1. ed'.at = "none" \/ (ed.at # "none" /\ ed'.p = ed.p)
   <4>1. NoEdit.at = "none"
     BY DEF NoEdit
   <4>2. [ed EXCEPT !.at = "rowdel"].p = ed.p
     BY DEF TypeOK, Edit
   <4> QED BY <4>1, <4>2, <2>1 DEF EditSaved, EditDeleteDevice, EditDeleteRow
  <3> QED BY <3>1, <2>1 DEF EditSaved, EditDeleteDevice, EditDeleteRow, opVars
 <2>2. ASSUME NEW p \in Peer, NEW on \in BOOLEAN, EditSave(p, on) PROVE Assigned'
   BY <2>2 DEF EditSave, opVars
 <2>3. ASSUME NEW p \in Peer, EditDelete(p) PROVE Assigned'
   BY <2>3 DEF EditDelete, NoEdit, opVars
 <2> QED BY <2>1, <2>2, <2>3, <1>15 DEF Editing
<1> QED BY <1>2, <1>3, <1>4, <1>5, <1>6, <1>7, <1>8, <1>9, <1>10, <1>11, <1>12, <1>13,
           <1>14, <1>15, Groups DEF Saving, Rollback, Finishing, Restore

-----------------------------------------------------------------------------
(* The steps of an operation: it has read the row and not written it yet,  *)
(* or it has saved the row and is not done.                                *)

Before == pc \in {"prehooks", "teardown", "apply", "commit", "rbdelete", "rbapply", "rbpeers"}
After == pc \in {"copy", "posthooks", "reload", "readd"}
Deleting == pc \in {"dpeers", "ddev", "drow"}
Switching == awgModeChanged(old, cfg)

IsUp(on) == dev # None /\ dev.up = on
IsAwg(awg) == dev # None /\ dev.awg = awg

\* What a step has already reached: what is known of the row, and the link state.
DeviceInv ==
    /\ Before => old = row
    /\ After \/ pc \in {"rpeers", "rforeign"} => row = cfg
    /\ \/ pc \in {"idle", "dpeers"}
       \/ kind = "update" /\ pc \in {"load", "prehooks"}
       => (row # None => IsUp(row.on))
    /\ pc = "commit" \/ After \/ pc \in {"rpeers", "rforeign"} => IsUp(cfg.on)
    /\ pc = "rbpeers" => IsUp(old.on)

\* The driver of the device.
RowDriver == IF row = None THEN dev = None ELSE IsAwg(row.awg)
DriverInv ==
    /\ pc \in {"idle", "dpeers", "load", "prehooks", "teardown"} => RowDriver
    /\ pc = "apply" => IF Switching THEN dev = None ELSE RowDriver
    /\ pc = "commit" \/ After => IsAwg(cfg.awg)
    /\ pc = "rbdelete" /\ old # None /\ ~Switching => IsAwg(old.awg)
    /\ pc = "rbapply" /\ dev # None => IsAwg(old.awg)
    /\ pc = "rbpeers" => IsAwg(old.awg)
    /\ pc = "drow" => dev = None

\* The hook that ran last.
HooksInv ==
    /\ (pc = "idle" \/ Deleting) /\ row # None => posted = row.on
    /\ pc = "load" => posted = Enabled(row)
    /\ Before \/ pc \in {"copy", "posthooks"} => posted = Enabled(old)
    /\ pc \in {"reload", "readd"} => posted = cfg.on

\* An edit that overlaps nothing runs between two operations.
EditInv ==
    /\ ed.at # "none" => pc = "idle" /\ row # None
    /\ ed.at = "save" => ed.awg = row.awg

\* The snapshot of the peers still tells which there are and which are enabled.
SnapInv ==
    Before \/ pc = "copy" =>
        IF old = None THEN Stored(snap) = {}
        ELSE \A p \in Peer : /\ peers[p] = None <=> snap[p] = None
                             /\ peers[p] # None => peers[p].on = snap[p].on

\* The parameters stored with the peers, without a crash.
ParamsInv ==
    /\ row = None => Stored(peers) = {}
    /\ pc \in {"idle", "load"} \/ Deleting \/ Before =>
          \A p \in Stored(peers) : peers[p].awg = row.awg
    /\ pc = "copy" => \A p \in Stored(peers) \ todo : peers[p].awg = cfg.awg
    /\ pc \in {"posthooks", "reload", "readd"} =>
          \A p \in Stored(peers) : peers[p].awg = cfg.awg

\* The enabled peers that are on the device, and those a loop still has to put there.
Online(ps) == Up(peers) \subseteq devPeers \cup ps
PeersInv ==
    /\ pc = "idle" /\ Enabled(row) => Online(IF ed.at = "rowdel" THEN {ed.p} ELSE {})
    /\ kind = "update" =>
          /\ pc \in {"load", "prehooks", "teardown"} /\ Enabled(row) => Online({})
          /\ (pc \in {"apply", "commit"} \/ After) /\ Enabled(old) /\ ~Switching => Online({})
          /\ pc = "rbpeers" /\ old.on => Online(todo)
          /\ pc = "readd" => Online(todo)
    /\ pc = "rpeers" => IF cfg.on THEN Online(todo)
                        ELSE devPeers \cap Stored(peers) \subseteq todo
    /\ pc = "rforeign" => IF cfg.on THEN Online({}) ELSE devPeers \cap Stored(peers) = {}

\* A kernel device has no others, without a crash.
KernelInv ==
    /\ dev # None /\ ~dev.awg => devPeers \subseteq Up(peers)
    /\ ed.at = "rowdel" => ed.p \notin devPeers

\* A step that leaves nothing unrepaired reaches what the next one relies on.
LEMMA DeviceStep ==
    ASSUME Shape, DeviceInv, Next, ~dirty' PROVE DeviceInv'
<1> USE DEF DeviceInv, Before, After, IsUp, Goto, GotoWith, SaveFails, SaveStep
<1>1. ~Bad(TRUE)
  BY Zenon DEF Bad
<1>2. ASSUME NEW c \in Config, Submit(c) PROVE DeviceInv'
  BY <1>2 DEF Submit
<1>3. CASE Load \/ PreSave
  BY <1>1, <1>3 DEF Load, PreSave
<1>4. CASE Teardown
  BY <1>1, <1>4 DEF Teardown
<1>5. CASE Apply
  BY <1>1, <1>5, AppliedDevice DEF Apply, Shape, Assigned
<1>6. CASE Commit
  BY <1>1, <1>6 DEF Commit
<1>7. CASE RollbackDelete
  BY <1>1, <1>7 DEF RollbackDelete
<1>8. CASE RollbackApply
  BY <1>1, <1>8, AppliedDevice DEF RollbackApply, Shape, Assigned
<1>9. CASE RollbackPeers
  BY <1>1, <1>9 DEF RollbackPeers
<1>10. CASE Finishing
  BY <1>1, <1>10 DEF Finishing, CopyPeers, PostSave, Reload, Readd, SaveDone
<1>11. CASE Deletion
  BY <1>1, <1>11 DEF Deletion, DeleteStart, DeletePeers, DeleteDevice, DeleteRow
<1>12. CASE Restore
  BY <1>1, <1>12 DEF Restore, Boot, Probe, Mark, RestorePeers, RemoveForeign, Shape,
                     TypeOK, Assigned, Booting
<1>13. CASE Editing
  BY <1>1, <1>13 DEF Editing, EditSave, EditDelete, EditSaved, EditDeleteDevice,
                     EditDeleteRow, opVars
<1>14. CASE Crash
  BY <1>14 DEF Crash
<1> QED BY <1>2, <1>3, <1>4, <1>5, <1>6, <1>7, <1>8, <1>9, <1>10, <1>11, <1>12, <1>13,
           <1>14, Groups DEF Saving, Rollback

\* The driver: a mode switch takes the old device away before it configures the
\* new one, forwards and in the rollback.
LEMMA DriverStep ==
    ASSUME Shape, DeviceInv, DriverInv, crashes = 0, Next, ~dirty', crashes' = 0
    PROVE  DriverInv'
<1> USE DEF DriverInv, RowDriver, IsAwg, After, Switching, awgModeChanged, Goto,
            GotoWith, SaveFails
<1>1. ~Bad(TRUE)
  BY Zenon DEF Bad
<1>2. kind = "update" \/ pc \notin SaveStep
  BY DEF Shape, Assigned, Booting
<1>3. cfg # None \/ pc \notin SaveStep
  BY NoneAssumption DEF Shape, Assigned, Config
<1>4. ASSUME NEW c \in Config, Submit(c) PROVE DriverInv'
  BY <1>4 DEF Submit
<1>5. CASE Load
  BY <1>1, <1>2, <1>5 DEF Load, SaveStep
<1>6. CASE PreSave
  BY <1>2, <1>6 DEF PreSave, SaveStep
<1>7. CASE Teardown
  BY <1>1, <1>7 DEF Teardown, DropDevice, Shape, Assigned
<1>8. CASE Apply
  BY <1>1, <1>3, <1>8, AppliedDevice DEF Apply, DeviceInv, Before, Shape, Assigned,
     SaveStep
<1>9. CASE Commit
  BY <1>1, <1>3, <1>9 DEF Commit, DeviceInv, Before, SaveStep
<1>10. CASE RollbackDelete
  BY <1>1, <1>2, <1>10 DEF RollbackDelete, DropDevice, DeviceInv, Before, SaveStep
<1>11. CASE RollbackApply
  BY <1>1, <1>11, AppliedDevice DEF RollbackApply, Shape, Assigned, DeviceInv, IsUp
<1>12. CASE RollbackPeers
  BY <1>1, <1>2, <1>12, NoneAssumption DEF RollbackPeers, DeviceInv, Before, SaveStep,
     Shape, Assigned, Config
<1>13. CASE Finishing
  BY <1>1, <1>2, <1>3, <1>13 DEF Finishing, CopyPeers, PostSave, Reload, Readd,
                                 SaveDone, DeviceInv, SaveStep, Shape, Assigned
<1>14. CASE Deletion
  BY <1>1, <1>14 DEF Deletion, DeleteStart, DeletePeers, DeleteDevice, DeleteRow,
                     DropDevice
<1>15. CASE Restore
  BY <1>15 DEF Restore, Boot, Probe, Mark, RestorePeers, RemoveForeign, Shape, Assigned,
               Booting
<1>16. CASE Editing
  BY <1>16 DEF Editing, EditSave, EditDelete, EditSaved, EditDeleteDevice,
               EditDeleteRow, opVars
<1>17. ~Crash
  BY BoundAssumption DEF Crash, Shape, TypeOK
<1> QED BY <1>4, <1>5, <1>6, <1>7, <1>8, <1>9, <1>10, <1>11, <1>12, <1>13, <1>14, <1>15,
           <1>16, <1>17, Groups DEF Saving, Rollback

\* The hooks run once the row is saved, so that a rollback has none to undo.
LEMMA HooksStep ==
    ASSUME Shape, DeviceInv, HooksInv, crashes = 0, Next, ~dirty', crashes' = 0
    PROVE  HooksInv'
<1> USE DEF HooksInv, DeviceInv, Before, After, Deleting, Enabled, Goto, GotoWith,
            SaveFails
<1>1. ~Bad(TRUE)
  BY Zenon DEF Bad
<1>2. kind = "update" \/ pc \notin SaveStep
  BY DEF Shape, Assigned, Booting
<1>3. row # None => row.on \in BOOLEAN
  BY DEF Shape, TypeOK, Config
<1>4. ASSUME NEW c \in Config, Submit(c) PROVE HooksInv'
  BY <1>4 DEF Submit
<1>5. CASE Load \/ PreSave
  BY <1>1, <1>2, <1>3, <1>5 DEF Load, PreSave, SaveStep
<1>6. CASE Teardown \/ Apply \/ Commit
  BY <1>1, <1>2, <1>6 DEF Teardown, Apply, Commit, SaveStep
<1>7. CASE Rollback
  BY <1>1, <1>2, <1>3, <1>7 DEF Rollback, RollbackDelete, RollbackApply, RollbackPeers,
                                SaveStep
<1>8. CASE CopyPeers \/ PostSave
  BY <1>1, <1>2, <1>8 DEF CopyPeers, PostSave, SaveStep
<1>9. CASE Reload \/ Readd
  BY <1>1, <1>2, <1>9 DEF Reload, Readd, SaveDone, SaveStep
<1>10. CASE Deletion
  BY <1>1, <1>10 DEF Deletion, DeleteStart, DeletePeers, DeleteDevice, DeleteRow
<1>11. CASE Restore
  BY <1>11 DEF Restore, Boot, Probe, Mark, RestorePeers, RemoveForeign, Shape, Assigned,
               Booting
<1>12. CASE Editing
  BY <1>12 DEF Editing, EditSave, EditDelete, EditSaved, EditDeleteDevice,
               EditDeleteRow, opVars
<1>13. ~Crash
  BY BoundAssumption DEF Crash, Shape, TypeOK
<1> QED BY <1>4, <1>5, <1>6, <1>7, <1>8, <1>9, <1>10, <1>11, <1>12, <1>13, Groups DEF
           Saving, Finishing

\* An edit and an operation that meet are marked as an overlap.
LEMMA EditStep ==
    ASSUME Shape, EditInv, Next, ~dirty' PROVE EditInv'
<1> USE DEF EditInv
<1>1. ~Bad(TRUE)
  BY Zenon DEF Bad
<1>2. ASSUME NEW c \in Config, Submit(c) PROVE EditInv'
  BY <1>2 DEF Submit
<1>3. CASE Load \/ PreSave \/ Teardown \/ Apply \/ Commit
  BY <1>1, <1>3 DEF Load, PreSave, Teardown, Apply, Commit
<1>4. CASE Rollback \/ Finishing
  BY <1>4 DEF Rollback, RollbackDelete, RollbackApply, RollbackPeers, Finishing,
              CopyPeers, PostSave, Reload, Readd
<1>5. CASE Deletion
  BY <1>1, <1>5 DEF Deletion, DeleteStart, DeletePeers, DeleteDevice, DeleteRow
<1>6. CASE Restore
  BY <1>6 DEF Restore, Boot, Probe, Mark, RestorePeers, RemoveForeign, Shape, Assigned,
              Booting
<1>7. CASE Editing
 <2>1. Overlap => pc = "idle"
   BY DEF Overlap
 <2>2. NoEdit.at = "none"
   BY DEF NoEdit
 <2>3. ASSUME NEW p \in Peer, NEW on \in BOOLEAN, EditSave(p, on) PROVE EditInv'
   BY <2>1, <2>3 DEF EditSave, opVars
 <2>4. ASSUME NEW p \in Peer, EditDelete(p) PROVE EditInv'
   BY <2>1, <2>4 DEF EditDelete, opVars, NoEdit
 <2>5. CASE EditSaved \/ EditDeleteRow
   BY <2>2, <2>5 DEF EditSaved, EditDeleteRow
 <2>6. CASE EditDeleteDevice
  <3>1. [ed EXCEPT !.at = "rowdel"].at = "rowdel"
    BY DEF Shape, TypeOK, Edit
  <3> QED BY <3>1, <2>1, <2>2, <2>6, <1>1 DEF EditDeleteDevice, opVars
 <2> QED BY <2>3, <2>4, <2>5, <2>6, <1>7 DEF Editing
<1>8. CASE Crash
  BY <1>8 DEF Crash, NoEdit
<1> QED BY <1>2, <1>3, <1>4, <1>5, <1>6, <1>7, <1>8, Groups DEF Saving

\* A row of the snapshot with the parameters of the interface.
LEMMA CopiedRow ==
    ASSUME Shape, pc = "copy", NEW p \in todo
    PROVE  /\ p \in Peer /\ snap[p] # None
           /\ [snap[p] EXCEPT !.awg = cfg.awg] # None
           /\ [snap[p] EXCEPT !.awg = cfg.awg].on = snap[p].on
           /\ [snap[p] EXCEPT !.awg = cfg.awg].awg = cfg.awg
<1>1. p \in Peer /\ snap[p] # None /\ cfg \in Config
  BY DEF Shape, TypeOK, Assigned, Stored, SaveStep
<1>2. snap[p] \in Config /\ cfg.awg \in BOOLEAN
  BY <1>1, ConfigExcept DEF Shape, TypeOK, PeerRow, Config
<1>3. \A r \in Config : /\ [r EXCEPT !.awg = cfg.awg] \in Config
                       /\ [r EXCEPT !.awg = cfg.awg].on = r.on
                       /\ [r EXCEPT !.awg = cfg.awg].awg = cfg.awg
  BY <1>2 DEF Config
<1>4. None \notin Config
  BY NoneAssumption DEF Config
<1> QED BY <1>1, <1>2, <1>3, <1>4

\* Without an overlap nobody changes the peers between the snapshot and its use.
LEMMA SnapStep ==
    ASSUME Shape, DeviceInv, EditInv, SnapInv, Next, ~dirty' PROVE SnapInv'
<1> USE DEF SnapInv, Before, Stored, Goto, GotoWith, SaveFails
<1>1. ~Bad(TRUE)
  BY Zenon DEF Bad
<1>2. ASSUME NEW c \in Config, Submit(c) PROVE SnapInv'
  BY <1>2 DEF Submit
<1>3. CASE Load
  BY <1>1, <1>3 DEF Load, Shape, TypeOK
<1>4. CASE PreSave \/ Teardown \/ Apply \/ Commit
  BY <1>1, <1>4 DEF PreSave, Teardown, Apply, Commit
<1>5. CASE Rollback
  BY <1>5 DEF Rollback, RollbackDelete, RollbackApply, RollbackPeers
<1>6. CASE CopyPeers
  BY <1>1, <1>6, CopiedRow DEF CopyPeers, CopyPeer, Shape, TypeOK
<1>7. CASE PostSave \/ Reload \/ Readd
  BY <1>7 DEF PostSave, Reload, Readd, SaveDone
<1>8. CASE Deletion
  BY <1>8 DEF Deletion, DeleteStart, DeletePeers, DeleteDevice, DeleteRow
<1>9. CASE Restore
  BY <1>9 DEF Restore, Boot, Probe, Mark, RestorePeers, RemoveForeign
<1>10. CASE Editing
 <2>1. ed.at # "none" => pc = "idle"
   BY DEF EditInv
 <2> QED BY <2>1, <1>10 DEF Editing, EditSave, EditDelete, EditSaved, EditDeleteDevice,
            EditDeleteRow, opVars
<1>11. CASE Crash
  BY <1>11 DEF Crash
<1> QED BY <1>2, <1>3, <1>4, <1>5, <1>6, <1>7, <1>8, <1>9, <1>10, <1>11, Groups DEF
           Saving, Finishing

\* The loop of step 5 visits every stored peer, because each is in the snapshot.
LEMMA ParamsStep ==
    ASSUME Shape, DeviceInv, EditInv, SnapInv, ParamsInv,
           crashes = 0, Next, ~dirty', crashes' = 0
    PROVE  ParamsInv'
<1> USE DEF ParamsInv, Before, Deleting, Stored, Goto, GotoWith, SaveFails
<1>1. ~Bad(TRUE)
  BY Zenon DEF Bad
<1>2. kind = "update" \/ pc \notin SaveStep
  BY DEF Shape, Assigned, Booting
<1>3. ASSUME NEW c \in Config, Submit(c) PROVE ParamsInv'
  BY <1>3 DEF Submit
<1>4. CASE Load \/ PreSave \/ Teardown \/ Apply
  BY <1>1, <1>2, <1>4 DEF Load, PreSave, Teardown, Apply, SaveStep
<1>5. CASE Commit
 <2>1. cfg # None
   BY <1>5, NoneAssumption DEF Commit, Shape, Assigned, SaveStep, Config
 <2> QED BY <2>1, <1>5 DEF Commit, SnapInv, DeviceInv
<1>6. CASE Rollback
  BY <1>2, <1>6 DEF Rollback, RollbackDelete, RollbackApply, RollbackPeers, SaveStep
<1>7. CASE CopyPeers
 <2>1. row = cfg /\ cfg # None /\ pc = "copy" /\ UNCHANGED <<row, cfg, kind>>
   BY <1>7, NoneAssumption DEF CopyPeers, DeviceInv, After, Shape, Assigned, SaveStep,
                               Config
 <2>2. ASSUME NEW p \in todo, todo' = todo \ {p}, CopyPeer(p), UNCHANGED pc PROVE ParamsInv'
  <3>1. p \in Peer /\ peers'[p].awg = cfg.awg /\ \A q \in Peer \ {p} : peers'[q] = peers[q]
    BY <2>1, <2>2, CopiedRow DEF CopyPeer, Shape, TypeOK
  <3> QED BY <3>1, <2>1, <2>2
 <2>3. CASE todo = {} /\ Goto("posthooks") /\ UNCHANGED peers
   BY <2>1, <2>3
 <2> QED BY <2>2, <2>3, <1>1, <1>7 DEF CopyPeers
<1>8. CASE PostSave \/ Reload \/ Readd
  BY <1>1, <1>2, <1>8 DEF PostSave, Reload, Readd, SaveDone, SaveStep, DeviceInv, After
<1>9. CASE Deletion
  BY <1>1, <1>9 DEF Deletion, DeleteStart, DeletePeers, DeleteDevice, DeleteRow, Shape,
                    TypeOK
<1>10. CASE Restore
  BY <1>10 DEF Restore, Boot, Probe, Mark, RestorePeers, RemoveForeign, Shape, Assigned,
               Booting
<1>11. CASE Editing
 <2>1. CASE EditSaved
  <3>1. ed.p \in Peer /\ ed.awg = row.awg /\ pc = "idle" /\ row # None
    BY <2>1 DEF EditSaved, EditInv, Shape, Assigned
  <3>2. UNCHANGED peers \/ peers' = [peers EXCEPT ![ed.p] = [on |-> ed.on, awg |-> ed.awg]]
    BY <2>1 DEF EditSaved
  <3>3. \A p \in Peer : peers'[p] = peers[p] \/ peers'[p].awg = row.awg
    BY <3>1, <3>2 DEF Shape, TypeOK
  <3> QED BY <3>1, <3>3, <2>1 DEF EditSaved, opVars
 <2>2. CASE EditDeleteRow
   BY <2>2, <1>1 DEF EditDeleteRow, EditInv, opVars, Shape, TypeOK
 <2> QED BY <2>1, <2>2, <1>11 DEF Editing, EditSave, EditDelete, EditDeleteDevice,
            opVars
<1>12. ~Crash
  BY BoundAssumption DEF Crash, Shape, TypeOK
<1> QED BY <1>3, <1>4, <1>5, <1>6, <1>7, <1>8, <1>9, <1>10, <1>11, <1>12, Groups DEF
           Saving, Finishing

\* A peer is put on the device, or passed over: the loop is one nearer to its end.
LEMMA PutOnline ==
    ASSUME NEW p \in todo, UNCHANGED peers, todo' = todo \ {p},
           \/ UNCHANGED devPeers /\ p \notin Up(peers)
           \/ \E r : PutPeer(p, r) /\ (p \in Up(peers) => r.on)
    PROVE  (Online(todo) => Online(todo)') /\ (Online({}) => Online({})')
  BY DEF Online, Up, PutPeer

\* Writing the parameters to a peer turns none on or off.
LEMMA CopiedUp ==
    ASSUME Shape, SnapInv, pc = "copy", NEW p \in todo, CopyPeer(p)
    PROVE  Up(peers)' = Up(peers)
<1>1. /\ p \in Peer /\ peers'[p] # None /\ peers'[p].on = snap[p].on /\ snap[p] # None
      /\ \A q \in Peer \ {p} : peers'[q] = peers[q]
  BY CopiedRow DEF CopyPeer, Shape, TypeOK
<1>2. old # None
  BY <1>1 DEF SnapInv, Stored
<1>3. peers[p] # None /\ peers[p].on = snap[p].on
  BY <1>1, <1>2 DEF SnapInv
<1> QED BY <1>1, <1>3 DEF Up

\* A mode switch takes the peers off the device; then the loops of the rollback and
\* of step 7 bring all enabled ones back, and a restore visits every stored peer.
LEMMA PeersStep ==
    ASSUME Shape, DeviceInv, EditInv, SnapInv, PeersInv, Next, ~dirty'
    PROVE  PeersInv'
<1> USE DEF PeersInv, After, Enabled, Switching, Goto, GotoWith, SaveFails
<1>1. ~Bad(TRUE)
  BY Zenon DEF Bad
<1>2. ASSUME NEW c \in Config, Submit(c) PROVE PeersInv'
  BY <1>2 DEF Submit, EditInv, Online, Up
<1>3. CASE Load \/ PreSave
 <2>1. Before => old = row
   BY DEF DeviceInv
 <2>2. CASE Load
   BY <2>2, <1>1 DEF Load, Online, Up
 <2>3. CASE PreSave
   BY <2>1, <2>3 DEF PreSave, Online, Up, Before, EditInv
 <2> QED BY <2>2, <2>3, <1>3
<1>4. CASE Teardown
  BY <1>1, <1>4 DEF Teardown, Shape, Assigned
<1>5. CASE Apply \/ Commit
  BY <1>1, <1>5 DEF Apply, Commit, Online, Up
<1>6. CASE RollbackDelete
  BY <1>1, <1>6 DEF RollbackDelete, DeviceInv, Before
<1>7. CASE RollbackApply
 <2>1. Up(peers) \subseteq Stored(snap)
   BY <1>7, NoneAssumption DEF RollbackApply, SnapInv, Before, Up, Stored, Shape,
                               Assigned, Config
 <2>2. /\ pc' = "rbpeers" /\ todo' = IF old.on THEN Stored(snap) ELSE {}
       /\ UNCHANGED <<old, peers, kind>>
   BY <1>1, <1>7 DEF RollbackApply
 <2> QED BY <2>1, <2>2 DEF Online, Up
<1>8. CASE RollbackPeers
 <2>1. CASE \E p \in todo : todo' = todo \ {p} /\ PutPeer(p, snap[p]) /\ UNCHANGED pc
  <3>1. PICK p \in todo : todo' = todo \ {p} /\ PutPeer(p, snap[p])
    BY <2>1
  <3>2. p \in Up(peers) => snap[p].on
    BY <1>8, NoneAssumption DEF RollbackPeers, Up, SnapInv, Before, Shape, Assigned,
                                Config
  <3> QED BY <3>1, <3>2, <2>1, <1>8, PutOnline DEF RollbackPeers
 <2>2. CASE todo = {} /\ SaveFails /\ UNCHANGED <<todo, devPeers>>
   BY <2>2, <1>8 DEF RollbackPeers, Online, Up, DeviceInv, EditInv, Before
 <2> QED BY <2>1, <2>2, <1>1, <1>8 DEF RollbackPeers
<1>9. CASE CopyPeers
 <2>1. Up(peers)' = Up(peers)
   BY <1>1, <1>9, CopiedUp DEF CopyPeers, Up
 <2> QED BY <2>1, <1>1, <1>9 DEF CopyPeers, Online
<1>10. CASE PostSave
  BY <1>1, <1>10 DEF PostSave, Online, Up
<1>11. CASE Reload
  BY <1>1, <1>11 DEF Reload, SaveDone, NeedsPeers, Online, Up, Stored, DeviceInv,
                     EditInv
<1>12. CASE Readd
 <2>1. CASE \E p \in todo : /\ todo' = todo \ {p} /\ UNCHANGED pc
                            /\ IF peers[p] = None THEN UNCHANGED devPeers ELSE PutPeer(p, peers[p])
  <3>1. PICK p \in todo : /\ todo' = todo \ {p}
                          /\ IF peers[p] = None THEN UNCHANGED devPeers ELSE PutPeer(p, peers[p])
    BY <2>1
  <3>2. UNCHANGED <<peers, kind, cfg, old, pc>>
    BY <2>1, <1>12 DEF Readd
  <3>3. p \in Up(peers) => peers[p] # None /\ peers[p].on
    BY DEF Up
  <3>4. (Online(todo) => Online(todo)') /\ (Online({}) => Online({})')
    BY <3>1, <3>2, <3>3, PutOnline
  <3> QED BY <3>2, <3>4, <1>12 DEF Readd
 <2>2. CASE todo = {} /\ SaveDone /\ UNCHANGED devPeers
   BY <2>2, <1>12 DEF Readd, SaveDone, Online, Up, Stored, DeviceInv, EditInv
 <2> QED BY <2>1, <2>2, <1>1, <1>12 DEF Readd
<1>13. CASE Deletion
 <2>1. pc' = "idle" => UNCHANGED <<row, peers, devPeers, ed>> \/ row' = None
   BY <1>1, <1>13 DEF Deletion, DeleteStart, DeletePeers, DeleteDevice, DeleteRow
 <2>2. pc' \in {"idle", "dpeers", "ddev", "drow"} /\ pc \in {"idle", "dpeers", "ddev", "drow"}
   BY <1>1, <1>13 DEF Deletion, DeleteStart, DeletePeers, DeleteDevice, DeleteRow
 <2>3. pc' = "idle" => pc = "idle" \/ row' = None
   BY <1>1, <1>13 DEF Deletion, DeleteStart, DeletePeers, DeleteDevice, DeleteRow
 <2> QED BY <2>1, <2>2, <2>3 DEF Online, Up
<1>14. CASE Restore
 <2>1. CASE Boot \/ Probe \/ Mark
   BY <2>1 DEF Boot, Probe, Mark
 <2>2. CASE RestorePeers
   BY <2>2, <1>1 DEF RestorePeers, Online, Up, Stored, PutPeer
 <2>3. CASE RemoveForeign
   BY <2>3, <1>1 DEF RemoveForeign, Online, Up, Stored, DeviceInv, EditInv
 <2> QED BY <2>1, <2>2, <2>3, <1>14 DEF Restore
<1>15. CASE Editing
 <2>0. pc = "idle" /\ UNCHANGED <<pc, row>>
   BY <1>15 DEF Editing, EditSave, EditDelete, EditSaved, EditDeleteDevice,
                EditDeleteRow, Overlap, EditInv, opVars
 <2>1. CASE (\E p \in Peer, on \in BOOLEAN : EditSave(p, on)) \/ (\E p \in Peer : EditDelete(p))
   BY <2>0, <2>1 DEF EditSave, EditDelete, Online, Up, NoEdit
 <2>2. CASE EditSaved
  <3>1. ed.p \in Peer /\ NoEdit.at = "none"
    BY <2>2 DEF EditSaved, Shape, Assigned, NoEdit
  <3>2. \/ UNCHANGED <<peers, devPeers>>
        \/ /\ PutPeer(ed.p, ed)
           /\ peers' = [peers EXCEPT ![ed.p] = [on |-> ed.on, awg |-> ed.awg]]
    BY <2>2, <1>1 DEF EditSaved
  <3>3. ed' = NoEdit /\ (Enabled(row) => Online({}))
    BY <2>0, <2>2 DEF EditSaved
  <3> QED BY <3>1, <3>2, <3>3, <2>0 DEF Online, Up, PutPeer, Shape, TypeOK
 <2>3. CASE EditDeleteDevice
  <3>1. /\ NoEdit.at = "none"
        /\ [ed EXCEPT !.at = "rowdel"].at = "rowdel" /\ [ed EXCEPT !.at = "rowdel"].p = ed.p
    BY DEF NoEdit, Shape, TypeOK, Edit
  <3> QED BY <3>1, <2>0, <2>3, <1>1 DEF EditDeleteDevice, Online, Up
 <2>4. CASE EditDeleteRow
   BY <2>0, <2>4, <1>1 DEF EditDeleteRow, Online, Up, NoEdit, Shape, TypeOK, Assigned
 <2> QED BY <2>1, <2>2, <2>3, <2>4, <1>15 DEF Editing
<1>16. CASE Crash
  BY <1>16 DEF Crash
<1> QED BY <1>2, <1>3, <1>4, <1>5, <1>6, <1>7, <1>8, <1>9, <1>10, <1>11, <1>12, <1>13,
           <1>14, <1>15, <1>16, Groups DEF Saving, Finishing, Rollback

\* A kernel device takes an enabled peer only.
LEMMA PutKernel ==
    ASSUME KernelInv, UNCHANGED <<peers, dev, ed>>, ed.at = "none",
           NEW p, NEW r, PutPeer(p, r), r.on => p \in Up(peers)
    PROVE  KernelInv'
  BY DEF KernelInv, PutPeer, Up

\* Nothing puts a peer on a kernel device that is not stored as enabled.
LEMMA KernelStep ==
    ASSUME Shape, DriverInv, EditInv, SnapInv, KernelInv,
           crashes = 0, Next, ~dirty', crashes' = 0
    PROVE  KernelInv'
<1> USE DEF KernelInv
<1>1. ~Bad(TRUE)
  BY Zenon DEF Bad
<1>2. kind = "update" \/ pc \notin SaveStep
  BY DEF Shape, Assigned, Booting
<1>3. ASSUME UNCHANGED <<peers, dev, devPeers, ed>> PROVE KernelInv'
  BY <1>3 DEF Up
<1>4. ASSUME NEW c \in Config, Submit(c) PROVE KernelInv'
  BY <1>3, <1>4 DEF Submit
<1>5. CASE Load \/ PreSave \/ Commit
  BY <1>3, <1>5 DEF Load, PreSave, Commit
<1>6. CASE Teardown \/ RollbackDelete \/ DeleteDevice
 <2>1. (DropDevice \/ UNCHANGED <<dev, devPeers>>) /\ UNCHANGED <<peers, ed>>
   BY <1>1, <1>6 DEF Teardown, RollbackDelete, DeleteDevice
 <2> QED BY <2>1, <1>3 DEF DropDevice
<1>7. CASE Apply \/ RollbackApply
 <2>1. /\ dev' # None => dev = None \/ dev'.awg = dev.awg
       /\ UNCHANGED <<peers, devPeers, ed>>
   BY <1>7, AppliedDevice DEF Apply, RollbackApply, Shape, Assigned, SaveStep
 <2> QED BY <2>1 DEF Up, Shape, TypeOK
<1>8. CASE RollbackPeers
 <2>1. pc = "rbpeers" /\ UNCHANGED <<peers, dev, ed>> /\ ed.at = "none"
   BY <1>8 DEF RollbackPeers, EditInv
 <2>2. ASSUME NEW p \in todo, PutPeer(p, snap[p]) PROVE KernelInv'
  <3>1. p \in Peer /\ snap[p] # None /\ old # None
    BY <2>1, NoneAssumption DEF Shape, TypeOK, Assigned, Stored, Config
  <3>2. snap[p].on => p \in Up(peers)
    BY <3>1, <2>1 DEF SnapInv, Before, Up
  <3> QED BY <3>2, <2>1, <2>2, PutKernel
 <2> QED BY <2>1, <2>2, <1>1, <1>3, <1>8 DEF RollbackPeers
<1>9. CASE CopyPeers
 <2>1. UNCHANGED <<dev, devPeers, ed>> /\ Up(peers)' = Up(peers)
   BY <1>1, <1>9, CopiedUp DEF CopyPeers
 <2> QED BY <2>1
<1>10. CASE PostSave \/ Reload
  BY <1>3, <1>10 DEF PostSave, Reload
<1>11. CASE Readd
 <2>1. pc = "readd" /\ UNCHANGED <<peers, dev, ed>> /\ ed.at = "none"
   BY <1>11 DEF Readd, EditInv
 <2>2. ASSUME NEW p \in todo, peers[p] # None, PutPeer(p, peers[p]) PROVE KernelInv'
  <3>1. peers[p].on => p \in Up(peers)
    BY <2>2 DEF Shape, TypeOK, Up
  <3> QED BY <3>1, <2>1, <2>2, PutKernel
 <2> QED BY <2>1, <2>2, <1>1, <1>3, <1>11 DEF Readd
<1>12. CASE DeleteStart \/ DeletePeers
 <2>1. CASE DeleteStart
   BY <2>1, <1>3 DEF DeleteStart
 <2>2. ASSUME NEW p \in todo, devPeers' = devPeers \ {p}, peers' = [peers EXCEPT ![p] = None],
              UNCHANGED <<dev, ed>>
       PROVE  KernelInv'
   BY <2>2 DEF Up, Shape, TypeOK
 <2> QED BY <2>1, <2>2, <1>1, <1>3, <1>12 DEF DeletePeers
<1>13. CASE DeleteRow
 <2>1. devPeers = {}
   BY <1>13 DEF DeleteRow, DriverInv, Shape, TypeOK
 <2> QED BY <2>1, <1>13 DEF DeleteRow, Up
<1>14. CASE Restore
  BY <1>2, <1>14 DEF Restore, Boot, Probe, Mark, RestorePeers, RemoveForeign, Shape,
                     Assigned, Booting
<1>15. CASE Editing
 <2>2. CASE (\E p \in Peer, on \in BOOLEAN : EditSave(p, on)) \/ (\E p \in Peer : EditDelete(p))
  <3>1. UNCHANGED <<peers, dev, devPeers>> /\ ed'.at # "rowdel"
   <4>1. \A p : [NoEdit EXCEPT !.at = "devdel", !.p = p].at = "devdel"
     BY DEF NoEdit
   <4>2. ASSUME NEW p \in Peer, EditDelete(p) PROVE ed'.at = "devdel"
     BY <4>1, <4>2 DEF EditDelete
   <4>3. ASSUME NEW p \in Peer, NEW on \in BOOLEAN, EditSave(p, on) PROVE ed'.at = "save"
     BY <4>3 DEF EditSave
   <4> QED BY <4>2, <4>3, <2>2 DEF EditSave, EditDelete
  <3> QED BY <3>1 DEF Up
 <2>3. CASE EditSaved
  <3>1. ed.p \in Peer /\ NoEdit.at = "none"
    BY <2>3 DEF EditSaved, Shape, Assigned, NoEdit
  <3>2. \/ UNCHANGED <<peers, devPeers>>
        \/ /\ PutPeer(ed.p, ed)
           /\ peers' = [peers EXCEPT ![ed.p] = [on |-> ed.on, awg |-> ed.awg]]
    BY <2>3, <1>1 DEF EditSaved
  <3>3. [on |-> ed.on, awg |-> ed.awg] # None /\ [on |-> ed.on, awg |-> ed.awg].on = ed.on
    BY NoneAssumption DEF Shape, TypeOK, Edit
  <3>4. UNCHANGED dev /\ ed' = NoEdit
    BY <2>3 DEF EditSaved
  <3> QED BY <3>1, <3>2, <3>3, <3>4 DEF Up, PutPeer, Shape, TypeOK
 <2>4. CASE EditDeleteDevice
  <3>1. /\ NoEdit.at = "none"
        /\ [ed EXCEPT !.at = "rowdel"].at = "rowdel" /\ [ed EXCEPT !.at = "rowdel"].p = ed.p
    BY DEF NoEdit, Shape, TypeOK, Edit
  <3> QED BY <3>1, <2>4, <1>1 DEF EditDeleteDevice, Up
 <2>5. CASE EditDeleteRow
   BY <2>5, <1>1 DEF EditDeleteRow, Up, NoEdit, Shape, TypeOK, Assigned
 <2> QED BY <2>2, <2>3, <2>4, <2>5, <1>15 DEF Editing
<1>16. ~Crash
  BY BoundAssumption DEF Crash, Shape, TypeOK
<1> QED BY <1>4, <1>5, <1>6, <1>7, <1>8, <1>9, <1>10, <1>11, <1>12, <1>13, <1>14, <1>15,
           <1>16, Groups DEF Saving, Finishing, Rollback, Deletion

-----------------------------------------------------------------------------
(* The invariant and the theorems.                                         *)

\* What holds while nothing is left unrepaired, and what holds until the portal
\* crashes for the first time.
CleanInv == DeviceInv /\ EditInv /\ SnapInv /\ PeersInv
CrashFreeInv == DriverInv /\ HooksInv /\ ParamsInv /\ KernelInv

IInv ==
    /\ Shape
    /\ ~dirty => CleanInv
    /\ ~dirty /\ crashes = 0 => CrashFreeInv

\* A fresh database satisfies the invariant.
LEMMA Initially == Init => IInv
<1> SUFFICES ASSUME Init PROVE IInv
  OBVIOUS
<1> USE DEF Init, NoEdit
<1>1. TypeOK
 <2>1. /\ row \in Config \cup {None} /\ peers \in [Peer -> PeerRow \cup {None}]
       /\ dev \in Device \cup {None} /\ devPeers \in SUBSET Peer
       /\ dev = None => devPeers = {}
   OBVIOUS
 <2>2. /\ posted \in BOOLEAN /\ pc \in Step /\ kind \in {"update", "restore", "missing"}
       /\ cfg \in Config \cup {None} /\ old \in Config \cup {None}
       /\ snap \in [Peer -> PeerRow \cup {None}] /\ todo \in SUBSET Peer
   BY DEF Step
 <2>3. ed \in Edit /\ faults \in 0..MaxFault /\ crashes \in 0..MaxCrash /\ dirty \in BOOLEAN
  <3>1. NoEdit \in Edit
    BY DEF Edit, NoEdit
  <3>2. 0 \in 0..MaxFault /\ 0 \in 0..MaxCrash
    BY BoundAssumption
  <3> QED BY <3>1, <3>2
 <2> QED BY <2>1, <2>2, <2>3 DEF TypeOK
<1>2. Assigned
  BY DEF Assigned, Booting, SaveStep
<1>3. CleanInv
  BY DEF CleanInv, DeviceInv, EditInv, SnapInv, PeersInv, Before, After, Enabled
<1>4. CrashFreeInv
  BY DEF CrashFreeInv, DriverInv, HooksInv, ParamsInv, KernelInv, RowDriver, Before,
         After, Deleting, Stored
<1> QED BY <1>1, <1>2, <1>3, <1>4 DEF IInv, Shape

\* A boot forgets what went wrong, but then no operation is under way.
LEMMA DownIsClean ==
    ASSUME Shape, pc = "down" PROVE CleanInv
<1>1. ed.at = "none"
  BY DEF Shape, Assigned, Booting
<1> QED BY <1>1 DEF CleanInv, DeviceInv, EditInv, SnapInv, PeersInv, Before, After

\* Every step keeps the invariant.
LEMMA Inductive == IInv /\ [Next]_vars => IInv'
<1> SUFFICES ASSUME IInv, Next PROVE IInv'
 <2>1. UNCHANGED vars => (IInv => IInv')
   BY DEF vars, IInv, Shape, TypeOK, Assigned, Booting, CleanInv, CrashFreeInv,
          DeviceInv, EditInv, SnapInv, PeersInv, DriverInv, HooksInv, ParamsInv,
          KernelInv, RowDriver, IsUp, IsAwg, Before, After, Deleting, Switching,
          awgModeChanged, Online, Up, Enabled, Stored
 <2> QED BY <2>1
<1>1. Shape'
  BY TypeStep, AssignedStep DEF IInv, Shape
<1>2. ~dirty' => CleanInv
  BY FaultStep, DownIsClean DEF IInv, Shape
<1>3. ~dirty' => CleanInv'
  BY <1>2, DeviceStep, EditStep, SnapStep, PeersStep DEF CleanInv, IInv
<1>4. ASSUME ~dirty', crashes' = 0 PROVE CrashFreeInv'
 <2>1. crashes = 0
   BY <1>4, FrameStep, BoundAssumption DEF Frame, Crash, IInv, Shape, TypeOK
 <2>2. pc # "down"
   BY <2>1 DEF IInv, Shape, Assigned, Booting
 <2>3. ~dirty
   BY <2>2, <1>4, FaultStep DEF IInv, Shape
 <2> QED BY <2>1, <2>3, <1>2, <1>4, DriverStep, HooksStep, ParamsStep, KernelStep DEF
            CleanInv, CrashFreeInv, IInv
<1> QED BY <1>1, <1>3, <1>4 DEF IInv

\* The inductive invariant of the interface manager: what each step of an operation
\* has read and reached, in every reachable state.
THEOREM Invariance == Spec => []IInv
  BY Initially, Inductive, PTL DEF Spec

\* Type correctness, and a device that is gone has no peers.
THEOREM Typed == Spec => []TypeOK
<1>1. IInv => TypeOK
  BY DEF IInv, Shape
<1> QED BY <1>1, Invariance, PTL

\* However its steps fail, an operation of CreateInterface, UpdateInterface,
\* DeleteInterface or the restore that leaves nothing unrepaired ends with the device
\* present and in the link state the row asks for.
THEOREM DeviceFollowsRow == Spec => []DeviceMatchesRow
<1>1. IInv => DeviceMatchesRow
  BY DEF IInv, CleanInv, DeviceInv, IsUp, DeviceMatchesRow, Settled
<1> QED BY <1>1, Invariance, PTL

\* Until the first crash the device runs the driver of the row, or is gone with it,
\* also after a mode switch that was rolled back.
THEOREM DriverFollowsRow == Spec => []DriverMatchesRow
<1>1. IInv => DriverMatchesRow
  BY DEF IInv, CrashFreeInv, DriverInv, RowDriver, IsAwg, DriverMatchesRow, Settled
<1> QED BY <1>1, Invariance, PTL

\* The enabled peers of an enabled interface are on its device whenever the portal is
\* at rest; a kernel device has no others until the first crash.
THEOREM PeersFollowRows == Spec => []PeersMatchRows
<1>1. IInv => PeersMatchRows
 <2> SUFFICES ASSUME IInv, Settled, Enabled(row)
              PROVE  /\ Up(peers) \subseteq devPeers
                     /\ ~dev.awg /\ crashes = 0 => devPeers = Up(peers)
   BY DEF PeersMatchRows
 <2>1. dev # None
   BY DEF IInv, CleanInv, DeviceInv, IsUp, Settled, Enabled
 <2>2. Up(peers) \subseteq devPeers
   BY DEF IInv, CleanInv, PeersInv, Online, Settled
 <2>3. ~dev.awg /\ crashes = 0 => devPeers \subseteq Up(peers)
   BY <2>1 DEF IInv, CrashFreeInv, KernelInv, Settled
 <2> QED BY <2>2, <2>3
<1> QED BY <1>1, Invariance, PTL

\* Until the first crash the AWG parameters stored with every peer are those of the
\* interface: the propagation of saveInterface misses none.
THEOREM PeerParamsFollowRow == Spec => []PeerParamsMatchRow
<1>1. IInv => PeerParamsMatchRow
  BY DEF IInv, CrashFreeInv, ParamsInv, PeerParamsMatchRow, Settled
<1> QED BY <1>1, Invariance, PTL

\* Until the first crash the post hook that ran last is the one for the state the row
\* describes, also after a failed and rolled back save.
THEOREM HooksFollowRow == Spec => []HooksMatchRow
<1>1. IInv => HooksMatchRow
  BY DEF IInv, CrashFreeInv, HooksInv, HooksMatchRow, Settled
<1> QED BY <1>1, Invariance, PTL

\* RestoreInterfaceState that reports no error leaves stored peers only on the device:
\* every enabled one of an enabled interface, none of a disabled one.
THEOREM RestoreLeavesStoredPeers == Spec => RestoreHeals
<1> DEFINE Heals == pc = "rforeign" /\ pc' = "idle" /\ ~dirty' =>
          /\ devPeers' \subseteq Stored(peers)
          /\ IF row.on THEN Up(peers) \subseteq devPeers' ELSE devPeers' = {}
<1>1. IInv /\ [Next]_vars => [Heals]_vars
 <2> SUFFICES ASSUME IInv, Next, pc = "rforeign", pc' = "idle", ~dirty'
              PROVE  /\ devPeers' \subseteq Stored(peers)
                     /\ IF row.on THEN Up(peers) \subseteq devPeers' ELSE devPeers' = {}
   OBVIOUS
 <2>1. ~Bad(TRUE)
   BY Zenon DEF Bad
 <2>2. RemoveForeign
  <3> USE DEF IInv, Shape, TypeOK
  <3>1. ~(Saving \/ Rollback \/ Finishing \/ Deletion)
    BY DEF Saving, Submit, Load, PreSave, Teardown, Apply, Commit, Rollback,
           RollbackDelete, RollbackApply, RollbackPeers, Finishing, CopyPeers, PostSave,
           Reload, Readd, Deletion, DeleteStart, DeletePeers, DeleteDevice, DeleteRow
  <3>2. ~Editing /\ ~Crash
    BY DEF Editing, EditSave, EditDelete, EditSaved, EditDeleteDevice, EditDeleteRow,
           opVars, Crash, Goto
  <3>3. ~(Boot \/ Probe \/ Mark \/ RestorePeers)
    BY DEF Boot, Probe, Mark, RestorePeers
  <3> QED BY <3>1, <3>2, <3>3, Groups DEF Restore
 <2>3. devPeers' = devPeers \cap Stored(peers)
   BY <2>1, <2>2 DEF RemoveForeign
 <2>4. ~dirty
   BY FaultStep DEF IInv, Shape
 <2>5. /\ row = cfg
       /\ IF cfg.on THEN Up(peers) \subseteq devPeers ELSE devPeers \cap Stored(peers) = {}
   BY <2>4 DEF IInv, CleanInv, DeviceInv, PeersInv, Online, After
 <2> QED BY <2>3, <2>5 DEF Up, Stored
<1> QED BY <1>1, Invariance, PTL DEF Spec, RestoreHeals
=============================================================================
