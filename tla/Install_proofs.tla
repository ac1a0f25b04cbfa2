---------------------------- MODULE Install_proofs ----------------------------
(***************************************************************************)
(* The safety of what gets installed, for any number of failures and a     *)
(* crash between any two steps: first Pak Rat's packages, then Leaf.       *)
(*                                                                         *)
(* Packages, for every set of them, as long as no transaction starts in    *)
(* the middle of a recovery (Races is FALSE; with races the properties do  *)
(* not hold).  IInv says who may act while whom: an install and everything *)
(* behind the gate has the disk to itself, only the completion of an       *)
(* uninstall may be run by both at once; and what lies on the card at each *)
(* place.                                                                  *)
(*                                                                         *)
(* Leaf: what a boot finds, what the runner installs and what it is        *)
(* shielded from, for every set of releases.  None of the three is         *)
(* inductive alone: UpdateInv adds how far each runner has come, that one  *)
(* of them writes at a time, that the last sync left a power cut nothing   *)
(* to take back, and that the three jobs exclude each other.               *)
(***************************************************************************)
EXTENDS PakratTxn, LeafUpdate, TLAPS

-----------------------------------------------------------------------------
(* Packages: the invariant *)

Assumed ==
    /\ MaxFaults \in Nat
    /\ None \notin Tokens /\ Hand \notin Tokens /\ Torn \notin Tokens
    /\ ~Races

Installing == {"reconcile", "staged", "aside", "promote", "commit", "committed",
               "undo", "restore"}
Completing == {"remove", "siblings", "forget"}
Looking    == {"recover", "reconcile", "sweep"}   \* the places of a recovery

Places == {"idle", "gate", "recover", "sweep", "intent", "end"}
              \cup Installing \cup Completing
Clients == [at : Places,
            op : {None, "install", "uninstall", "recover"},
            token : Tokens \cup {None}, moved : BOOLEAN, promoted : BOOLEAN]
Daemons == {"idle", "end"} \cup Looking \cup Completing

Types ==
    /\ Assumed /\ TypeOK
    /\ client \in Clients /\ daemon \in Daemons
    /\ row \in used \cup {None}

AtWork == client.at \notin {"idle", "gate"}
Locked  == lock = "client"

\* Where a client of each kind can be, and what it started from.
ClientPlaces ==
    /\ client.op = "install" =>
          /\ client.at \in {"gate", "end"} \cup Installing
          /\ client.token \in used /\ ~pending
          /\ client.at \notin {"committed", "end"} => row # client.token
    /\ client.op = "uninstall" =>
          /\ client.at \in {"gate", "intent", "end"} \cup Completing
          /\ client.at \notin Completing => ~pending
    /\ client.op = "recover" => client.at \in {"end"} \cup Looking /\ ~pending
    /\ client.op = None => client.at = "idle"

\* A client with the flock works behind the gate, with the service stopped
\* and jawakad's recovery at rest.  One without has no service to stop.
Bracket ==
    /\ Locked /\ AtWork => gate /\ ~running /\ daemon = "idle"
    /\ ~Locked /\ client.at # "idle" =>
          /\ client.op \in {"install", "uninstall"}
          /\ client.at \notin {"gate", "end"} /\ ~Service(row)
          /\ client.op = "install" => ~Service(client.token)
          /\ client.op = "install" \/ client.at = "intent" =>
                daemon = "idle" /\ ~gate /\ ~startup /\ ~pending
    /\ daemon # "idle" /\ gate => lock = "daemon"
    /\ daemon \in Completing => gate

\* Recovery and completion exclude each other; a sweep is of a package without
\* a row, and what a completion has removed stays away.
Phases ==
    /\ daemon \in Looking \cup {"end"} => ~pending
    /\ left # {} => daemon = "sweep" \/ client.at = "sweep"
    /\ \A a \in Actors :
          /\ At(a) = "sweep" => row = None
          /\ At(a) \in Completing => pending \/ row = None
          /\ At(a) = "siblings" /\ pending => target = None
          /\ At(a) = "forget" /\ pending =>
                target = None /\ stage = None /\ rollback = None

\* What an install has put where.
OnDisk ==
    /\ client.at \in {"staged", "aside"} =>
          rollback = None /\ stage = client.token /\ ~client.moved /\ ~client.promoted
    /\ client.at = "promote" => target = None /\ stage = client.token /\ ~client.promoted
    /\ client.at = "commit" => target = client.token /\ client.promoted
    /\ client.at = "committed" => target = client.token /\ row = client.token
    /\ client.at \in {"gate", "reconcile"} /\ client.op = "install" =>
          ~client.moved /\ ~client.promoted
    /\ client.at = "undo" =>
          /\ client.promoted => target = client.token
          /\ client.moved /\ ~client.promoted => target = None
    /\ client.at = "restore" /\ client.moved => target = None

\* The tree of the row is the live one whenever its service may run.
Settled ==
    /\ Service(row) /\ up /\ ~gate => target = row
    /\ Service(row) /\ running => target = row
    /\ Service(row) /\ pending => ~running /\ (gate \/ ~up)
    /\ Service(row) /\ (daemon = "end" \/ client.at \in {"end", "intent"}) => target = row

IInv == /\ Types /\ ClientPlaces /\ Bracket /\ Phases /\ OnDisk /\ Settled
        /\ RecordedTreeSurvives

-----------------------------------------------------------------------------
(* Packages: facts about the operators *)

LEMMA ClientFacts ==
    ASSUME client \in Clients, NEW place \in Places
    PROVE  LET c == [client EXCEPT !.at = place]
           IN  /\ c \in Clients /\ c.at = place /\ c.op = client.op
               /\ c.token = client.token
               /\ c.moved = client.moved /\ c.promoted = client.promoted
PROOF BY DEF Clients

LEMMA IdleFacts ==
    /\ Idle \in Clients /\ Idle.at = "idle" /\ Idle.op = None /\ Idle.token = None
    /\ Idle.moved = FALSE /\ Idle.promoted = FALSE
PROOF BY DEF Idle, Clients, Places

LEMMA FailsFacts ==
    ASSUME IInv, NEW f, Fails(f)
    PROVE  hits' \in 0 .. MaxFaults
PROOF BY DEF Fails, IInv, Types, TypeOK, Assumed

LEMMA NoService == IInv => ~Service(None)
PROOF BY DEF IInv, Types, Assumed, Service

-----------------------------------------------------------------------------
LEMMA UserStep ==
    ASSUME IInv, UserStarts \/ UserStops \/ Autostart \/ ServiceGone
    PROVE  IInv'
PROOF
<1>1. /\ UNCHANGED <<disk, db, lock, gate, restart, client, daemon, boot, left, used, hits>>
      /\ running' \in BOOLEAN /\ enabled' \in BOOLEAN
      /\ running' /\ ~running => daemon = "idle" /\ up /\ ~gate
  BY DEF UserStarts, UserStops, Autostart, ServiceGone, Answers, IInv, Types, TypeOK
<1>2. Types'
  BY <1>1 DEF IInv, Types, TypeOK, disk, db, boot
<1>3. ClientPlaces' /\ Phases' /\ OnDisk'
  BY <1>1 DEF IInv, ClientPlaces, Phases, OnDisk, disk, db, boot, At
<1>4. Bracket'
  BY <1>1 DEF IInv, Bracket, disk, db, boot, Locked, AtWork
<1>5. Settled' /\ RecordedTreeSurvives'
  BY <1>1 DEF IInv, Settled, RecordedTreeSurvives, disk, db, boot
<1> QED BY <1>2, <1>3, <1>4, <1>5 DEF IInv

LEMMA RecoverBeginStep == ASSUME IInv, NEW a \in Actors, RecoverBegin(a) PROVE IInv'
PROOF
<1>1. Types'
  <2>1. client' \in Clients /\ daemon' \in Daemons
    <3>1. CASE a = "client"
      BY <3>1, ClientFacts DEF RecoverBegin, Goto, IInv, Types, Places, Installing
    <3>2. CASE a = "daemon"
      BY <3>2 DEF RecoverBegin, Goto, IInv, Types, Daemons, Looking
    <3> QED BY <3>1, <3>2 DEF Actors
  <2>2. /\ {target', stage', rollback'} \subseteq Trees
        /\ row' \in used' \cup {None} /\ used' \subseteq Tokens
    BY DEF RecoverBegin, IInv, Types, TypeOK, disk, db
  <2>3. {origin', pending', gate', restart', running', enabled', startup', up'}
           \subseteq BOOLEAN
    BY DEF RecoverBegin, IInv, Types, TypeOK, disk, db, service, boot
  <2>4. hits' \in 0 .. MaxFaults /\ lock' \in Actors \cup {None}
    BY DEF RecoverBegin, IInv, Types, TypeOK
  <2>5. left' \subseteq {"target", "stage", "rollback", "origin", "discard"}
    BY DEF RecoverBegin, At, Goto, Orphan, Entries, IInv, Types, TypeOK, disk, db, service,
       boot
  <2> QED BY <2>1, <2>2, <2>3, <2>4, <2>5 DEF IInv, Types, TypeOK, Clients
<1>2. ClientPlaces'
  BY DEF RecoverBegin, At, Goto, IInv, Types, ClientPlaces, Bracket, disk, db, service,
     boot, Clients, Installing, Completing, Looking, AtWork, Locked, Actors
<1>3. Bracket'
  BY DEF RecoverBegin, At, Goto, IInv, Types, ClientPlaces, Bracket, Phases, disk, db,
     service, boot, Clients, Daemons, Installing, Completing, Looking, AtWork, Locked, Actors
<1>4. Phases'
  BY DEF RecoverBegin, At, Goto, IInv, Types, ClientPlaces, Bracket, Phases, disk, db,
     service, boot, Clients, Daemons, Installing, Completing, Looking, AtWork, Locked, Actors
<1>5. OnDisk'
  <2>1. CASE a = "client"
    BY <2>1 DEF RecoverBegin, At, Goto, IInv, Types, ClientPlaces, OnDisk, Clients,
       Installing
  <2>2. CASE a = "daemon"
    BY <2>2 DEF RecoverBegin, Goto, IInv, OnDisk, disk, db
  <2> QED BY <2>1, <2>2 DEF Actors
<1>6. Settled'
  BY DEF RecoverBegin, Goto, IInv, Types, TypeOK, ClientPlaces, Bracket, Phases, OnDisk,
     Settled, RecordedTreeSurvives, disk, db, service, boot, Clients, AtWork, Locked,
     Installing, Completing, Looking, Actors
<1>7. RecordedTreeSurvives'
  BY DEF RecoverBegin, IInv, RecordedTreeSurvives, disk, db
<1> QED BY <1>1, <1>2, <1>3, <1>4, <1>5, <1>6, <1>7 DEF IInv

LEMMA ReconcileStep == ASSUME IInv, NEW a \in Actors, Reconcile(a) PROVE IInv'
PROOF
<1>1. Types'
  <2>1. client' \in Clients /\ daemon' \in Daemons
    BY DEF Reconcile, IInv, Types
  <2>2. /\ {target', stage', rollback'} \subseteq Trees
        /\ row' \in used' \cup {None} /\ used' \subseteq Tokens
    BY DEF Reconcile, Moves, IInv, Types, TypeOK, db, Trees
  <2>3. {origin', pending', gate', restart', running', enabled', startup', up'}
           \subseteq BOOLEAN
    BY DEF Reconcile, At, Moves, Committed, Reconciled, IInv, Types, TypeOK, disk, db,
       service, boot
  <2>4. hits' \in 0 .. MaxFaults /\ lock' \in Actors \cup {None}
    BY DEF Reconcile, IInv, Types, TypeOK
  <2>5. left' \subseteq {"target", "stage", "rollback", "origin", "discard"}
    BY DEF Reconcile, IInv, Types, TypeOK
  <2> QED BY <2>1, <2>2, <2>3, <2>4, <2>5 DEF IInv, Types, TypeOK, Clients
<1>2. ClientPlaces'
  BY DEF Reconcile, IInv, ClientPlaces, db
<1>3. Bracket'
  BY DEF Reconcile, IInv, Bracket, db, service, boot, AtWork, Locked
<1>4. Phases'
  BY DEF Reconcile, At, IInv, ClientPlaces, Bracket, Phases, db, Completing, Looking,
     AtWork
<1>5. OnDisk'
  BY DEF Reconcile, At, IInv, ClientPlaces, Bracket, OnDisk, AtWork, Completing
<1>6. Settled'
  BY NoService DEF Reconcile, Moves, Committed, IInv, Settled, db, service, boot
<1>7. RecordedTreeSurvives'
  BY DEF Reconcile, Moves, Committed, IInv, RecordedTreeSurvives, db
<1> QED BY <1>1, <1>2, <1>3, <1>4, <1>5, <1>6, <1>7 DEF IInv

LEMMA SweepStep == ASSUME IInv, NEW a \in Actors, Sweep(a) PROVE IInv'
PROOF
<1>1. Types'
  <2>1. client' \in Clients /\ daemon' \in Daemons
    BY DEF Sweep, IInv, Types
  <2>2. /\ {target', stage', rollback'} \subseteq Trees
        /\ row' \in used' \cup {None} /\ used' \subseteq Tokens
    BY DEF Sweep, SweepTarget, SweepStage, SweepOrigin, SweepRollback, SweepDiscard, IInv,
       Types, TypeOK, db, Trees
  <2>3. {origin', pending', gate', restart', running', enabled', startup', up'}
           \subseteq BOOLEAN
    BY DEF Sweep, At, SweepTarget, SweepStage, SweepOrigin, SweepRollback, SweepDiscard,
       IInv, Types, TypeOK, disk, db, service, boot
  <2>4. hits' \in 0 .. MaxFaults /\ lock' \in Actors \cup {None}
    BY DEF Sweep, IInv, Types, TypeOK
  <2>5. left' \subseteq {"target", "stage", "rollback", "origin", "discard"}
    BY DEF Sweep, At, SweepTarget, SweepStage, SweepOrigin, SweepRollback, SweepDiscard,
       IInv, Types, TypeOK, disk, db, service, boot
  <2> QED BY <2>1, <2>2, <2>3, <2>4, <2>5 DEF IInv, Types, TypeOK, Clients
<1>2. ClientPlaces'
  BY DEF Sweep, IInv, ClientPlaces, db
<1>3. Bracket'
  BY DEF Sweep, IInv, Bracket, db, service, boot, AtWork, Locked
<1>4. Phases'
  BY DEF Sweep, IInv, Types, ClientPlaces, Phases, db, Clients, Daemons, Completing
<1>5. OnDisk'
  BY DEF Sweep, At, IInv, ClientPlaces, Bracket, OnDisk, AtWork, Completing
<1>6. Settled'
  BY NoService DEF Sweep, IInv, Phases, Settled, db
<1>7. RecordedTreeSurvives'
  BY DEF Sweep, IInv, Phases, RecordedTreeSurvives, db
<1> QED BY <1>1, <1>2, <1>3, <1>4, <1>5, <1>6, <1>7 DEF IInv

LEMMA RecoverRowStep == ASSUME IInv, NEW a \in Actors, RecoverRow(a) PROVE IInv'
PROOF
<1>1. Types'
  <2>1. client' \in Clients /\ daemon' \in Daemons
    BY IdleFacts DEF RecoverRow, Goto, IInv, Types, Clients, Daemons, Places
  <2>2. /\ {target', stage', rollback'} \subseteq Trees
        /\ row' \in used' \cup {None} /\ used' \subseteq Tokens
    BY DEF RecoverRow, IInv, Types, TypeOK, db
  <2>3. {origin', pending', gate', restart', running', enabled', startup', up'}
           \subseteq BOOLEAN
    BY DEF RecoverRow, IInv, Types, TypeOK, db, service
  <2>4. hits' \in 0 .. MaxFaults /\ lock' \in Actors \cup {None}
    BY DEF RecoverRow, IInv, Types, TypeOK
  <2>5. left' \subseteq {"target", "stage", "rollback", "origin", "discard"}
    BY DEF RecoverRow, IInv, Types, TypeOK
  <2> QED BY <2>1, <2>2, <2>3, <2>4, <2>5 DEF IInv, Types, TypeOK, Clients
<1>2. ClientPlaces'
  BY IdleFacts DEF RecoverRow, None, Goto, Recovering, IInv, Types, ClientPlaces, db,
     Clients
<1>3. Bracket'
  BY IdleFacts DEF RecoverRow, At, Goto, Recovering, IInv, Bracket, db, service,
     Completing, AtWork, Locked
<1>4. Phases'
  BY IdleFacts DEF RecoverRow, At, Goto, IInv, Types, Phases, db, Clients, Daemons,
     Completing
<1>5. OnDisk'
  BY IdleFacts DEF RecoverRow, Goto, IInv, Types, OnDisk, db, Clients
<1>6. Settled'
  BY NoService DEF RecoverRow, At, Reconciled, Recovering, IInv, ClientPlaces, Phases,
     Settled, RecordedTreeSurvives, db, Looking
<1>7. RecordedTreeSurvives'
  BY DEF RecoverRow, IInv, RecordedTreeSurvives, db
<1> QED BY <1>1, <1>2, <1>3, <1>4, <1>5, <1>6, <1>7 DEF IInv

LEMMA RecoverOrphanStep == ASSUME IInv, NEW a \in Actors, RecoverOrphan(a) PROVE IInv'
PROOF
<1>1. Types'
  <2>1. client' \in Clients /\ daemon' \in Daemons
    BY DEF RecoverOrphan, Goto, IInv, Types, Clients, Daemons, Places
  <2>2. /\ {target', stage', rollback'} \subseteq Trees
        /\ row' \in used' \cup {None} /\ used' \subseteq Tokens
    BY DEF RecoverOrphan, IInv, Types, TypeOK, disk, db
  <2>3. {origin', pending', gate', restart', running', enabled', startup', up'}
           \subseteq BOOLEAN
    BY DEF RecoverOrphan, IInv, Types, TypeOK, disk, db, service, boot
  <2>4. hits' \in 0 .. MaxFaults /\ lock' \in Actors \cup {None}
    BY DEF RecoverOrphan, IInv, Types, TypeOK
  <2>5. left' \subseteq {"target", "stage", "rollback", "origin", "discard"}
    BY DEF RecoverOrphan
  <2> QED BY <2>1, <2>2, <2>3, <2>4, <2>5 DEF IInv, Types, TypeOK, Clients
<1>2. ClientPlaces'
  BY DEF RecoverOrphan, At, Goto, IInv, Types, ClientPlaces, db, Clients, Completing
<1>3. Bracket'
  BY DEF RecoverOrphan, At, Goto, IInv, ClientPlaces, Bracket, db, service, Installing,
     Completing, AtWork, Locked
<1>4. Phases'
  BY DEF RecoverOrphan, At, IInv, Types, ClientPlaces, Phases, db, Clients, Daemons,
     Completing
<1>5. OnDisk'
  BY DEF RecoverOrphan, Goto, IInv, Types, OnDisk, disk, db, Clients
<1>6. Settled'
  BY NoService DEF RecoverOrphan, IInv, Phases, Settled, db
<1>7. RecordedTreeSurvives'
  BY DEF RecoverOrphan, IInv, RecordedTreeSurvives, disk, db
<1> QED BY <1>1, <1>2, <1>3, <1>4, <1>5, <1>6, <1>7 DEF IInv

LEMMA RemoveTargetStep == ASSUME IInv, NEW a \in Actors, RemoveTarget(a) PROVE IInv'
PROOF
<1>1. Types'
  <2>1. client' \in Clients /\ daemon' \in Daemons
    BY DEF RemoveTarget, Goto, IInv, Types, Clients, Daemons, Places, Completing
  <2>2. /\ {target', stage', rollback'} \subseteq Trees
        /\ row' \in used' \cup {None} /\ used' \subseteq Tokens
    BY DEF RemoveTarget, IInv, Types, TypeOK, db, Trees
  <2>3. {origin', pending', gate', restart', running', enabled', startup', up'}
           \subseteq BOOLEAN
    BY DEF RemoveTarget, IInv, Types, TypeOK, db, service, boot
  <2>4. hits' \in 0 .. MaxFaults /\ lock' \in Actors \cup {None}
    BY DEF RemoveTarget, IInv, Types, TypeOK
  <2>5. left' \subseteq {"target", "stage", "rollback", "origin", "discard"}
    BY DEF RemoveTarget, IInv, Types, TypeOK
  <2> QED BY <2>1, <2>2, <2>3, <2>4, <2>5 DEF IInv, Types, TypeOK, Clients
<1>2. ClientPlaces'
  BY DEF RemoveTarget, At, Goto, IInv, Types, ClientPlaces, db, Clients, Installing,
     Completing, Looking
<1>3. Bracket'
  BY DEF RemoveTarget, At, Goto, IInv, Types, Bracket, db, service, boot, Clients,
     Completing, AtWork, Locked
<1>4. Phases'
  BY DEF RemoveTarget, At, Goto, IInv, Types, ClientPlaces, Phases, db, Clients, Daemons,
     Installing, Looking
<1>5. OnDisk'
  BY DEF RemoveTarget, At, Goto, IInv, Types, ClientPlaces, Bracket, OnDisk, Clients,
     AtWork, Completing
<1>6. Settled'
  BY DEF RemoveTarget, Goto, IInv, Types, ClientPlaces, Phases, Settled, db, service, boot,
     Clients, Completing
<1>7. RecordedTreeSurvives'
  BY DEF RemoveTarget, IInv, Phases, RecordedTreeSurvives, db, Completing
<1> QED BY <1>1, <1>2, <1>3, <1>4, <1>5, <1>6, <1>7 DEF IInv

LEMMA RemoveSiblingsStep == ASSUME IInv, NEW a \in Actors, RemoveSiblings(a) PROVE IInv'
PROOF
<1>1. Types'
  <2>1. client' \in Clients /\ daemon' \in Daemons
    BY DEF RemoveSiblings, Goto, IInv, Types, Clients, Daemons, Places, Completing
  <2>2. /\ {target', stage', rollback'} \subseteq Trees
        /\ row' \in used' \cup {None} /\ used' \subseteq Tokens
    BY DEF RemoveSiblings, IInv, Types, TypeOK, db, Trees
  <2>3. {origin', pending', gate', restart', running', enabled', startup', up'}
           \subseteq BOOLEAN
    BY DEF RemoveSiblings, At, Goto, IInv, Types, TypeOK, disk, db, service, boot
  <2>4. hits' \in 0 .. MaxFaults /\ lock' \in Actors \cup {None}
    BY DEF RemoveSiblings, IInv, Types, TypeOK
  <2>5. left' \subseteq {"target", "stage", "rollback", "origin", "discard"}
    BY DEF RemoveSiblings, IInv, Types, TypeOK
  <2> QED BY <2>1, <2>2, <2>3, <2>4, <2>5 DEF IInv, Types, TypeOK, Clients
<1>2. ClientPlaces'
  BY DEF RemoveSiblings, At, Goto, IInv, Types, ClientPlaces, db, Clients, Installing,
     Completing, Looking
<1>3. Bracket'
  BY DEF RemoveSiblings, At, Goto, IInv, Types, Bracket, db, service, boot, Clients,
     Completing, AtWork, Locked
<1>4. Phases'
  BY DEF RemoveSiblings, At, Goto, IInv, Types, ClientPlaces, Phases, db, Clients, Daemons,
     Installing, Looking
<1>5. OnDisk'
  BY DEF RemoveSiblings, At, Goto, IInv, Types, ClientPlaces, Bracket, OnDisk, Clients,
     AtWork, Completing
<1>6. Settled'
  BY DEF RemoveSiblings, Goto, IInv, Types, Settled, db, service, boot, Clients
<1>7. RecordedTreeSurvives'
  BY DEF RemoveSiblings, IInv, Phases, RecordedTreeSurvives, db, Completing
<1> QED BY <1>1, <1>2, <1>3, <1>4, <1>5, <1>6, <1>7 DEF IInv

LEMMA ForgetStep == ASSUME IInv, NEW a \in Actors, Forget(a) PROVE IInv'
PROOF
<1>1. Types'
  <2>1. client' \in Clients /\ daemon' \in Daemons
    BY IdleFacts DEF Forget, Goto, IInv, Types, Clients, Daemons, Places
  <2>2. /\ {target', stage', rollback'} \subseteq Trees
        /\ row' \in used' \cup {None} /\ used' \subseteq Tokens
    BY DEF Forget, IInv, Types, TypeOK, disk
  <2>3. {origin', pending', gate', restart', running', enabled', startup', up'}
           \subseteq BOOLEAN
    BY DEF Forget, At, Goto, IInv, Types, TypeOK, disk, db, service, boot
  <2>4. hits' \in 0 .. MaxFaults /\ lock' \in Actors \cup {None}
    BY DEF Forget, IInv, Types, TypeOK
  <2>5. left' \subseteq {"target", "stage", "rollback", "origin", "discard"}
    BY DEF Forget, IInv, Types, TypeOK
  <2> QED BY <2>1, <2>2, <2>3, <2>4, <2>5 DEF IInv, Types, TypeOK, Clients
<1>2. ClientPlaces'
  BY IdleFacts DEF Forget, None, At, Goto, IInv, Types, ClientPlaces, Bracket, Clients,
     Installing, Completing, Locked
<1>3. Bracket'
  BY IdleFacts, NoService DEF Forget, At, Goto, IInv, Bracket, Completing, AtWork, Locked
<1>4. Phases'
  BY DEF Forget, At, Goto, IInv, Phases
<1>5. OnDisk'
  BY IdleFacts DEF Forget, Goto, IInv, Types, Phases, OnDisk, disk, Clients, Completing
<1>6. Settled'
  BY NoService DEF Forget, Settled
<1>7. RecordedTreeSurvives'
  BY DEF Forget, RecordedTreeSurvives
<1> QED BY <1>1, <1>2, <1>3, <1>4, <1>5, <1>6, <1>7 DEF IInv

LEMMA CompleteFailsStep == ASSUME IInv, NEW a \in Actors, CompleteFails(a) PROVE IInv'
PROOF
<1>1. Types'
  <2>1. client' \in Clients /\ daemon' \in Daemons
    BY IdleFacts DEF CompleteFails, Goto, IInv, Types, Daemons
  <2>2. /\ {target', stage', rollback'} \subseteq Trees
        /\ row' \in used' \cup {None} /\ used' \subseteq Tokens
    BY DEF CompleteFails, IInv, Types, TypeOK, disk, db
  <2>3. {origin', pending', gate', restart', running', enabled', startup', up'}
           \subseteq BOOLEAN
    BY DEF CompleteFails, IInv, Types, TypeOK, disk, db, service
  <2>4. hits' \in 0 .. MaxFaults /\ lock' \in Actors \cup {None}
    BY FailsFacts DEF CompleteFails, IInv, Types, TypeOK
  <2>5. left' \subseteq {"target", "stage", "rollback", "origin", "discard"}
    BY DEF CompleteFails, IInv, Types, TypeOK
  <2> QED BY <2>1, <2>2, <2>3, <2>4, <2>5 DEF IInv, Types, TypeOK, Clients
<1>2. ClientPlaces'
  BY IdleFacts DEF CompleteFails, None, Goto, IInv, ClientPlaces, db
<1>3. Bracket'
  BY IdleFacts DEF CompleteFails, None, At, Goto, IInv, Bracket, db, service, Completing,
     Locked
<1>4. Phases'
  BY IdleFacts DEF CompleteFails, At, Goto, IInv, Phases, disk, db, Completing, Looking
<1>5. OnDisk'
  BY IdleFacts DEF CompleteFails, Goto, IInv, OnDisk, disk, db
<1>6. Settled'
  BY IdleFacts DEF CompleteFails, At, Goto, IInv, Types, TypeOK, Bracket, Settled, disk,
     db, service, Completing
<1>7. RecordedTreeSurvives'
  BY DEF CompleteFails, IInv, RecordedTreeSurvives, disk, db
<1> QED BY <1>1, <1>2, <1>3, <1>4, <1>5, <1>6, <1>7 DEF IInv

LEMMA InstallStep == ASSUME IInv, NEW t \in Tokens, Install(t) PROVE IInv'
PROOF
<1>0. /\ UNCHANGED <<disk, db, service, daemon, boot, left, hits>>
      /\ up /\ client.at = "idle" /\ client'.op = "install" /\ client'.token = t
      /\ client'.moved = FALSE /\ client'.promoted = FALSE
      /\ \/ /\ lock = None /\ lock' = "client" /\ client'.at = "gate"
            /\ RecoveryAtRest \/ ~pending
         \/ /\ ~Service(row) /\ ~Service(t) /\ RecoveryAtRest
            /\ lock' = lock /\ client'.at = "reconcile"
  BY IdleFacts DEF Install, ClientStarts, IInv, Types, Assumed
<1>1. Types'
  <2>1. client' \in Clients /\ daemon' \in Daemons
    BY IdleFacts DEF Install, ClientStarts, RecoveryAtRest, IInv, Types, TypeOK, disk, db,
       service, boot, Clients, Daemons, Places, Installing, Completing, Looking, Actors
  <2>2. /\ {target', stage', rollback'} \subseteq Trees
        /\ row' \in used' \cup {None} /\ used' \subseteq Tokens
    BY DEF Install, ClientStarts, IInv, Types, TypeOK, disk, db
  <2>3. {origin', pending', gate', restart', running', enabled', startup', up'}
           \subseteq BOOLEAN
    BY DEF Install, ClientStarts, IInv, Types, TypeOK, disk, db, service, boot
  <2>4. hits' \in 0 .. MaxFaults /\ lock' \in Actors \cup {None}
    BY DEF Install, ClientStarts, IInv, Types, TypeOK, Actors
  <2>5. left' \subseteq {"target", "stage", "rollback", "origin", "discard"}
    BY DEF Install, ClientStarts, IInv, Types, TypeOK
  <2> QED BY <2>1, <2>2, <2>3, <2>4, <2>5 DEF IInv, Types, TypeOK, Clients
<1>2. ClientPlaces'
  BY <1>0 DEF Install, RecoveryAtRest, None, IInv, Types, Assumed, ClientPlaces, db,
     Installing
<1>3. Bracket'
  BY <1>0 DEF RecoveryAtRest, None, IInv, Bracket, db, service, boot, AtWork, Locked
<1>4. Phases'
  BY DEF Install, ClientStarts, IInv, Phases, At, disk, db, Completing
<1>5. OnDisk'
  BY IdleFacts DEF Install, ClientStarts, OnDisk
<1>6. Settled'
  BY DEF Install, ClientStarts, IInv, Settled, disk, db, service
<1>7. RecordedTreeSurvives'
  BY DEF Install, ClientStarts, IInv, RecordedTreeSurvives, disk, db
<1> QED BY <1>1, <1>2, <1>3, <1>4, <1>5, <1>6, <1>7 DEF IInv

LEMMA UninstallStep == ASSUME IInv, Uninstall PROVE IInv'
PROOF
<1>0. /\ UNCHANGED <<disk, db, service, daemon, boot, left, hits>>
      /\ up /\ client.at = "idle" /\ client'.op = "uninstall" /\ client'.token = None
      /\ client'.moved = FALSE /\ client'.promoted = FALSE
      /\ \/ /\ lock = None /\ lock' = "client" /\ client'.at = "gate"
            /\ RecoveryAtRest \/ ~pending
         \/ /\ ~Service(row) /\ ~Service(None) /\ RecoveryAtRest
            /\ lock' = lock /\ client'.at = "intent"
  BY IdleFacts DEF Uninstall, ClientStarts, IInv, Types, Assumed
<1>1. Types'
  <2>1. client' \in Clients /\ daemon' \in Daemons
    BY IdleFacts DEF Uninstall, ClientStarts, RecoveryAtRest, IInv, Types, TypeOK, disk,
       db, service, boot, Clients, Daemons, Places, Installing, Completing, Looking, Actors
  <2>2. /\ {target', stage', rollback'} \subseteq Trees
        /\ row' \in used' \cup {None} /\ used' \subseteq Tokens
    BY DEF Uninstall, ClientStarts, IInv, Types, TypeOK, disk, db
  <2>3. {origin', pending', gate', restart', running', enabled', startup', up'}
           \subseteq BOOLEAN
    BY DEF Uninstall, ClientStarts, IInv, Types, TypeOK, disk, db, service, boot
  <2>4. hits' \in 0 .. MaxFaults /\ lock' \in Actors \cup {None}
    BY DEF Uninstall, ClientStarts, IInv, Types, TypeOK, Actors
  <2>5. left' \subseteq {"target", "stage", "rollback", "origin", "discard"}
    BY DEF Uninstall, ClientStarts, IInv, Types, TypeOK
  <2> QED BY <2>1, <2>2, <2>3, <2>4, <2>5 DEF IInv, Types, TypeOK, Clients
<1>2. ClientPlaces'
  BY <1>0 DEF RecoveryAtRest, None, ClientPlaces, db
<1>3. Bracket'
  BY <1>0 DEF RecoveryAtRest, None, IInv, Bracket, db, service, boot, AtWork, Locked
<1>4. Phases'
  BY DEF Uninstall, ClientStarts, IInv, Phases, At, disk, db, Completing
<1>5. OnDisk'
  BY DEF Uninstall, ClientStarts, OnDisk
<1>6. Settled'
  BY DEF Uninstall, ClientStarts, IInv, Settled, disk, db, service
<1>7. RecordedTreeSurvives'
  BY DEF Uninstall, ClientStarts, IInv, RecordedTreeSurvives, disk, db
<1> QED BY <1>1, <1>2, <1>3, <1>4, <1>5, <1>6, <1>7 DEF IInv

LEMMA RequestGateStep == ASSUME IInv, RequestGate PROVE IInv'
PROOF
<1>1. Types'
  <2>1. client' \in Clients /\ daemon' \in Daemons
    BY IdleFacts DEF RequestGate, CloseGate, IInv, Types, Clients, Places, Installing
  <2>2. /\ {target', stage', rollback'} \subseteq Trees
        /\ row' \in used' \cup {None} /\ used' \subseteq Tokens
    BY DEF RequestGate, IInv, Types, TypeOK, disk, db
  <2>3. {origin', pending', gate', restart', running', enabled', startup', up'}
           \subseteq BOOLEAN
    BY DEF RequestGate, Answers, CloseGate, IInv, Types, TypeOK, disk, db, service, boot
  <2>4. hits' \in 0 .. MaxFaults /\ lock' \in Actors \cup {None}
    BY FailsFacts DEF RequestGate, CloseGate, IInv, Types, TypeOK
  <2>5. left' \subseteq {"target", "stage", "rollback", "origin", "discard"}
    BY DEF RequestGate, IInv, Types, TypeOK
  <2> QED BY <2>1, <2>2, <2>3, <2>4, <2>5 DEF IInv, Types, TypeOK, Clients
<1>2. ClientPlaces'
  BY IdleFacts DEF RequestGate, None, CloseGate, IInv, Types, ClientPlaces, db, Clients,
     Installing, Completing, Looking
<1>3. Bracket'
  BY IdleFacts DEF RequestGate, None, Answers, CloseGate, IInv, Bracket, service, Clients,
     Locked
<1>4. Phases'
  BY IdleFacts DEF RequestGate, Answers, CloseGate, IInv, Types, Phases, At, db, Clients,
     Completing
<1>5. OnDisk'
  BY IdleFacts DEF RequestGate, CloseGate, IInv, Types, OnDisk, Clients
<1>6. Settled'
  BY IdleFacts DEF RequestGate, Answers, CloseGate, IInv, Settled, disk, db, service
<1>7. RecordedTreeSurvives'
  BY DEF RequestGate, IInv, RecordedTreeSurvives, disk, db
<1> QED BY <1>1, <1>2, <1>3, <1>4, <1>5, <1>6, <1>7 DEF IInv

LEMMA StageStep == ASSUME IInv, Stage PROVE IInv'
PROOF
<1>1. Types'
  <2>1. client' \in Clients /\ daemon' \in Daemons
    BY DEF Stage, Client, ClientOnDisk, IInv, Types, Clients, Places, Installing
  <2>2. /\ {target', stage', rollback'} \subseteq Trees
        /\ row' \in used' \cup {None} /\ used' \subseteq Tokens
    BY DEF Stage, ClientOnDisk, IInv, Types, TypeOK, db, Trees
  <2>3. {origin', pending', gate', restart', running', enabled', startup', up'}
           \subseteq BOOLEAN
    BY DEF Stage, Reconciled, Inconsistent, Client, ClientOnDisk, IInv, Types, TypeOK,
       disk, db, service, boot
  <2>4. hits' \in 0 .. MaxFaults /\ lock' \in Actors \cup {None}
    BY DEF Stage, ClientOnDisk, IInv, Types, TypeOK
  <2>5. left' \subseteq {"target", "stage", "rollback", "origin", "discard"}
    BY DEF Stage, ClientOnDisk, IInv, Types, TypeOK
  <2> QED BY <2>1, <2>2, <2>3, <2>4, <2>5 DEF IInv, Types, TypeOK, Clients
<1>2. ClientPlaces'
  BY DEF Stage, Client, ClientOnDisk, IInv, ClientPlaces, db, Installing
<1>3. Bracket'
  BY DEF Stage, Client, ClientOnDisk, IInv, Bracket, db, service, boot, AtWork, Locked
<1>4. Phases'
  BY DEF Stage, Client, ClientOnDisk, IInv, Bracket, Phases, At, Completing, Looking,
     AtWork
<1>5. OnDisk'
  BY DEF Stage, Reconciled, Client, IInv, OnDisk
<1>6. Settled'
  BY DEF Stage, Client, ClientOnDisk, IInv, Settled, db, service, boot
<1>7. RecordedTreeSurvives'
  BY DEF Stage, ClientOnDisk, IInv, RecordedTreeSurvives, db
<1> QED BY <1>1, <1>2, <1>3, <1>4, <1>5, <1>6, <1>7 DEF IInv

LEMMA WriteOriginStep == ASSUME IInv, WriteOrigin PROVE IInv'
PROOF
<1>1. Types'
  <2>1. client' \in Clients /\ daemon' \in Daemons
    BY DEF WriteOrigin, Client, ClientOnDisk, IInv, Types, Clients, Places, Installing
  <2>2. /\ {target', stage', rollback'} \subseteq Trees
        /\ row' \in used' \cup {None} /\ used' \subseteq Tokens
    BY DEF WriteOrigin, ClientOnDisk, IInv, Types, TypeOK, db
  <2>3. {origin', pending', gate', restart', running', enabled', startup', up'}
           \subseteq BOOLEAN
    BY DEF WriteOrigin, ClientOnDisk, IInv, Types, TypeOK, db, service, boot
  <2>4. hits' \in 0 .. MaxFaults /\ lock' \in Actors \cup {None}
    BY DEF WriteOrigin, ClientOnDisk, IInv, Types, TypeOK
  <2>5. left' \subseteq {"target", "stage", "rollback", "origin", "discard"}
    BY DEF WriteOrigin, ClientOnDisk, IInv, Types, TypeOK
  <2> QED BY <2>1, <2>2, <2>3, <2>4, <2>5 DEF IInv, Types, TypeOK, Clients
<1>2. ClientPlaces'
  BY DEF WriteOrigin, Client, ClientOnDisk, IInv, ClientPlaces, db, Installing, Completing,
     Looking
<1>3. Bracket'
  BY DEF WriteOrigin, Client, ClientOnDisk, IInv, Bracket, db, service, boot, AtWork,
     Locked
<1>4. Phases'
  BY DEF WriteOrigin, Client, ClientOnDisk, IInv, Phases, At, db, Completing
<1>5. OnDisk'
  BY DEF WriteOrigin, Client, IInv, OnDisk
<1>6. Settled'
  BY DEF WriteOrigin, Client, ClientOnDisk, IInv, Settled, db, service, boot
<1>7. RecordedTreeSurvives'
  BY DEF WriteOrigin, ClientOnDisk, IInv, RecordedTreeSurvives, db
<1> QED BY <1>1, <1>2, <1>3, <1>4, <1>5, <1>6, <1>7 DEF IInv

LEMMA MoveAsideStep == ASSUME IInv, MoveAside PROVE IInv'
PROOF
<1>1. Types'
  <2>1. client' \in Clients /\ daemon' \in Daemons
    BY IdleFacts DEF MoveAside, ClientOnDisk, IInv, Types, TypeOK, disk, db, service, boot,
       Clients, Daemons, Places, Installing, Completing, Looking, Actors
  <2>2. /\ {target', stage', rollback'} \subseteq Trees
        /\ row' \in used' \cup {None} /\ used' \subseteq Tokens
    BY DEF MoveAside, ClientOnDisk, IInv, Types, TypeOK, db, Trees
  <2>3. {origin', pending', gate', restart', running', enabled', startup', up'}
           \subseteq BOOLEAN
    BY DEF MoveAside, ClientOnDisk, IInv, Types, TypeOK, db, service, boot
  <2>4. hits' \in 0 .. MaxFaults /\ lock' \in Actors \cup {None}
    BY DEF MoveAside, ClientOnDisk, IInv, Types, TypeOK
  <2>5. left' \subseteq {"target", "stage", "rollback", "origin", "discard"}
    BY DEF MoveAside, ClientOnDisk, IInv, Types, TypeOK
  <2> QED BY <2>1, <2>2, <2>3, <2>4, <2>5 DEF IInv, Types, TypeOK, Clients
<1>2. ClientPlaces'
  BY DEF MoveAside, ClientOnDisk, IInv, ClientPlaces, db, Installing, Completing, Looking
<1>3. Bracket'
  BY DEF MoveAside, ClientOnDisk, IInv, Bracket, db, service, boot, AtWork, Locked
<1>4. Phases'
  BY DEF MoveAside, ClientOnDisk, IInv, Phases, At, db, Completing
<1>5. OnDisk'
  BY DEF MoveAside, IInv, OnDisk
<1>6. Settled'
  BY DEF MoveAside, ClientOnDisk, IInv, Bracket, Settled, db, service, AtWork
<1>7. RecordedTreeSurvives'
  BY DEF MoveAside, ClientOnDisk, IInv, OnDisk, RecordedTreeSurvives, db
<1> QED BY <1>1, <1>2, <1>3, <1>4, <1>5, <1>6, <1>7 DEF IInv

LEMMA PromoteStep == ASSUME IInv, Promote PROVE IInv'
PROOF
<1>1. Types'
  <2>1. client' \in Clients /\ daemon' \in Daemons
    BY IdleFacts DEF Promote, ClientOnDisk, IInv, Types, TypeOK, disk, db, service, boot,
       Clients, Daemons, Places, Installing, Completing, Looking, Actors
  <2>2. /\ {target', stage', rollback'} \subseteq Trees
        /\ row' \in used' \cup {None} /\ used' \subseteq Tokens
    BY DEF Promote, ClientOnDisk, IInv, Types, TypeOK, db, Trees
  <2>3. {origin', pending', gate', restart', running', enabled', startup', up'}
           \subseteq BOOLEAN
    BY DEF Promote, ClientOnDisk, IInv, Types, TypeOK, db, service, boot
  <2>4. hits' \in 0 .. MaxFaults /\ lock' \in Actors \cup {None}
    BY DEF Promote, ClientOnDisk, IInv, Types, TypeOK
  <2>5. left' \subseteq {"target", "stage", "rollback", "origin", "discard"}
    BY DEF Promote, ClientOnDisk, IInv, Types, TypeOK
  <2> QED BY <2>1, <2>2, <2>3, <2>4, <2>5 DEF IInv, Types, TypeOK, Clients
<1>2. ClientPlaces'
  BY DEF Promote, ClientOnDisk, IInv, ClientPlaces, db, Installing, Completing, Looking
<1>3. Bracket'
  BY DEF Promote, ClientOnDisk, IInv, Bracket, db, service, boot, AtWork, Locked
<1>4. Phases'
  BY DEF Promote, ClientOnDisk, IInv, ClientPlaces, Bracket, Phases, At, db, Completing,
     AtWork
<1>5. OnDisk'
  BY DEF Promote, IInv, OnDisk
<1>6. Settled'
  BY NoService DEF Promote, ClientOnDisk, IInv, OnDisk, Settled, db, service, boot
<1>7. RecordedTreeSurvives'
  BY DEF Promote, ClientOnDisk, IInv, OnDisk, RecordedTreeSurvives, db
<1> QED BY <1>1, <1>2, <1>3, <1>4, <1>5, <1>6, <1>7 DEF IInv

LEMMA CommitStep == ASSUME IInv, Commit PROVE IInv'
PROOF
<1>1. Types'
  <2>1. client' \in Clients /\ daemon' \in Daemons
    BY DEF Commit, Client, IInv, Types, Clients, Places, Installing
  <2>2. /\ {target', stage', rollback'} \subseteq Trees
        /\ row' \in used' \cup {None} /\ used' \subseteq Tokens
    BY DEF Commit, IInv, Types, TypeOK, disk, Clients, ClientPlaces, Completing, Looking
  <2>3. {origin', pending', gate', restart', running', enabled', startup', up'}
           \subseteq BOOLEAN
    BY DEF Commit, IInv, Types, TypeOK, disk, boot
  <2>4. hits' \in 0 .. MaxFaults /\ lock' \in Actors \cup {None}
    BY DEF Commit, IInv, Types, TypeOK
  <2>5. left' \subseteq {"target", "stage", "rollback", "origin", "discard"}
    BY DEF Commit, IInv, Types, TypeOK
  <2> QED BY <2>1, <2>2, <2>3, <2>4, <2>5 DEF IInv, Types, TypeOK, Clients
<1>2. ClientPlaces'
  BY DEF Commit, Client, IInv, ClientPlaces, Installing, Completing, Looking
<1>3. Bracket'
  BY DEF Commit, Client, IInv, ClientPlaces, Bracket, boot, Completing, AtWork, Locked
<1>4. Phases'
  BY DEF Commit, Client, IInv, ClientPlaces, Bracket, Phases, At, Completing, AtWork
<1>5. OnDisk'
  BY DEF Commit, Client, IInv, OnDisk, disk
<1>6. Settled'
  BY DEF Commit, Client, IInv, ClientPlaces, Bracket, Settled, AtWork, Completing
<1>7. RecordedTreeSurvives'
  BY DEF Commit, IInv, OnDisk, RecordedTreeSurvives, disk
<1> QED BY <1>1, <1>2, <1>3, <1>4, <1>5, <1>6, <1>7 DEF IInv

LEMMA DropRollbackStep == ASSUME IInv, DropRollback PROVE IInv'
PROOF
<1>1. Types'
  <2>1. client' \in Clients /\ daemon' \in Daemons
    BY IdleFacts DEF DropRollback, Over, IInv, Types, Clients, Places
  <2>2. /\ {target', stage', rollback'} \subseteq Trees
        /\ row' \in used' \cup {None} /\ used' \subseteq Tokens
    BY DEF DropRollback, IInv, Types, TypeOK, db, Trees
  <2>3. {origin', pending', gate', restart', running', enabled', startup', up'}
           \subseteq BOOLEAN
    BY DEF DropRollback, Committing, Over, IInv, Types, TypeOK, disk, db, service, boot
  <2>4. hits' \in 0 .. MaxFaults /\ lock' \in Actors \cup {None}
    BY FailsFacts DEF DropRollback, IInv, Types, TypeOK
  <2>5. left' \subseteq {"target", "stage", "rollback", "origin", "discard"}
    BY DEF DropRollback, IInv, Types, TypeOK
  <2> QED BY <2>1, <2>2, <2>3, <2>4, <2>5 DEF IInv, Types, TypeOK, Clients
<1>2. ClientPlaces'
  BY IdleFacts DEF DropRollback, None, Committing, Over, IInv, ClientPlaces, db, Completing
<1>3. Bracket'
  BY IdleFacts DEF DropRollback, Committing, Over, IInv, Bracket, service, AtWork, Locked
<1>4. Phases'
  BY IdleFacts DEF DropRollback, Committing, Over, IInv, ClientPlaces, Bracket, Phases, At,
     db, Completing, AtWork
<1>5. OnDisk'
  BY IdleFacts DEF DropRollback, Over, OnDisk
<1>6. Settled'
  BY DEF DropRollback, Committing, IInv, OnDisk, Settled, db, service, boot
<1>7. RecordedTreeSurvives'
  BY DEF DropRollback, Committing, IInv, OnDisk, RecordedTreeSurvives, db
<1> QED BY <1>1, <1>2, <1>3, <1>4, <1>5, <1>6, <1>7 DEF IInv

LEMMA InstallFailsStep == ASSUME IInv, InstallFails PROVE IInv'
PROOF
<1>1. Types'
  <2>1. client' \in Clients /\ daemon' \in Daemons
    BY DEF InstallFails, Client, IInv, Types, Clients, Places, Installing
  <2>2. /\ {target', stage', rollback'} \subseteq Trees
        /\ row' \in used' \cup {None} /\ used' \subseteq Tokens
    BY DEF InstallFails, IInv, Types, TypeOK, db
  <2>3. {origin', pending', gate', restart', running', enabled', startup', up'}
           \subseteq BOOLEAN
    BY DEF InstallFails, IInv, Types, TypeOK, db, service, boot
  <2>4. hits' \in 0 .. MaxFaults /\ lock' \in Actors \cup {None}
    BY FailsFacts DEF InstallFails, IInv, Types, TypeOK
  <2>5. left' \subseteq {"target", "stage", "rollback", "origin", "discard"}
    BY DEF InstallFails, IInv, Types, TypeOK
  <2> QED BY <2>1, <2>2, <2>3, <2>4, <2>5 DEF IInv, Types, TypeOK, Clients
<1>2. ClientPlaces'
  BY DEF InstallFails, Client, IInv, ClientPlaces, db, Installing
<1>3. Bracket'
  BY DEF InstallFails, Client, IInv, Bracket, db, service, boot, AtWork, Locked
<1>4. Phases'
  BY DEF InstallFails, Client, IInv, Phases, At, db, Completing
<1>5. OnDisk'
  BY DEF InstallFails, Client, IInv, OnDisk
<1>6. Settled'
  BY DEF InstallFails, Client, IInv, Settled, db, service, boot
<1>7. RecordedTreeSurvives'
  BY DEF InstallFails, IInv, RecordedTreeSurvives, db
<1> QED BY <1>1, <1>2, <1>3, <1>4, <1>5, <1>6, <1>7 DEF IInv

LEMMA UndoPromoteStep == ASSUME IInv, UndoPromote PROVE IInv'
PROOF
<1>1. Types'
  <2>1. client' \in Clients /\ daemon' \in Daemons
    BY DEF UndoPromote, Client, ClientOnDisk, IInv, Types, Clients, Places, Installing
  <2>2. /\ {target', stage', rollback'} \subseteq Trees
        /\ row' \in used' \cup {None} /\ used' \subseteq Tokens
    BY DEF UndoPromote, ClientOnDisk, IInv, Types, TypeOK, db, Trees
  <2>3. {origin', pending', gate', restart', running', enabled', startup', up'}
           \subseteq BOOLEAN
    BY DEF UndoPromote, ClientOnDisk, IInv, Types, TypeOK, db, service, boot
  <2>4. hits' \in 0 .. MaxFaults /\ lock' \in Actors \cup {None}
    BY DEF UndoPromote, ClientOnDisk, IInv, Types, TypeOK
  <2>5. left' \subseteq {"target", "stage", "rollback", "origin", "discard"}
    BY DEF UndoPromote, ClientOnDisk, IInv, Types, TypeOK
  <2> QED BY <2>1, <2>2, <2>3, <2>4, <2>5 DEF IInv, Types, TypeOK, Clients
<1>2. ClientPlaces'
  BY DEF UndoPromote, Client, ClientOnDisk, IInv, ClientPlaces, db, Installing, Completing,
     Looking
<1>3. Bracket'
  BY DEF UndoPromote, Client, ClientOnDisk, IInv, Bracket, db, service, boot, AtWork,
     Locked
<1>4. Phases'
  BY DEF UndoPromote, Client, ClientOnDisk, IInv, Phases, At, db, Completing
<1>5. OnDisk'
  BY DEF UndoPromote, Client, IInv, OnDisk
<1>6. Settled'
  BY DEF UndoPromote, Client, ClientOnDisk, IInv, Bracket, Settled, db, service, AtWork
<1>7. RecordedTreeSurvives'
  BY DEF UndoPromote, ClientOnDisk, IInv, Types, ClientPlaces, OnDisk,
     RecordedTreeSurvives, db, Clients, Completing, Looking
<1> QED BY <1>1, <1>2, <1>3, <1>4, <1>5, <1>6, <1>7 DEF IInv

LEMMA UndoAsideStep == ASSUME IInv, UndoAside PROVE IInv'
PROOF
<1>1. Types'
  <2>1. client' \in Clients /\ daemon' \in Daemons
    BY IdleFacts DEF UndoAside, Undone, ClientOnDisk, IInv, Types, TypeOK, disk, db,
       service, boot, Clients, Daemons, Places, Installing, Completing, Looking, Actors
  <2>2. /\ {target', stage', rollback'} \subseteq Trees
        /\ row' \in used' \cup {None} /\ used' \subseteq Tokens
    BY DEF UndoAside, ClientOnDisk, IInv, Types, TypeOK, db, Trees
  <2>3. {origin', pending', gate', restart', running', enabled', startup', up'}
           \subseteq BOOLEAN
    BY DEF UndoAside, ClientOnDisk, IInv, Types, TypeOK, db, service, boot
  <2>4. hits' \in 0 .. MaxFaults /\ lock' \in Actors \cup {None}
    BY DEF UndoAside, ClientOnDisk, IInv, Types, TypeOK
  <2>5. left' \subseteq {"target", "stage", "rollback", "origin", "discard"}
    BY DEF UndoAside, ClientOnDisk, IInv, Types, TypeOK
  <2> QED BY <2>1, <2>2, <2>3, <2>4, <2>5 DEF IInv, Types, TypeOK, Clients
<1>2. ClientPlaces'
  BY IdleFacts DEF UndoAside, None, Undone, ClientOnDisk, IInv, Types, ClientPlaces, db,
     Clients, Completing, Looking
<1>3. Bracket'
  BY IdleFacts DEF UndoAside, Undone, ClientOnDisk, IInv, Bracket, service, AtWork, Locked
<1>4. Phases'
  BY IdleFacts DEF UndoAside, Undone, ClientOnDisk, IInv, ClientPlaces, Bracket, Phases,
     At, db, Completing, AtWork
<1>5. OnDisk'
  BY IdleFacts DEF UndoAside, Undone, OnDisk
<1>6. Settled'
  BY IdleFacts, NoService DEF UndoAside, Undone, ClientOnDisk, IInv, OnDisk, Settled, db,
     service, boot
<1>7. RecordedTreeSurvives'
  BY DEF UndoAside, ClientOnDisk, IInv, OnDisk, RecordedTreeSurvives, db
<1> QED BY <1>1, <1>2, <1>3, <1>4, <1>5, <1>6, <1>7 DEF IInv

LEMMA UndoFailsStep == ASSUME IInv, UndoFails PROVE IInv'
PROOF
<1>1. Types'
  <2>1. client' \in Clients /\ daemon' \in Daemons
    BY IdleFacts DEF UndoFails, Undone, IInv, Types, TypeOK, disk, db, service, boot,
       Clients, Daemons, Places, Installing, Completing, Looking, Actors
  <2>2. /\ {target', stage', rollback'} \subseteq Trees
        /\ row' \in used' \cup {None} /\ used' \subseteq Tokens
    BY DEF UndoFails, IInv, Types, TypeOK, db, Trees
  <2>3. {origin', pending', gate', restart', running', enabled', startup', up'}
           \subseteq BOOLEAN
    BY DEF UndoFails, IInv, Types, TypeOK, db, service, boot
  <2>4. hits' \in 0 .. MaxFaults /\ lock' \in Actors \cup {None}
    BY FailsFacts DEF UndoFails, IInv, Types, TypeOK
  <2>5. left' \subseteq {"target", "stage", "rollback", "origin", "discard"}
    BY DEF UndoFails, IInv, Types, TypeOK
  <2> QED BY <2>1, <2>2, <2>3, <2>4, <2>5 DEF IInv, Types, TypeOK, Clients
<1>2. ClientPlaces'
  BY IdleFacts DEF UndoFails, None, Undone, IInv, Types, ClientPlaces, db, Clients,
     Completing, Looking
<1>3. Bracket'
  BY IdleFacts DEF UndoFails, Undone, IInv, Bracket, service, AtWork, Locked
<1>4. Phases'
  BY IdleFacts DEF UndoFails, Undone, IInv, Phases, At, db, Completing
<1>5. OnDisk'
  BY IdleFacts DEF UndoFails, Undone, OnDisk
<1>6. Settled'
  BY IdleFacts DEF UndoFails, Undone, IInv, Settled, db, service, boot
<1>7. RecordedTreeSurvives'
  BY DEF UndoFails, IInv, RecordedTreeSurvives, db
<1> QED BY <1>1, <1>2, <1>3, <1>4, <1>5, <1>6, <1>7 DEF IInv

LEMMA WriteIntentStep == ASSUME IInv, WriteIntent PROVE IInv'
PROOF
<1>1. Types'
  <2>1. client' \in Clients /\ daemon' \in Daemons
    BY IdleFacts DEF WriteIntent, Client, Over, IInv, Types, Clients, Places, Completing
  <2>2. /\ {target', stage', rollback'} \subseteq Trees
        /\ row' \in used' \cup {None} /\ used' \subseteq Tokens
    BY DEF WriteIntent, IInv, Types, TypeOK, disk
  <2>3. {origin', pending', gate', restart', running', enabled', startup', up'}
           \subseteq BOOLEAN
    BY DEF WriteIntent, Client, Over, IInv, Types, TypeOK, disk, db, service, boot
  <2>4. hits' \in 0 .. MaxFaults /\ lock' \in Actors \cup {None}
    BY FailsFacts DEF WriteIntent, IInv, Types, TypeOK
  <2>5. left' \subseteq {"target", "stage", "rollback", "origin", "discard"}
    BY DEF WriteIntent, IInv, Types, TypeOK
  <2> QED BY <2>1, <2>2, <2>3, <2>4, <2>5 DEF IInv, Types, TypeOK, Clients
<1>2. ClientPlaces'
  BY IdleFacts DEF WriteIntent, None, Client, Over, IInv, Types, ClientPlaces, Clients,
     Installing, Completing, Looking
<1>3. Bracket'
  BY IdleFacts DEF WriteIntent, Client, Over, IInv, Types, ClientPlaces, Bracket, service,
     Clients, Installing, AtWork, Locked
<1>4. Phases'
  BY IdleFacts DEF WriteIntent, Client, Over, IInv, Types, Bracket, Phases, At, Clients,
     Completing, Looking, AtWork
<1>5. OnDisk'
  BY IdleFacts DEF WriteIntent, Client, Over, IInv, Types, OnDisk, Clients
<1>6. Settled'
  BY DEF WriteIntent, IInv, Bracket, Settled, disk, service, AtWork
<1>7. RecordedTreeSurvives'
  BY DEF WriteIntent, IInv, RecordedTreeSurvives, disk
<1> QED BY <1>1, <1>2, <1>3, <1>4, <1>5, <1>6, <1>7 DEF IInv

LEMMA ReleaseGateStep == ASSUME IInv, ReleaseGate PROVE IInv'
PROOF
<1>1. Types'
  <2>1. client' \in Clients /\ daemon' \in Daemons
    BY IdleFacts DEF ReleaseGate, IInv, Types
  <2>2. /\ {target', stage', rollback'} \subseteq Trees
        /\ row' \in used' \cup {None} /\ used' \subseteq Tokens
    BY DEF ReleaseGate, IInv, Types, TypeOK, disk, db
  <2>3. {origin', pending', gate', restart', running', enabled', startup', up'}
           \subseteq BOOLEAN
    BY DEF ReleaseGate, Answers, OpenGate, IInv, Types, TypeOK, disk, db, service, boot
  <2>4. hits' \in 0 .. MaxFaults /\ lock' \in Actors \cup {None}
    BY FailsFacts DEF ReleaseGate, IInv, Types, TypeOK
  <2>5. left' \subseteq {"target", "stage", "rollback", "origin", "discard"}
    BY DEF ReleaseGate, IInv, Types, TypeOK
  <2> QED BY <2>1, <2>2, <2>3, <2>4, <2>5 DEF IInv, Types, TypeOK, Clients
<1>2. ClientPlaces'
  BY IdleFacts DEF ReleaseGate, None, ClientPlaces
<1>3. Bracket'
  BY IdleFacts DEF ReleaseGate, Answers, Bracket, Completing, AtWork
<1>4. Phases'
  BY IdleFacts DEF ReleaseGate, Answers, IInv, Phases, At, db, Completing
<1>5. OnDisk'
  BY IdleFacts DEF ReleaseGate, OnDisk
<1>6. Settled'
  BY DEF ReleaseGate, IInv, Types, ClientPlaces, Settled, disk, db, Clients, Completing
<1>7. RecordedTreeSurvives'
  BY DEF ReleaseGate, IInv, RecordedTreeSurvives, disk, db
<1> QED BY <1>1, <1>2, <1>3, <1>4, <1>5, <1>6, <1>7 DEF IInv

LEMMA TickAdoptStep == ASSUME IInv, TickAdopt PROVE IInv'
PROOF
<1>1. Types'
  <2>1. client' \in Clients /\ daemon' \in Daemons
    BY DEF TickAdopt, DaemonAt, Continue, IInv, Types, Daemons, Completing, Looking
  <2>2. /\ {target', stage', rollback'} \subseteq Trees
        /\ row' \in used' \cup {None} /\ used' \subseteq Tokens
    BY DEF TickAdopt, IInv, Types, TypeOK, disk, db
  <2>3. {origin', pending', gate', restart', running', enabled', startup', up'}
           \subseteq BOOLEAN
    BY DEF TickAdopt, IInv, Types, TypeOK, disk, db, service, boot
  <2>4. hits' \in 0 .. MaxFaults /\ lock' \in Actors \cup {None}
    BY DEF TickAdopt, IInv, Types, TypeOK, Actors
  <2>5. left' \subseteq {"target", "stage", "rollback", "origin", "discard"}
    BY DEF TickAdopt, IInv, Types, TypeOK
  <2> QED BY <2>1, <2>2, <2>3, <2>4, <2>5 DEF IInv, Types, TypeOK, Clients
<1>2. ClientPlaces'
  BY DEF TickAdopt, DaemonAt, IInv, ClientPlaces, db
<1>3. Bracket'
  BY DEF TickAdopt, DaemonAt, IInv, Bracket, db, service, Locked
<1>4. Phases'
  BY DEF TickAdopt, DaemonAt, Continue, IInv, Phases, At, disk, db, Completing, Looking
<1>5. OnDisk'
  BY DEF TickAdopt, DaemonAt, IInv, OnDisk, disk, db
<1>6. Settled'
  BY DEF TickAdopt, DaemonAt, Continue, IInv, Settled, disk, db, service
<1>7. RecordedTreeSurvives'
  BY DEF TickAdopt, IInv, RecordedTreeSurvives, disk, db
<1> QED BY <1>1, <1>2, <1>3, <1>4, <1>5, <1>6, <1>7 DEF IInv

LEMMA TickPendingStep == ASSUME IInv, TickPending PROVE IInv'
PROOF
<1>1. Types'
  <2>1. client' \in Clients /\ daemon' \in Daemons
    BY DEF TickPending, CloseGate, DaemonAt, IInv, Types, Daemons, Completing
  <2>2. /\ {target', stage', rollback'} \subseteq Trees
        /\ row' \in used' \cup {None} /\ used' \subseteq Tokens
    BY DEF TickPending, IInv, Types, TypeOK, disk, db
  <2>3. {origin', pending', gate', restart', running', enabled', startup', up'}
           \subseteq BOOLEAN
    BY DEF TickPending, CloseGate, DaemonAt, IInv, Types, TypeOK, disk, db, service, boot
  <2>4. hits' \in 0 .. MaxFaults /\ lock' \in Actors \cup {None}
    BY FailsFacts DEF TickPending, CloseGate, IInv, Types, TypeOK, Actors
  <2>5. left' \subseteq {"target", "stage", "rollback", "origin", "discard"}
    BY DEF TickPending, IInv, Types, TypeOK
  <2> QED BY <2>1, <2>2, <2>3, <2>4, <2>5 DEF IInv, Types, TypeOK, Clients
<1>2. ClientPlaces'
  BY DEF TickPending, CloseGate, DaemonAt, IInv, ClientPlaces
<1>3. Bracket'
  BY DEF TickPending, None, CloseGate, DaemonAt, IInv, Bracket, db, Locked
<1>4. Phases'
  BY DEF TickPending, CloseGate, DaemonAt, IInv, Phases, At, disk, db, Looking
<1>5. OnDisk'
  BY DEF TickPending, CloseGate, DaemonAt, IInv, OnDisk, disk, db
<1>6. Settled'
  BY DEF TickPending, CloseGate, DaemonAt, IInv, Settled, disk, db, service, boot
<1>7. RecordedTreeSurvives'
  BY DEF TickPending, RecordedTreeSurvives, db
<1> QED BY <1>1, <1>2, <1>3, <1>4, <1>5, <1>6, <1>7 DEF IInv

LEMMA TickStartupStep == ASSUME IInv, TickStartup PROVE IInv'
PROOF
<1>1. Types'
  <2>1. client' \in Clients /\ daemon' \in Daemons
    BY DEF TickStartup, DaemonAt, IInv, Types, Daemons, Looking
  <2>2. /\ {target', stage', rollback'} \subseteq Trees
        /\ row' \in used' \cup {None} /\ used' \subseteq Tokens
    BY DEF TickStartup, IInv, Types, TypeOK, disk, db
  <2>3. {origin', pending', gate', restart', running', enabled', startup', up'}
           \subseteq BOOLEAN
    BY DEF TickStartup, IInv, Types, TypeOK, disk, db, service, boot
  <2>4. hits' \in 0 .. MaxFaults /\ lock' \in Actors \cup {None}
    BY DEF TickStartup, IInv, Types, TypeOK
  <2>5. left' \subseteq {"target", "stage", "rollback", "origin", "discard"}
    BY DEF TickStartup, IInv, Types, TypeOK
  <2> QED BY <2>1, <2>2, <2>3, <2>4, <2>5 DEF IInv, Types, TypeOK, Clients
<1>2. ClientPlaces'
  BY DEF TickStartup, DaemonAt, IInv, ClientPlaces, db
<1>3. Bracket'
  BY DEF TickStartup, DaemonAt, IInv, Bracket, db, service, Completing, AtWork, Locked
<1>4. Phases'
  BY DEF TickStartup, DaemonAt, IInv, Phases, At, db, Completing
<1>5. OnDisk'
  BY DEF TickStartup, DaemonAt, IInv, OnDisk, disk, db
<1>6. Settled'
  BY DEF TickStartup, DaemonAt, IInv, Settled, disk, db, service, boot
<1>7. RecordedTreeSurvives'
  BY DEF TickStartup, IInv, RecordedTreeSurvives, disk, db
<1> QED BY <1>1, <1>2, <1>3, <1>4, <1>5, <1>6, <1>7 DEF IInv

LEMMA TickReleaseStep == ASSUME IInv, TickRelease PROVE IInv'
PROOF
<1>1. Types'
  <2>1. client' \in Clients /\ daemon' \in Daemons
    BY DEF TickRelease, DaemonAt, IInv, Types, Daemons, Looking
  <2>2. /\ {target', stage', rollback'} \subseteq Trees
        /\ row' \in used' \cup {None} /\ used' \subseteq Tokens
    BY DEF TickRelease, IInv, Types, TypeOK, disk, db
  <2>3. {origin', pending', gate', restart', running', enabled', startup', up'}
           \subseteq BOOLEAN
    BY DEF TickRelease, OpenGate, DaemonAt, IInv, Types, TypeOK, disk, db, service, boot
  <2>4. hits' \in 0 .. MaxFaults /\ lock' \in Actors \cup {None}
    BY FailsFacts DEF TickRelease, IInv, Types, TypeOK
  <2>5. left' \subseteq {"target", "stage", "rollback", "origin", "discard"}
    BY DEF TickRelease, IInv, Types, TypeOK
  <2> QED BY <2>1, <2>2, <2>3, <2>4, <2>5 DEF IInv, Types, TypeOK, Clients
<1>2. ClientPlaces'
  BY DEF TickRelease, DaemonAt, IInv, ClientPlaces, db
<1>3. Bracket'
  BY DEF TickRelease, None, OpenGate, DaemonAt, IInv, Bracket, db, Completing, Locked
<1>4. Phases'
  BY DEF TickRelease, DaemonAt, IInv, Phases, At, db, Completing
<1>5. OnDisk'
  BY DEF TickRelease, DaemonAt, IInv, OnDisk, disk, db
<1>6. Settled'
  BY DEF TickRelease, IInv, Phases, Settled, disk, db
<1>7. RecordedTreeSurvives'
  BY DEF TickRelease, IInv, RecordedTreeSurvives, disk, db
<1> QED BY <1>1, <1>2, <1>3, <1>4, <1>5, <1>6, <1>7 DEF IInv

LEMMA TickRecoveredStep == ASSUME IInv, TickRecovered PROVE IInv'
PROOF
<1>1. Types'
  <2>1. client' \in Clients /\ daemon' \in Daemons
    BY DEF TickRecovered, DaemonAt, IInv, Types, Daemons
  <2>2. /\ {target', stage', rollback'} \subseteq Trees
        /\ row' \in used' \cup {None} /\ used' \subseteq Tokens
    BY DEF TickRecovered, IInv, Types, TypeOK, disk, db
  <2>3. {origin', pending', gate', restart', running', enabled', startup', up'}
           \subseteq BOOLEAN
    BY DEF TickRecovered, DaemonAt, IInv, Types, TypeOK, disk, db, service, boot
  <2>4. hits' \in 0 .. MaxFaults /\ lock' \in Actors \cup {None}
    BY DEF TickRecovered, IInv, Types, TypeOK
  <2>5. left' \subseteq {"target", "stage", "rollback", "origin", "discard"}
    BY DEF TickRecovered, IInv, Types, TypeOK
  <2> QED BY <2>1, <2>2, <2>3, <2>4, <2>5 DEF IInv, Types, TypeOK, Clients
<1>2. ClientPlaces'
  BY DEF TickRecovered, DaemonAt, IInv, ClientPlaces, db
<1>3. Bracket'
  BY DEF TickRecovered, DaemonAt, IInv, Bracket, db, Completing, AtWork, Locked
<1>4. Phases'
  BY DEF TickRecovered, DaemonAt, IInv, Phases, At, db, Completing
<1>5. OnDisk'
  BY DEF TickRecovered, DaemonAt, IInv, OnDisk, disk, db
<1>6. Settled'
  BY DEF TickRecovered, IInv, Phases, Settled, disk, db
<1>7. RecordedTreeSurvives'
  BY DEF TickRecovered, IInv, RecordedTreeSurvives, disk, db
<1> QED BY <1>1, <1>2, <1>3, <1>4, <1>5, <1>6, <1>7 DEF IInv

LEMMA PowerLossStep == ASSUME IInv, PowerLoss PROVE IInv'
PROOF
<1>1. Types'
  <2>1. client' \in Clients /\ daemon' \in Daemons
    BY IdleFacts DEF PowerLoss, Daemons
  <2>2. /\ {target', stage', rollback'} \subseteq Trees
        /\ row' \in used' \cup {None} /\ used' \subseteq Tokens
    BY DEF PowerLoss, Tears, Tear, IInv, Types, TypeOK, db, Trees
  <2>3. {origin', pending', gate', restart', running', enabled', startup', up'}
           \subseteq BOOLEAN
    BY DEF PowerLoss, Tears, Tear, Removes, At, IInv, Types, TypeOK, disk, db, service, boot
  <2>4. hits' \in 0 .. MaxFaults /\ lock' \in Actors \cup {None}
    BY FailsFacts DEF PowerLoss
  <2>5. left' \subseteq {"target", "stage", "rollback", "origin", "discard"}
    BY DEF PowerLoss
  <2> QED BY <2>1, <2>2, <2>3, <2>4, <2>5 DEF IInv, Types, TypeOK, Clients
<1>2. ClientPlaces'
  BY IdleFacts DEF PowerLoss, None, ClientPlaces
<1>3. Bracket'
  BY IdleFacts DEF PowerLoss, Bracket, Completing, AtWork
<1>4. Phases'
  BY IdleFacts DEF PowerLoss, At, Phases, Completing, Looking
<1>5. OnDisk'
  BY IdleFacts DEF PowerLoss, OnDisk
<1>6. Settled'
  BY IdleFacts DEF PowerLoss, Settled
<1>7. RecordedTreeSurvives'
  <2>1. /\ UNCHANGED db
        /\ target' # target =>
              /\ target' = Torn
              /\ "target" \in Removes("client") \cup Removes("daemon")
        /\ rollback' # rollback =>
              /\ rollback' = Torn
              /\ "rollback" \in Removes("client") \cup Removes("daemon")
        /\ target' = target \/ rollback' = rollback
    BY DEF PowerLoss, Tears, Tear
  <2>2. ASSUME row # None, ~pending, row = target, NEW a \in Actors, "target" \in Removes(a)
        PROVE  row = rollback
    <3>1. CASE a = "daemon"
      BY <2>2, <3>1 DEF Removes, At, IInv, Types, Phases, Committed, Daemons, Looking
    <3>2. CASE a = "client"
      <4>1. client.at \in {"undo", "committed"} => client.op = "install"
        BY DEF IInv, Types, Clients, ClientPlaces, Completing, Looking
      <4> QED BY <2>2, <3>2, <4>1 DEF Removes, At, IInv, ClientPlaces, Phases, OnDisk,
         Committed, Completing
    <3> QED BY <3>1, <3>2 DEF Actors
  <2>3. ASSUME row # None, ~pending, row = rollback, NEW a \in Actors,
               "rollback" \in Removes(a)
        PROVE  row = target
    <3>1. CASE a = "daemon"
      BY <2>3, <3>1 DEF Removes, At, IInv, Types, Phases, Committed, Daemons, Looking
    <3>2. CASE a = "client"
      <4>1. client.at \in {"undo", "committed"} => client.op = "install"
        BY DEF IInv, Types, Clients, ClientPlaces, Completing, Looking
      <4> QED BY <2>3, <3>2 DEF Removes, At, IInv, Phases, OnDisk, Committed, Completing
    <3> QED BY <3>1, <3>2 DEF Actors
  <2> QED BY <2>1, <2>2, <2>3 DEF IInv, RecordedTreeSurvives, db, Actors
<1> QED BY <1>1, <1>2, <1>3, <1>4, <1>5, <1>6, <1>7 DEF IInv

LEMMA ClientKilledStep == ASSUME IInv, ClientKilled PROVE IInv'
PROOF
<1>1. Types'
  <2>1. client' \in Clients /\ daemon' \in Daemons
    BY IdleFacts DEF ClientKilled, IInv, Types
  <2>2. /\ {target', stage', rollback'} \subseteq Trees
        /\ row' \in used' \cup {None} /\ used' \subseteq Tokens
    BY DEF ClientKilled, Tears, Tear, IInv, Types, TypeOK, db, Trees
  <2>3. {origin', pending', gate', restart', running', enabled', startup', up'}
           \subseteq BOOLEAN
    BY DEF ClientKilled, IInv, Types, TypeOK, db, service, boot
  <2>4. hits' \in 0 .. MaxFaults /\ lock' \in Actors \cup {None}
    BY FailsFacts DEF ClientKilled, IInv, Types, TypeOK
  <2>5. left' \subseteq {"target", "stage", "rollback", "origin", "discard"}
    BY DEF ClientKilled, Removes, IInv, Types, TypeOK
  <2> QED BY <2>1, <2>2, <2>3, <2>4, <2>5 DEF IInv, Types, TypeOK, Clients
<1>2. ClientPlaces'
  BY IdleFacts DEF ClientKilled, None, ClientPlaces
<1>3. Bracket'
  BY IdleFacts DEF ClientKilled, IInv, Bracket, service, AtWork
<1>4. Phases'
  BY IdleFacts DEF ClientKilled, Tears, Tear, At, IInv, Phases, db, Completing
<1>5. OnDisk'
  BY IdleFacts DEF ClientKilled, OnDisk
<1>6. Settled'
  BY IdleFacts DEF ClientKilled, Tears, Tear, Removes, At, IInv, Bracket, Settled, db,
     service, boot, AtWork
<1>7. RecordedTreeSurvives'
  BY DEF ClientKilled, Tears, Tear, Removes, At, Committed, IInv, Types, ClientPlaces,
     Phases, OnDisk, RecordedTreeSurvives, db, Clients, Installing, Looking, Actors
<1> QED BY <1>1, <1>2, <1>3, <1>4, <1>5, <1>6, <1>7 DEF IInv

-----------------------------------------------------------------------------
(* Packages: the invariant is kept *)

LEMMA Initially == Assumed /\ Init => IInv
PROOF
<1> SUFFICES ASSUME Assumed, Init PROVE IInv
  OBVIOUS
<1>1. Types
  <2>1. {target, stage, rollback} \subseteq Trees /\ row \in Tokens \cup {None}
    BY DEF Init, Trees
  <2>2. {origin, pending, gate, restart, running, enabled, startup, up} \subseteq BOOLEAN
    BY DEF Init
  <2>3. /\ lock \in Actors \cup {None} /\ client.token \in Tokens \cup {None}
        /\ used \subseteq Tokens /\ hits \in 0 .. MaxFaults
        /\ left \subseteq {"target", "stage", "rollback", "origin", "discard"}
    BY IdleFacts DEF Init, Assumed
  <2>4. TypeOK
    BY <2>1, <2>2, <2>3 DEF TypeOK
  <2> QED BY <2>4, IdleFacts DEF Init, Types, Daemons
<1>2. ClientPlaces /\ Bracket /\ Phases /\ OnDisk
  BY IdleFacts DEF Init, Assumed, ClientPlaces, Bracket, Phases, OnDisk, AtWork, Locked,
     Looking, Completing, At, None
<1>3. Settled /\ RecordedTreeSurvives
  BY <1>1, NoService DEF Init, Assumed, Settled, RecordedTreeSurvives, Service
<1> QED BY <1>1, <1>2, <1>3 DEF IInv

LEMMA Preserved == IInv /\ [Next]_txnVars => IInv'
PROOF
<1> SUFFICES ASSUME IInv, [Next]_txnVars PROVE IInv'
  OBVIOUS
<1>1. CASE UNCHANGED txnVars
  BY <1>1 DEF txnVars, disk, db, service, boot, IInv, Types, TypeOK, ClientPlaces, Bracket,
     Phases, OnDisk, Settled, RecordedTreeSurvives, At, AtWork, Locked
<1>2. ASSUME NEW a \in Actors, Recovery(a) PROVE IInv'
  BY <1>2, RecoverBeginStep, ReconcileStep, RecoverRowStep, SweepStep, RecoverOrphanStep
  DEF Recovery
<1>3. ASSUME NEW a \in Actors, Completion(a) PROVE IInv'
  BY <1>3, RemoveTargetStep, RemoveSiblingsStep, ForgetStep, CompleteFailsStep
     DEF Completion
<1>4. CASE ClientStep
  BY <1>2, <1>3, <1>4, RequestGateStep, StageStep, WriteOriginStep, MoveAsideStep,
     PromoteStep,
     CommitStep, DropRollbackStep, InstallFailsStep, UndoPromoteStep, UndoAsideStep,
     UndoFailsStep, WriteIntentStep, ReleaseGateStep DEF ClientStep, Actors
<1>5. CASE DaemonStep
  BY <1>2, <1>3, <1>5, TickAdoptStep, TickPendingStep, TickStartupStep, TickReleaseStep,
     TickRecoveredStep DEF DaemonStep, Actors
<1>6. CASE ServiceGone \/ User
  BY <1>6, UserStep, InstallStep, UninstallStep DEF User
<1>7. CASE PowerLoss \/ ClientKilled
  BY <1>7, PowerLossStep, ClientKilledStep
<1> QED BY <1>1, <1>4, <1>5, <1>6, <1>7 DEF Next

\* The invariant, from which the theorems below follow.
THEOREM TransactionInvariance == ASSUME Assumed PROVE Spec => []IInv
PROOF
<1>1. Init => IInv
  BY Initially
<1> QED BY <1>1, Preserved, PTL DEF Spec

\* Trees are the candidate's, the user's or torn; the record, the flock, the
\* gate and the sweep's entries keep their types (pakrat.c, pakrat_txn.c).
THEOREM TransactionTypeCorrect == ASSUME Assumed PROVE Spec => []TypeOK
PROOF BY TransactionInvariance, PTL DEF IInv, Types

\* jw__pakrat_reconcile_transition and the promotion of jw_pakrat_install_app
\* never lose the tree of a recorded install, whatever fails or crashes.
THEOREM RecordSurvives == ASSUME Assumed PROVE Spec => []RecordedTreeSurvives
PROOF BY TransactionInvariance, PTL DEF IInv

-----------------------------------------------------------------------------
(* Packages: the action properties *)

LEMMA RunningStep ==
    ASSUME IInv, Next, Service(row), running, running'
    PROVE  target' = target
PROOF
<1>1. target = row /\ row # None /\ ~pending
  BY NoService DEF IInv, Settled
<1>2. client.at \in {"idle", "gate"}
  BY DEF IInv, Bracket, AtWork, Locked
<1>3. ASSUME NEW a \in Actors, Recovery(a) \/ Completion(a) PROVE target' = target
  <2>1. At(a) \notin {"sweep", "remove"}
    BY <1>1 DEF IInv, Phases, Completing
  <2> QED BY <1>1, <1>3, <2>1 DEF Recovery, Completion, RecoverBegin, Reconcile, Moves,
     Committed,
             RecoverRow, Sweep, RecoverOrphan, RemoveTarget, RemoveSiblings, Forget,
             CompleteFails, disk
<1>4. CASE ClientStep
  BY <1>2, <1>3, <1>4 DEF ClientStep, Actors, RequestGate, Stage, WriteOrigin, MoveAside,
     Promote,
     Commit, DropRollback, Committing, InstallFails, UndoPromote, UndoAside, UndoFails,
     WriteIntent,
     ReleaseGate, disk
<1>5. CASE DaemonStep
  BY <1>3, <1>5 DEF DaemonStep, Actors, TickAdopt, TickPending, TickStartup, TickRelease,
     TickRecovered, disk
<1>6. CASE ServiceGone \/ User
  BY <1>6 DEF ServiceGone, User, UserStarts, UserStops, Autostart, Install, Uninstall,
     ClientStarts, disk
<1>7. CASE PowerLoss
  BY <1>7 DEF PowerLoss
<1>8. CASE ClientKilled
  BY <1>2, <1>8 DEF ClientKilled, Removes, At, Tears, Tear
<1> QED BY <1>4, <1>5, <1>6, <1>7, <1>8 DEF Next

LEMMA IntentStep ==
    ASSUME IInv, Next, pending, ~pending'
    PROVE  row' = None /\ target' = None /\ stage' = None /\ rollback' = None
PROOF
<1>1. ASSUME NEW a \in Actors, Forget(a)
      PROVE  row' = None /\ target' = None /\ stage' = None /\ rollback' = None
  BY <1>1 DEF Forget, IInv, Phases, disk
<1>2. ASSUME NEW a \in Actors, Recovery(a) PROVE pending' = pending
  BY <1>2 DEF Recovery, RecoverBegin, Reconcile, RecoverRow, Sweep, RecoverOrphan, db
<1>3. ASSUME NEW a \in Actors, Completion(a) PROVE Forget(a)
  BY <1>3 DEF Completion, RemoveTarget, RemoveSiblings, CompleteFails, db
<1>4. CASE ClientStep
  BY <1>1, <1>2, <1>3, <1>4 DEF ClientStep, Actors, RequestGate, Stage, WriteOrigin,
     MoveAside,
     Promote, Commit, DropRollback, InstallFails, UndoPromote, UndoAside, UndoFails,
     WriteIntent,
     ReleaseGate, ClientOnDisk, db
<1>5. CASE DaemonStep
  BY <1>1, <1>2, <1>3, <1>5 DEF DaemonStep, Actors, TickAdopt, TickPending, TickStartup,
     TickRelease, TickRecovered, db
<1>6. CASE ServiceGone \/ User
  BY <1>6 DEF ServiceGone, User, UserStarts, UserStops, Autostart, Install, Uninstall,
     ClientStarts, db
<1>7. CASE PowerLoss \/ ClientKilled
  BY <1>7 DEF PowerLoss, ClientKilled, db
<1> QED BY <1>4, <1>5, <1>6, <1>7 DEF Next

\* While the service of the row runs the client has not passed the gate and no
\* uninstall is pending, and what a recovery moves is not the live tree.
THEOREM RunningUntouched == ASSUME Assumed PROVE Spec => RunningTreeUntouched
PROOF
<1>1. IInv /\ [Next]_txnVars
      => [Service(row) /\ running /\ running' => target' = target]_txnVars
  BY RunningStep
<1> QED BY <1>1, TransactionInvariance, PTL DEF Spec, RunningTreeUntouched

\* Only jw_pakrat_txn_complete_uninstall drops the intent, with the row, after
\* the files; whoever else finishes the same uninstall puts nothing back.
THEOREM IntentOutlives == ASSUME Assumed PROVE Spec => IntentOutlivesPackage
PROOF
<1>1. IInv /\ [Next]_txnVars
      => [pending /\ ~pending' => /\ row' = None /\ target' = None
                                  /\ stage' = None /\ rollback' = None]_txnVars
  BY IntentStep
<1> QED BY <1>1, TransactionInvariance, PTL DEF Spec, IntentOutlivesPackage

-----------------------------------------------------------------------------
(* Leaf: the invariant *)

Status == [up : BOOLEAN, fetched : BOOLEAN, candidate : Releases \cup {Nothing},
           downloaded : BOOLEAN, armed : BOOLEAN]
RunnerPlaces == {"off", "verify", "extract", "replace", "mark", "copy", "arm", "sync", "exited"}
Runners == [at : RunnerPlaces, release : Releases \cup {Nothing}, part : 1 .. Len(Parts) + 1,
            torn : BOOLEAN]
Checks == [scope : {Nothing, "latest", "all"}, queued : BOOLEAN]
Downloads == [release : Releases \cup {Nothing}, count : 0 .. MaxDownloads]
Lives == [1 .. Len(Parts) -> Releases \cup {Shipped, Partial}]
Kept == [live : [1 .. Len(Parts) -> SUBSET (Releases \cup {Shipped, Partial})],
         record : SUBSET (Releases \cup {Shipped}), marker : SUBSET BOOLEAN,
         payload : SUBSET Releases, trigger : SUBSET (Releases \cup {Nothing})]
Whole == \A p \in Ships(record) : live[p] = record

\* The types, of the variables UpdateTypeOK leaves loose too.
UpdateTypes ==
    /\ MaxMishaps \in Nat /\ MaxDownloads \in Nat
    /\ update \in Status /\ check \in Checks /\ download \in Downloads
    /\ runner \in [Slots -> Runners] /\ kept \in Kept
    /\ UpdateTypeOK

\* At most one job runs, each on the candidate the status shows.
Jobs ==
    /\ Downloading => ~Checking /\ ~installing /\ download.release = update.candidate
    /\ Checking => ~installing
    /\ update.downloaded => /\ ~Downloading /\ update.candidate # Nothing
                            /\ artifact \in {update.candidate, Nothing}
    /\ runner["child"].at # "off" => installing
    /\ Working("child") => runner["child"].release = update.candidate
    /\ \A i \in Slots : Working(i) => runner[i].release \in Releases

\* The runner has begun to write what a boot starts.
Writing(i) == runner[i].at \in {"replace", "mark", "copy", "arm", "sync"}

\* What lies on the card at each place of a runner, which writes alone.
Sound ==
    /\ trigger # Nothing => trigger \in payload
    /\ marker => Whole
    /\ \A i \in Slots :
          /\ Working(i) => ~runner[i].torn
          /\ Writing(i) => \A j \in Slots \ {i} : ~Writing(j)
          /\ runner[i].at = "replace" =>
                /\ ~marker
                /\ \A p \in Ships(runner[i].release) :
                      p < runner[i].part => live[p] = runner[i].release
          /\ runner[i].at = "mark" => Whole
          /\ runner[i].at = "arm" => runner[i].release \in payload

\* An install that reported its end left nothing a power cut could take back.
Synced == result.state \in {"installed", "armed"} =>
              kept = OnlyOf(live, record, marker, payload, trigger)

OnCard ==
    /\ \A i \in Slots : runner[i].at \in {"verify", "extract"} => runner[i].part = 1
    /\ Synced
    /\ ~exposed => Sound

\* A survivor bars only while a barrier is held, and the runner that replaces
\* the live payload holds it.
Shielded ==
    /\ barrier = Nothing => ~stuck
    /\ ReplacedBehindBarrier

UpdateInv == UpdateTypes /\ Jobs /\ OnCard /\ Shielded

LEMMA ThreeParts == Len(Parts) = 3
PROOF BY DEF Parts

-----------------------------------------------------------------------------
(* Leaf: what the handlers do to the status *)

LEMMA SaysFacts ==
    ASSUME NEW u \in Status
    PROVE  /\ Says(u) \in Status /\ Says(u).candidate = u.candidate
           /\ Says(u).downloaded = u.downloaded /\ Says(u).armed = u.armed
PROOF BY DEF Says, Status

LEMMA ClearedFacts ==
    ASSUME NEW u \in Status
    PROVE  /\ Cleared(u) \in Status /\ ~Cleared(u).downloaded
           /\ \A r \in Releases : Selected(u, r) \in Status /\ ~Selected(u, r).downloaded
PROOF BY DEF Cleared, Selected, Status

LEMMA SetFacts ==
    ASSUME NEW u \in Status, NEW b \in BOOLEAN
    PROVE  /\ [u EXCEPT !.armed = b] \in Status
           /\ [u EXCEPT !.armed = b].candidate = u.candidate
           /\ [u EXCEPT !.armed = b].downloaded = u.downloaded
           /\ [u EXCEPT !.downloaded = b] \in Status
           /\ [u EXCEPT !.downloaded = b].candidate = u.candidate
           /\ [u EXCEPT !.downloaded = b].downloaded = b
PROOF BY DEF Status

\* A reply may only tell that an install is armed.
LEMMA ReplyFacts ==
    ASSUME NEW u \in Status
    PROVE  /\ Reply(u) \in Status /\ Reply(u).candidate = u.candidate
           /\ Reply(u).downloaded = u.downloaded
PROOF
<1>1. /\ [Says(u) EXCEPT !.armed = TRUE] \in Status
      /\ [Says(u) EXCEPT !.armed = TRUE].candidate = u.candidate
      /\ [Says(u) EXCEPT !.armed = TRUE].downloaded = u.downloaded
  BY DEF Says, Status
<1>2. /\ [u EXCEPT !.armed = FALSE] \in Status
      /\ [u EXCEPT !.armed = FALSE].candidate = u.candidate
      /\ [u EXCEPT !.armed = FALSE].downloaded = u.downloaded
  BY SetFacts
<1>3. Reply(u) \in {u, [Says(u) EXCEPT !.armed = TRUE], [u EXCEPT !.armed = FALSE]}
  BY DEF Reply
<1> QED BY <1>1, <1>2, <1>3

LEMMA FreshFacts == Fresh \in Status /\ ~Fresh.downloaded
PROOF BY DEF Fresh, Status

\* A runner that is away.
LEMMA NoRunnerFacts ==
    /\ NoRunner \in Runners /\ NoRunner.at = "off" /\ NoRunner.part = 1
    /\ NoRunner.torn = FALSE
PROOF BY ThreeParts DEF NoRunner, Runners, RunnerPlaces

-----------------------------------------------------------------------------
(* Leaf: checks, selections and downloads; the runners, the card and the      *)
(* barrier stay as they are                                                  *)

LEMMA Aside ==
    ASSUME UpdateInv, UNCHANGED <<installing, runner, result, card, barrier, stuck>>
    PROVE  OnCard' /\ Shielded'
PROOF BY DEF UpdateInv, OnCard, Synced, Sound, Shielded, ReplacedBehindBarrier, Whole, Working,
     Writing, Direct, card

LEMMA CheckStep == ASSUME UpdateInv, Check \/ LoadReleases PROVE UpdateInv'
PROOF
<1>1. /\ update' \in Status /\ check' \in Checks
      /\ update'.candidate = update.candidate /\ update'.downloaded = update.downloaded
  <2>1. CASE Check
    BY <2>1, SaysFacts DEF Check, StartCheck, NoCheck, UpdateInv, UpdateTypes, Checks
  <2>2. CASE LoadReleases
    BY <2>2, SaysFacts DEF LoadReleases, StartCheck, NoCheck, UpdateInv, UpdateTypes, Checks
  <2> QED BY <2>1, <2>2
<1>2. /\ ~Downloading /\ ~installing
      /\ UNCHANGED <<download, installing, artifact, runner, result, card, services, mishaps>>
  BY DEF Check, LoadReleases
<1>3. UpdateTypes'
  BY <1>1, <1>2 DEF UpdateInv, UpdateTypes, UpdateTypeOK, Status, Checks, card, services
<1>4. Jobs'
  BY <1>1, <1>2 DEF UpdateInv, Jobs, Downloading, Working
<1> QED BY <1>2, <1>3, <1>4, Aside DEF UpdateInv, services

LEMMA PollCheckStep == ASSUME UpdateInv, PollCheck PROVE UpdateInv'
PROOF
<1>1. /\ update' \in Status /\ check' \in Checks
      /\ update' = update \/ ~update'.downloaded
  <2>1. check' \in Checks
    <3>1. check' \in {NoCheck, [NoCheck EXCEPT !.scope = "all"]}
      BY DEF PollCheck
    <3>2. NoCheck \in Checks
      BY DEF NoCheck, Checks
    <3>3. [NoCheck EXCEPT !.scope = "all"] \in Checks
      BY DEF NoCheck, Checks
    <3> QED BY <3>1, <3>2, <3>3
  <2>2. /\ Says(Cleared(update)) \in Status /\ ~Says(Cleared(update)).downloaded
        /\ update \in Status
    BY DEF UpdateInv, UpdateTypes, Says, Cleared, Status
  <2> QED BY <2>1, <2>2, ClearedFacts DEF PollCheck
<1>2. /\ ~Downloading /\ ~installing
      /\ UNCHANGED <<download, installing, artifact, runner, result, card, services, mishaps>>
  BY DEF PollCheck, UpdateInv, Jobs
<1>3. UpdateTypes'
  BY <1>1, <1>2 DEF UpdateInv, UpdateTypes, UpdateTypeOK, Status, Checks, card, services
<1>4. Jobs'
  BY <1>1, <1>2 DEF UpdateInv, Jobs, Downloading, Working
<1> QED BY <1>2, <1>3, <1>4, Aside DEF UpdateInv, services

LEMMA SelectStep == ASSUME UpdateInv, NEW r \in Releases, SelectOption(r) PROVE UpdateInv'
PROOF
<1>1. /\ update' \in Status
      /\ \/ ~update'.downloaded
         \/ update'.candidate = update.candidate /\ update'.downloaded = update.downloaded
  BY SaysFacts, ClearedFacts, ReplyFacts DEF SelectOption, UpdateInv, UpdateTypes
<1>2. /\ ~Downloading /\ ~installing
      /\ UNCHANGED <<jobs, artifact, runner, result, card, services, mishaps>>
  BY DEF SelectOption
<1>3. UpdateTypes'
  BY <1>1, <1>2 DEF UpdateInv, UpdateTypes, UpdateTypeOK, Status, jobs, card, services
<1>4. Jobs'
  BY <1>1, <1>2 DEF UpdateInv, Jobs, Downloading, Checking, Working, jobs
<1> QED BY <1>2, <1>3, <1>4, Aside DEF UpdateInv, jobs, services

LEMMA DownloadStep == ASSUME UpdateInv, Download PROVE UpdateInv'
PROOF
<1>1. /\ update' \in Status /\ update'.candidate = update.candidate /\ ~update'.downloaded
  <2>1. /\ [Says(update) EXCEPT !.downloaded = FALSE] \in Status
        /\ [Says(update) EXCEPT !.downloaded = FALSE].candidate = update.candidate
        /\ ~[Says(update) EXCEPT !.downloaded = FALSE].downloaded
    BY DEF UpdateInv, UpdateTypes, Says, Status
  <2> QED BY <2>1, ReplyFacts DEF Download
<1>2. /\ ~Checking /\ ~installing /\ download'.release = update.candidate
      /\ UNCHANGED <<check, installing, artifact, runner, result, card, services, mishaps>>
  BY DEF Download
<1>3. download' \in Downloads
  <2>1. /\ download.count \in 0 .. MaxDownloads /\ download.count < MaxDownloads
        /\ update.candidate \in Releases \cup {Nothing} /\ MaxDownloads \in Nat
    BY DEF Download, UpdateInv, UpdateTypes, UpdateTypeOK
  <2>2. download.count + 1 \in 0 .. MaxDownloads
    BY <2>1
  <2> QED BY <2>1, <2>2 DEF Download, Downloads
<1>4. UpdateTypes'
  BY <1>1, <1>2, <1>3 DEF UpdateInv, UpdateTypes, UpdateTypeOK, Status, Downloads, card, services
<1>5. Jobs'
  BY <1>1, <1>2 DEF UpdateInv, Jobs, Downloading, Checking, Working
<1> QED BY <1>2, <1>4, <1>5, Aside DEF UpdateInv, services

\* A download that is over leaves no release behind.
LEMMA DownloadEndsFacts ==
    ASSUME UpdateInv, DownloadEnds
    PROVE  download' \in Downloads /\ download'.release = Nothing
PROOF BY DEF DownloadEnds, UpdateInv, UpdateTypes, Downloads

LEMMA PollDownloadStep == ASSUME UpdateInv, PollDownload \/ Cancel PROVE UpdateInv'
PROOF
<1>1. /\ update' \in Status /\ update'.candidate = update.candidate
      /\ update'.downloaded => artifact' = download.release
      /\ artifact' \in {Nothing, artifact, download.release}
  <2>1. /\ [update EXCEPT !.downloaded = FALSE] \in Status
        /\ [update EXCEPT !.downloaded = FALSE].candidate = update.candidate
        /\ ~[update EXCEPT !.downloaded = FALSE].downloaded
        /\ [update EXCEPT !.downloaded = TRUE, !.fetched = TRUE] \in Status
        /\ [update EXCEPT !.downloaded = TRUE, !.fetched = TRUE].candidate = update.candidate
        /\ [Says(update) EXCEPT !.downloaded = FALSE] \in Status
        /\ [Says(update) EXCEPT !.downloaded = FALSE].candidate = update.candidate
        /\ ~[Says(update) EXCEPT !.downloaded = FALSE].downloaded
    BY DEF UpdateInv, UpdateTypes, Says, Status
  <2>2. CASE PollDownload
    BY <2>1, <2>2, SaysFacts, ZenonT(60) DEF PollDownload
  <2>3. CASE Cancel
    BY <2>1, <2>3, ReplyFacts DEF Cancel
  <2> QED BY <2>2, <2>3
<1>2. /\ Downloading /\ ~Checking /\ ~installing /\ download' \in Downloads
      /\ download'.release = Nothing
      /\ UNCHANGED <<check, installing, runner, result, card, services, mishaps>>
  BY DownloadEndsFacts DEF PollDownload, Cancel, UpdateInv, Jobs
<1>3. UpdateTypes'
  BY <1>1, <1>2 DEF UpdateInv, UpdateTypes, UpdateTypeOK, Status, Downloads, card, services
<1>4. Jobs'
  BY <1>1, <1>2 DEF UpdateInv, Jobs, Downloading, Checking, Working
<1> QED BY <1>2, <1>3, <1>4, Aside DEF UpdateInv, services

-----------------------------------------------------------------------------
(* Leaf: the barrier *)

\* A failure that is counted stays within the bound.
LEMMA UpdateFailsFacts ==
    ASSUME UpdateInv, NEW f, Happens(f)
    PROVE  mishaps' \in 0 .. MaxMishaps
PROOF BY DEF Happens, UpdateInv, UpdateTypes, UpdateTypeOK

LEMMA BarrierStep ==
    ASSUME UpdateInv, CallerBegins \/ CallerEnds \/ Reaped
    PROVE  UpdateInv'
PROOF
<1>1. UNCHANGED <<update, jobs, artifact, runner, result, card, quiesce>>
  BY DEF CallerBegins, CallerEnds, Reaped
<1>2. /\ mishaps' \in 0 .. MaxMishaps
      /\ barrier' \in Owners /\ stuck' \in BOOLEAN
  BY UpdateFailsFacts DEF CallerBegins, CallerEnds, Reaped, UpdateInv, UpdateTypes, UpdateTypeOK, Owners
<1>3. UpdateTypes'
  BY <1>1, <1>2 DEF UpdateInv, UpdateTypes, UpdateTypeOK, jobs, card
<1>4. Jobs'
  BY <1>1 DEF UpdateInv, Jobs, Downloading, Checking, Working, jobs
<1>5. OnCard'
  BY <1>1 DEF UpdateInv, OnCard, Synced, Sound, Whole, Working, Writing, card
<1>6. Shielded'
  <2> DEFINE Behind(b, s) == installing /\ Working("child") /\ Direct("child") => b = "update" /\ ~s
  <2>1. Behind(barrier, stuck)
    BY DEF UpdateInv, Shielded, ReplacedBehindBarrier
  <2>2. ReplacedBehindBarrier' <=> Behind(barrier', stuck')
    BY <1>1 DEF ReplacedBehindBarrier, Working, Direct, jobs
  <2>3. CASE CallerBegins
    BY <2>2, <2>3 DEF CallerBegins, Shielded, Nothing
  <2>4. CASE CallerEnds \/ Reaped
    BY <2>1, <2>2, <2>4 DEF CallerEnds, Reaped, UpdateInv, Shielded
  <2> QED BY <2>3, <2>4 DEF CallerBegins, CallerEnds, Reaped
<1> QED BY <1>3, <1>4, <1>5, <1>6 DEF UpdateInv

LEMMA EndBarrierFacts ==
    ASSUME UpdateInv, NEW ended, EndBarrier(ended)
    PROVE  /\ barrier' \in {barrier, Nothing} /\ quiesce' \in BOOLEAN /\ stuck' = stuck
           /\ barrier' = Nothing => ~stuck
           /\ mishaps' \in 0 .. MaxMishaps
PROOF
<1>1. quiesce' \in BOOLEAN
  BY DEF EndBarrier
<1>2. mishaps' \in 0 .. MaxMishaps
  BY UpdateFailsFacts DEF EndBarrier, UpdateInv, UpdateTypes, UpdateTypeOK
<1> QED BY <1>1, <1>2 DEF EndBarrier, UpdateInv, Shielded

\* A child that is put away, or another put in its place, leaves what the
\* orphan relies on.
LEMMA ChildAside ==
    ASSUME UpdateInv, UNCHANGED card, NEW r \in Runners,
           runner' = [runner EXCEPT !["child"] = r],
           r.at \in {"off", "verify"}, r.at = "verify" => r.part = 1 /\ ~r.torn,
           result' = result \/ result'.state \notin {"installed", "armed"}
    PROVE  /\ runner' \in [Slots -> Runners] /\ runner'["child"] = r
           /\ runner'["orphan"] = runner["orphan"]
           /\ OnCard'
PROOF
<1>1. /\ runner' \in [Slots -> Runners] /\ runner'["child"] = r
      /\ runner'["orphan"] = runner["orphan"]
  BY DEF UpdateInv, UpdateTypes, Slots
<1>2. \A i \in Slots : runner'[i] = runner[i] \/ runner'[i] = r
  BY <1>1 DEF Slots
<1>3. Synced'
  BY DEF UpdateInv, OnCard, Synced, card
<1>4. \A i \in Slots : runner'[i].at \in {"verify", "extract"} => runner'[i].part = 1
  BY <1>2 DEF UpdateInv, OnCard
<1>5. ASSUME Sound PROVE Sound'
  <2>1. Whole' = Whole /\ UNCHANGED <<live, record, marker, payload, trigger>>
    BY DEF Whole, card
  <2>2. \A i \in Slots : /\ Writing(i)' => runner'[i] = runner[i]
                         /\ Writing(i)' => Writing(i)
    BY <1>2 DEF Writing
  <2>3. \A i \in Slots : Working(i)' => ~runner'[i].torn
    BY <1>2, <1>5 DEF Sound, Working
  <2>4. \A i \in Slots : Writing(i)' => \A j \in Slots \ {i} : ~Writing(j)'
    BY <2>2, <1>5 DEF Sound
  <2>5. \A i \in Slots : runner'[i].at \in {"replace", "mark", "arm"} => runner'[i] = runner[i]
    BY <1>2
  <2> QED BY <1>5, <2>1, <2>3, <2>4, <2>5 DEF Sound
<1> QED BY <1>1, <1>3, <1>4, <1>5 DEF UpdateInv, OnCard, card

LEMMA PollInstallStep == ASSUME UpdateInv, PollInstall PROVE UpdateInv'
PROOF
<1>1. /\ installing' = FALSE /\ runner' \in [Slots -> Runners] /\ runner'["child"].at = "off"
      /\ runner'["orphan"] = runner["orphan"] /\ OnCard'
      /\ UNCHANGED <<check, download, artifact, result, card>>
  <2>1. UNCHANGED <<check, download, artifact, result, card>>
    BY DEF PollInstall
  <2>2. CASE installing
    BY <2>1, <2>2, NoRunnerFacts, ChildAside DEF PollInstall
  <2>3. CASE ~installing
    <3>1. UNCHANGED <<installing, runner>>
      BY <2>3 DEF PollInstall
    <3>2. OnCard'
      BY <2>1, <3>1 DEF UpdateInv, OnCard, Synced, Sound, Whole, Working, Writing, card
    <3> QED BY <2>1, <2>3, <3>1, <3>2 DEF UpdateInv, UpdateTypes, UpdateTypeOK, Jobs
  <2> QED BY <2>2, <2>3
<1>2. /\ update' \in Status /\ update'.candidate = update.candidate
      /\ update'.downloaded = update.downloaded
  <2>1. \A u \in {update, Finished} :
          /\ u \in Status /\ u.candidate = update.candidate /\ u.downloaded = update.downloaded
    BY DEF UpdateInv, UpdateTypes, Finished, Says, Status
  <2>2. \E u \in {update, Finished} : update' \in {u, Says(u)}
    BY DEF PollInstall
  <2> QED BY <2>1, <2>2, SaysFacts
<1>3. /\ barrier' \in {barrier, Nothing} /\ quiesce' \in BOOLEAN /\ stuck' = stuck
      /\ barrier' = Nothing => ~stuck
      /\ mishaps' \in 0 .. MaxMishaps
  BY EndBarrierFacts DEF PollInstall, UpdateInv, UpdateTypes, UpdateTypeOK, Shielded, services
<1>4. UpdateTypes'
  <2>1. \A i \in Slots : runner'[i].part \in 1 .. Len(Parts) + 1
    BY <1>1 DEF Runners
  <2> QED BY <1>1, <1>2, <1>3, <2>1, ZenonT(60)
      DEF UpdateInv, UpdateTypes, UpdateTypeOK, Status, card, Owners
<1>5. Jobs'
  BY <1>1, <1>2 DEF UpdateInv, Jobs, Downloading, Checking, Working, Slots
<1>6. Shielded'
  BY <1>1, <1>3 DEF Shielded, ReplacedBehindBarrier
<1> QED BY <1>1, <1>4, <1>5, <1>6 DEF UpdateInv

LEMMA UpdateInstallStep == ASSUME UpdateInv, InstallDownload PROVE UpdateInv'
PROOF
<1> DEFINE new == [NoRunner EXCEPT !.at = "verify", !.release = update.candidate]
<1>1. /\ ~installing /\ runner["child"].at = "off" /\ ~Checking /\ ~Downloading
      /\ update.candidate \in Releases
      /\ UNCHANGED <<check, download, artifact, card>>
  BY DEF InstallDownload, Ready, UpdateInv, UpdateTypes, Status, Jobs
<1>2. /\ update' \in Status /\ update'.candidate = update.candidate
      /\ update'.downloaded = update.downloaded
  <2>1. \A u \in {Says(update), [Says(update) EXCEPT !.armed = FALSE]} :
          /\ u \in Status /\ u.candidate = update.candidate /\ u.downloaded = update.downloaded
    BY DEF UpdateInv, UpdateTypes, Says, Status
  <2>2. update' \in {Says(update), [Says(update) EXCEPT !.armed = FALSE]}
    BY DEF InstallDownload, StartRunner, CannotStart
  <2> QED BY <2>1, <2>2
<1>3. new \in Runners /\ new.at = "verify" /\ new.part = 1 /\ ~new.torn
      /\ new.release = update.candidate
  BY <1>1, NoRunnerFacts DEF Runners, RunnerPlaces
<1> HIDE DEF new
<1>4. /\ \/ /\ installing' = TRUE
            /\ runner' = [runner EXCEPT !["child"] = new]
            /\ update.candidate \notin Stock => barrier' = "update" /\ ~stuck'
         \/ UNCHANGED <<installing, runner>>
      /\ barrier' \in Owners /\ stuck' \in BOOLEAN /\ quiesce' \in BOOLEAN
      /\ barrier' = Nothing => ~stuck'
      /\ mishaps' \in 0 .. MaxMishaps
  <2>1. /\ MaxMishaps \in Nat /\ mishaps \in 0 .. MaxMishaps /\ barrier \in Owners
        /\ stuck \in BOOLEAN /\ quiesce \in BOOLEAN
        /\ barrier = Nothing => ~stuck
    BY DEF UpdateInv, UpdateTypes, UpdateTypeOK, Shielded
  <2>2. mishaps' \in 0 .. MaxMishaps
    BY <2>1, UpdateFailsFacts DEF InstallDownload, StartRunner, services
  <2>3. CASE update.candidate \in Stock
    BY <2>1, <2>2, <2>3 DEF InstallDownload, StartRunner, CannotStart, services, new
  <2>4. CASE update.candidate \notin Stock
    <3>1. \/ /\ installing' = TRUE /\ barrier' = "update" /\ stuck' = FALSE
             /\ runner' = [runner EXCEPT !["child"] = new]
          \/ /\ UNCHANGED <<installing, runner>>
             /\ \/ barrier' = Nothing /\ stuck' = FALSE
                \/ barrier' = "update" /\ stuck' \in BOOLEAN
                \/ UNCHANGED <<barrier, stuck>>
      BY <2>1, <2>4 DEF InstallDownload, StartRunner, CannotStart, new
    <3>2. quiesce' \in BOOLEAN
      BY <2>4 DEF InstallDownload
    <3>3. /\ barrier' \in Owners /\ stuck' \in BOOLEAN
          /\ barrier' = Nothing => ~stuck'
      <4>1. CASE barrier' = "update" /\ stuck' \in BOOLEAN
        BY <4>1 DEF Owners, Nothing
      <4>2. CASE barrier' = Nothing /\ stuck' = FALSE
        BY <4>2 DEF Owners
      <4>3. CASE UNCHANGED <<barrier, stuck>>
        BY <2>1, <4>3
      <4> QED BY <3>1, <4>1, <4>2, <4>3
    <3> QED BY <2>2, <3>1, <3>2, <3>3
  <2> QED BY <2>3, <2>4
<1>5. /\ runner' \in [Slots -> Runners] /\ runner'["orphan"] = runner["orphan"]
      /\ runner'["child"] \in {runner["child"], new} /\ OnCard'
  <2>1. result' = result \/ result'.state \notin {"installed", "armed"}
    BY DEF InstallDownload, StartRunner, CannotStart, Nothing
  <2>2. CASE runner' = [runner EXCEPT !["child"] = new]
    BY <1>1, <1>3, <2>1, <2>2, ChildAside
  <2>3. CASE UNCHANGED runner
    <3>1. OnCard'
      BY <1>1, <2>1, <2>3 DEF UpdateInv, OnCard, Synced, Sound, Whole, Working, Writing, card
    <3> QED BY <2>3, <3>1 DEF UpdateInv, UpdateTypes
  <2> QED BY <1>4, <2>2, <2>3
<1>6. UpdateTypes'
  <2>1. \A i \in Slots : runner'[i].part \in 1 .. Len(Parts) + 1
    BY <1>5 DEF Runners
  <2>2. installing' \in BOOLEAN
    BY <1>1, <1>4 DEF UpdateInv, UpdateTypes, UpdateTypeOK
  <2> QED BY <1>1, <1>2, <1>4, <1>5, <2>1, <2>2
      DEF UpdateInv, UpdateTypes, UpdateTypeOK, Status, card
<1>7. Jobs'
  <2>1. runner'["child"].at # "off" => installing'
    BY <1>1, <1>4, <1>5
  <2>2. Working("child")' => runner'["child"].release = update'.candidate
    BY <1>1, <1>2, <1>3, <1>5 DEF Working
  <2>3. \A i \in Slots : Working(i)' => runner'[i].release \in Releases
    BY <1>1, <1>3, <1>5 DEF UpdateInv, Jobs, Working, Slots
  <2> QED BY <1>1, <1>2, <2>1, <2>2, <2>3 DEF UpdateInv, Jobs, Downloading, Checking
<1>8. Shielded'
  BY <1>1, <1>3, <1>4, <1>5 DEF UpdateInv, Shielded, ReplacedBehindBarrier, Working, Direct, UpdateTypes, Slots
<1> QED BY <1>5, <1>6, <1>7, <1>8 DEF UpdateInv

-----------------------------------------------------------------------------
(* Leaf: the runners *)

\* A runner never touches the status, the jobs or the barrier; a direct install
\* stays behind the barrier it started behind.
LEMMA RunnerAside ==
    ASSUME UpdateInv, Installs, NEW i \in Slots, Working(i),
           runner' \in [Slots -> Runners],
           \A j \in Slots : Working(j)' => /\ Working(j)
                                           /\ runner'[j].release = runner[j].release,
           runner'["child"].at # "off" => runner["child"].at # "off",
           artifact' \in {artifact, Nothing}, mishaps' \in 0 .. MaxMishaps,
           live' \in Lives, record' \in {record, runner[i].release},
           marker' \in BOOLEAN, exposed' \in BOOLEAN,
           payload' \in {payload, payload \cup {runner[i].release}},
           trigger' \in {trigger, runner[i].release},
           kept' \in Kept, kept'.payload \subseteq payload'
    PROVE  UpdateTypes' /\ Jobs' /\ Shielded'
PROOF
<1>1. runner[i].release \in Releases /\ "child" \in Slots
  BY DEF UpdateInv, Jobs, Slots
<1>2. UpdateTypes'
  <2>1. \A j \in Slots : runner'[j].part \in 1 .. Len(Parts) + 1
    BY DEF Runners
  <2> QED BY <1>1, <2>1
      DEF UpdateInv, UpdateTypes, UpdateTypeOK, Installs, jobs, services, Lives, Owners
<1>3. Jobs'
  BY <1>1 DEF UpdateInv, Jobs, Installs, jobs, Downloading, Checking
<1>4. Shielded'
  BY <1>1 DEF UpdateInv, Shielded, ReplacedBehindBarrier, Installs, jobs, services, Direct
<1> QED BY <1>2, <1>3, <1>4

\* Where a step takes its runner, and that it leaves the other where it is.
LEMMA UpdateMoves ==
    ASSUME UpdateInv, NEW i \in Slots, Working(i), NEW place \in RunnerPlaces \ {"off"},
           runner' = [runner EXCEPT ![i] = Moved(i, place)]
    PROVE  /\ runner' \in [Slots -> Runners]
           /\ \A j \in Slots \ {i} : runner'[j] = runner[j]
           /\ place = "exited" => runner'[i].at \in {"off", "exited"}
           /\ place # "exited" => /\ runner'[i].at = place
                                  /\ runner'[i].release = runner[i].release
                                  /\ runner'[i].part = runner[i].part
                                  /\ runner'[i].torn = runner[i].torn
           /\ \A j \in Slots : Working(j)' => /\ Working(j)
                                              /\ runner'[j].release = runner[j].release
           /\ runner'["child"].at # "off" => runner["child"].at # "off"
PROOF
<1>1. runner \in [Slots -> Runners] /\ runner[i] \in Runners /\ "child" \in Slots
  BY DEF UpdateInv, UpdateTypes, Slots
<1>2. Moved(i, place) \in Runners
  BY <1>1, NoRunnerFacts DEF Moved, Runners
<1>3. runner' \in [Slots -> Runners] /\ runner'[i] = Moved(i, place)
      /\ \A j \in Slots \ {i} : runner'[j] = runner[j]
  BY <1>1, <1>2
<1>4. /\ place = "exited" => Moved(i, place).at \in {"off", "exited"}
      /\ place # "exited" => /\ Moved(i, place).at = place
                             /\ Moved(i, place).release = runner[i].release
                             /\ Moved(i, place).part = runner[i].part
                             /\ Moved(i, place).torn = runner[i].torn
  BY <1>1, NoRunnerFacts DEF Moved, Runners
<1>5. \A j \in Slots : Working(j)' => Working(j) /\ runner'[j].release = runner[j].release
  BY <1>3, <1>4 DEF Working
<1>6. runner'["child"].at # "off" => runner["child"].at # "off"
  BY <1>1, <1>3 DEF Working
<1> QED BY <1>3, <1>4, <1>5, <1>6

\* What a power cut may bring back keeps its types when something is written.
LEMMA WritesFacts ==
    ASSUME UpdateInv, NEW thing, NEW value, Writes(thing, value),
           \/ thing = "marker" /\ value \in BOOLEAN
           \/ thing = "record" /\ value \in Releases
           \/ thing = "trigger" /\ value \in Releases
    PROVE  kept' \in Kept /\ kept'.payload = kept.payload
PROOF
<1>1. kept \in Kept
  BY DEF UpdateInv, UpdateTypes
<1>2. CASE thing = "marker" /\ value \in BOOLEAN
  BY <1>1, <1>2 DEF Writes, Kept
<1>3. CASE thing = "record" /\ value \in Releases
  BY <1>1, <1>3 DEF Writes, Kept
<1>4. CASE thing = "trigger" /\ value \in Releases
  BY <1>1, <1>4 DEF Writes, Kept
<1> QED BY <1>2, <1>3, <1>4

LEMMA OnlyOfFacts ==
    ASSUME NEW l \in Lives, NEW r \in Releases \cup {Shipped}, NEW m \in BOOLEAN,
           NEW copied \in SUBSET Releases, NEW t \in Releases \cup {Nothing}
    PROVE  /\ OnlyOf(l, r, m, copied, t) \in Kept
           /\ OnlyOf(l, r, m, copied, t).payload = copied
PROOF
<1>1. [p \in 1 .. Len(Parts) |-> {l[p]}]
          \in [1 .. Len(Parts) -> SUBSET (Releases \cup {Shipped, Partial})]
  BY DEF Lives
<1> QED BY <1>1 DEF OnlyOf, Kept

\* The values of what is on the card, for the lemmas that follow.
LEMMA CardFacts ==
    ASSUME UpdateInv
    PROVE  /\ live \in Lives /\ record \in Releases \cup {Shipped} /\ marker \in BOOLEAN
           /\ payload \in SUBSET Releases /\ trigger \in Releases \cup {Nothing}
           /\ kept \in Kept /\ kept.payload \subseteq payload /\ exposed \in BOOLEAN
           /\ mishaps \in 0 .. MaxMishaps
PROOF BY DEF UpdateInv, UpdateTypes, UpdateTypeOK, Lives

LEMMA VerifyStep ==
    ASSUME UpdateInv, NEW i \in Slots, Verify(i) \/ SyncAndReport(i) \/ RunnerFails(i)
    PROVE  UpdateInv'
PROOF
<1>1. /\ Working(i) /\ Installs /\ UNCHANGED <<live, record, marker, payload, trigger, exposed>>
      /\ artifact' \in {artifact, Nothing}
  BY DEF Verify, SyncAndReport, RunnerFails, Goes, Reports, Working, card
<1>2. mishaps' \in 0 .. MaxMishaps
  BY UpdateFailsFacts, CardFacts DEF Verify, SyncAndReport, RunnerFails
<1>3. \/ kept' = kept /\ (result'.state = "installing" \/ result' = result)
      \/ kept' = OnlyOf(live, record, marker, payload, trigger)
  BY DEF Verify, SyncAndReport, RunnerFails, Goes, Reports, SaysInstalling, card
<1>4. \E place \in {"extract", "exited"} :
          /\ runner' = [runner EXCEPT ![i] = Moved(i, place)]
          /\ place = "extract" => runner[i].at = "verify"
  BY DEF Verify, SyncAndReport, RunnerFails, Goes, Reports
<1>5. /\ runner' \in [Slots -> Runners]
      /\ \A j \in Slots \ {i} : runner'[j] = runner[j]
      /\ runner'[i].at \in {"off", "exited", "extract"}
      /\ runner'[i].at = "extract" => /\ runner[i].at = "verify"
                                      /\ runner'[i].part = runner[i].part
                                      /\ runner'[i].torn = runner[i].torn
      /\ \A j \in Slots : Working(j)' => /\ Working(j)
                                         /\ runner'[j].release = runner[j].release
      /\ runner'["child"].at # "off" => runner["child"].at # "off"
  <2>1. PICK place \in {"extract", "exited"} :
            /\ runner' = [runner EXCEPT ![i] = Moved(i, place)]
            /\ place = "extract" => runner[i].at = "verify"
    BY <1>4
  <2> QED BY <1>1, <2>1, UpdateMoves DEF RunnerPlaces
<1>6. kept' \in Kept /\ kept'.payload \subseteq payload'
  BY <1>1, <1>3, CardFacts, OnlyOfFacts
<1>7. UpdateTypes' /\ Jobs' /\ Shielded'
  BY <1>1, <1>2, <1>5, <1>6, CardFacts, RunnerAside
<1>8. OnCard'
  <2>1. \A j \in Slots : runner'[j].at \in {"verify", "extract"} => runner'[j].part = 1
    BY <1>5 DEF UpdateInv, OnCard
  <2>2. Synced'
    BY <1>1, <1>3 DEF UpdateInv, OnCard, Synced
  <2>3. ASSUME Sound PROVE Sound'
    <3>1. Whole' = Whole
      BY <1>1 DEF Whole
    <3>2. \A j \in Slots : Writing(j)' => Writing(j) /\ runner'[j] = runner[j]
      BY <1>5 DEF Writing
    <3>3. \A j \in Slots : Working(j)' => ~runner'[j].torn
      BY <1>1, <1>5, <2>3 DEF Sound, Working
    <3>4. \A j \in Slots : Writing(j)' => \A k \in Slots \ {j} : ~Writing(k)'
      BY <2>3, <3>2 DEF Sound
    <3>5. \A j \in Slots : runner'[j].at \in {"replace", "mark", "arm"} => runner'[j] = runner[j]
      BY <3>2 DEF Writing
    <3> QED BY <1>1, <2>3, <3>1, <3>3, <3>4, <3>5 DEF Sound
  <2> QED BY <1>1, <2>1, <2>2, <2>3 DEF UpdateInv, OnCard
<1> QED BY <1>7, <1>8 DEF UpdateInv

LEMMA ExtractStep == ASSUME UpdateInv, NEW i \in Slots, Extract(i) PROVE UpdateInv'
PROOF
<1>1. /\ runner[i].at = "extract" /\ Working(i) /\ Installs /\ "child" \in Slots
      /\ runner \in [Slots -> Runners]
      /\ UNCHANGED <<artifact, live, record, payload, trigger>>
      /\ result'.state = "installing"
  <2>1. /\ runner[i].at = "extract" /\ Installs /\ SaysInstalling(i)
        /\ UNCHANGED <<artifact, live, record, payload, trigger>>
    BY DEF Extract
  <2>2. result'.state = "installing"
    BY <2>1 DEF SaysInstalling
  <2> QED BY <2>1, <2>2 DEF Working, Slots, UpdateInv, UpdateTypes
<1>2. PICK place \in {"exited", "copy", "replace"} :
          runner' = [j \in Slots |->
              IF j = i THEN Moved(i, place)
              ELSE [runner[j] EXCEPT !.torn = @ \/ runner[j].release = runner[i].release]]
  BY DEF Extract
<1>3. /\ Moved(i, place) \in Runners
      /\ place = "exited" => Moved(i, place).at \in {"off", "exited"}
      /\ place # "exited" => /\ Moved(i, place).at = place
                             /\ Moved(i, place).release = runner[i].release
                             /\ Moved(i, place).part = runner[i].part
                             /\ Moved(i, place).torn = runner[i].torn
  BY <1>1, NoRunnerFacts DEF Moved, Runners, RunnerPlaces
<1>4. \A j \in Slots \ {i} : /\ runner'[j] \in Runners
                             /\ runner'[j].at = runner[j].at
                             /\ runner'[j].release = runner[j].release
                             /\ runner'[j].part = runner[j].part
  BY <1>1, <1>2 DEF Runners
<1>5. runner' \in [Slots -> Runners] /\ runner'[i] = Moved(i, place)
  BY <1>2, <1>3, <1>4
<1>6. mishaps' \in 0 .. MaxMishaps
  BY UpdateFailsFacts, CardFacts DEF Extract
<1>7. /\ marker' \in BOOLEAN /\ exposed' \in BOOLEAN
      /\ kept' \in Kept /\ kept'.payload \subseteq payload
      /\ marker' => marker
  <2>1. \/ UNCHANGED <<marker, kept>>
        \/ marker' = FALSE /\ Writes("marker", FALSE)
    BY DEF Extract
  <2> DEFINE met == exposed \/ ~Alone(i)
  <2>2. exposed' = TRUE \/ exposed' = met
    BY DEF Extract
  <2>3. met \in BOOLEAN
    OBVIOUS
  <2> HIDE DEF met
  <2>4. exposed' \in BOOLEAN
    <3>1. CASE exposed' = TRUE
      BY <3>1, Zenon
    <3>2. CASE exposed' = met
      BY <3>2, <2>3, Zenon
    <3> QED BY <2>2, <3>1, <3>2
  <2>5. CASE UNCHANGED <<marker, kept>>
    BY <2>4, <2>5, CardFacts
  <2>6. CASE marker' = FALSE /\ Writes("marker", FALSE)
    <3>1. kept' \in Kept /\ kept'.payload = kept.payload
      BY <2>6, WritesFacts
    <3> QED BY <2>4, <2>6, <3>1, CardFacts
  <2> QED BY <2>1, <2>5, <2>6
<1>8. ~exposed' => /\ ~exposed /\ \A j \in Slots \ {i} : ~Working(j)
                   /\ runner'[i].at = "replace" => ~marker'
  <2>1. ~exposed' => ~exposed /\ Alone(i)
    BY DEF Extract
  <2>2. ~exposed' => runner'[i] \in {Moved(i, "exited"), Moved(i, "copy")} \/ ~marker'
    BY DEF Extract
  <2>3. Moved(i, "exited").at # "replace" /\ Moved(i, "copy").at # "replace"
    BY <1>1, NoRunnerFacts DEF Moved, Runners, RunnerPlaces
  <2> QED BY <2>1, <2>2, <2>3 DEF Alone
<1>9. UpdateTypes' /\ Jobs' /\ Shielded'
  <2>1. \A j \in Slots : Working(j)' => Working(j) /\ runner'[j].release = runner[j].release
    BY <1>1, <1>3, <1>4, <1>5 DEF Working
  <2>2. runner'["child"].at # "off" => runner["child"].at # "off"
    BY <1>1, <1>4
  <2>3. /\ artifact' \in {artifact, Nothing} /\ live' \in Lives
        /\ record' \in {record, runner[i].release}
        /\ payload' \in {payload, payload \cup {runner[i].release}}
        /\ trigger' \in {trigger, runner[i].release}
        /\ kept'.payload \subseteq payload'
    BY <1>1, <1>7, CardFacts
  <2> QED BY <1>1, <1>5, <1>6, <1>7, <2>1, <2>2, <2>3, RunnerAside
<1>10. OnCard'
  <2>1. \A j \in Slots : runner'[j].at \in {"verify", "extract"} => runner'[j].part = 1
    BY <1>3, <1>4, <1>5 DEF UpdateInv, OnCard
  <2>2. Synced'
    BY <1>1 DEF Synced
  <2>3. ASSUME ~exposed' PROVE Sound'
    <3>1. Sound /\ runner[i].part = 1 /\ ~runner[i].torn /\ Whole' = Whole
      BY <1>1, <1>8, <2>3 DEF UpdateInv, OnCard, Sound, Whole
    <3>2. \A j \in Slots \ {i} : ~Working(j)' /\ ~Writing(j)'
      BY <1>4, <1>8, <2>3 DEF Working, Writing
    <3>3. \A j \in Slots : Working(j)' => ~runner'[j].torn
      BY <1>3, <1>5, <3>1, <3>2 DEF Working
    <3>4. \A j \in Slots : Writing(j)' => \A k \in Slots \ {j} : ~Writing(k)'
      BY <3>2
    <3>5. \A j \in Slots : runner'[j].at = "replace" =>
              /\ ~marker'
              /\ \A p \in Ships(runner'[j].release) :
                    p < runner'[j].part => live'[p] = runner'[j].release
      <4>1. \A p \in Ships(runner'[i].release) : ~(p < 1)
        BY ThreeParts DEF Ships
      <4>2. \A j \in Slots : runner'[j].at = "replace" => j = i
        BY <3>2 DEF Writing
      <4> QED BY <1>3, <1>5, <1>8, <2>3, <3>1, <4>1, <4>2
    <3>6. \A j \in Slots : runner'[j].at \notin {"mark", "arm"}
      BY <1>3, <1>5, <3>2 DEF Writing
    <3> QED BY <1>1, <1>7, <3>1, <3>3, <3>4, <3>5, <3>6 DEF Sound
  <2> QED BY <2>1, <2>2, <2>3 DEF OnCard
<1> QED BY <1>9, <1>10 DEF UpdateInv

\* A runner that writes alone, and what that says of the other.
LEMMA AloneFacts ==
    ASSUME UpdateInv, Sound, NEW i \in Slots, Writing(i),
           runner' \in [Slots -> Runners], \A j \in Slots \ {i} : runner'[j] = runner[j],
           ~runner'[i].torn
    PROVE  /\ \A j \in Slots \ {i} : /\ ~Writing(j) /\ ~Writing(j)'
                                     /\ Working(j)' => ~runner'[j].torn
           /\ \A j \in Slots : Working(j)' => ~runner'[j].torn
           /\ \A j \in Slots : Writing(j)' => \A k \in Slots \ {j} : ~Writing(k)'
PROOF
<1>1. \A j \in Slots \ {i} : ~Writing(j) /\ ~Writing(j)'
  BY DEF Sound, Writing
<1>2. \A j \in Slots : Working(j)' => ~runner'[j].torn
  BY DEF Sound, Working
<1> QED BY <1>1, <1>2

LEMMA ReplaceStep == ASSUME UpdateInv, NEW i \in Slots, Replace(i) PROVE UpdateInv'
PROOF
<1> DEFINE p == runner[i].part
           own == runner[i].release
           meets == runner[i].torn \/ \E j \in Slots \ {i} : runner[j].at = "replace"
           Next1 == [runner EXCEPT ![i].part = @ + 1]
<1>1. /\ runner[i].at = "replace" /\ Working(i) /\ Writing(i)
      /\ p \in 1 .. Len(Parts) /\ p + 1 \in 1 .. Len(Parts) + 1
      /\ runner \in [Slots -> Runners] /\ own \in Releases /\ "child" \in Slots
  BY ThreeParts DEF Replace, UpdateInv, UpdateTypes, Jobs, Working, Writing, Runners, Slots
<1>2. /\ Installs /\ UNCHANGED <<artifact, record, marker, payload, trigger, exposed, mishaps>>
      /\ result'.state = "installing"
  BY DEF Replace, Goes, SaysInstalling
<1>3. \/ /\ p \in Ships(own) /\ live[p] # Partial
         /\ live' = [live EXCEPT ![p] = Partial]
         /\ kept' = [kept EXCEPT !.live[p] = @ \cup {Partial, Partial}]
         /\ runner' = [runner EXCEPT ![i] = Moved(i, "replace")]
      \/ /\ p \in Ships(own) /\ live[p] = Partial
         /\ live' = [live EXCEPT ![p] = own]
         /\ kept' = [kept EXCEPT !.live[p] = @ \cup {own, Partial}]
         /\ runner' = Next1
      \/ /\ p \in Ships(own) /\ live[p] = Partial /\ meets
         /\ live' = [live EXCEPT ![p] = Partial]
         /\ kept' = [kept EXCEPT !.live[p] = @ \cup {Partial, Partial}]
         /\ runner' = Next1
      \/ /\ p \notin Ships(own) /\ UNCHANGED <<live, kept>>
         /\ runner' = Next1
  BY DEF Replace, Goes
<1>4. /\ Next1 \in [Slots -> Runners]
      /\ Next1[i].at = "replace" /\ Next1[i].release = own /\ Next1[i].part = p + 1
      /\ Next1[i].torn = runner[i].torn
      /\ \A j \in Slots \ {i} : Next1[j] = runner[j]
  BY <1>1 DEF Runners
<1>5. /\ runner' \in [Slots -> Runners]
      /\ \A j \in Slots \ {i} : runner'[j] = runner[j]
      /\ runner'[i].at = "replace" /\ runner'[i].release = own
      /\ runner'[i].torn = runner[i].torn
  <2>1. CASE runner' = [runner EXCEPT ![i] = Moved(i, "replace")]
    BY <1>1, <2>1, UpdateMoves DEF RunnerPlaces
  <2>2. CASE runner' = Next1
    <3> HIDE DEF Next1
    <3> QED BY <1>4, <2>2
  <2> HIDE DEF Next1
  <2> QED BY <1>3, <2>1, <2>2
<1>6. live' \in Lives
  BY <1>1, <1>3, CardFacts DEF Lives
<1>7. kept' \in Kept /\ kept'.payload = kept.payload
  <2>1. kept \in Kept /\ Partial \in Releases \cup {Shipped, Partial}
        /\ own \in Releases \cup {Shipped, Partial}
    BY <1>1, CardFacts
  <2>2. \E tree \in Releases \cup {Shipped, Partial} :
            kept' \in {kept, [kept EXCEPT !.live[p] = @ \cup {tree, Partial}]}
    BY <1>3, <2>1
  <2>3. ASSUME NEW tree \in Releases \cup {Shipped, Partial}
        PROVE  /\ [kept EXCEPT !.live[p] = @ \cup {tree, Partial}] \in Kept
               /\ [kept EXCEPT !.live[p] = @ \cup {tree, Partial}].payload = kept.payload
    BY <1>1, <2>1 DEF Kept
  <2> QED BY <2>1, <2>2, <2>3
<1>8. UpdateTypes' /\ Jobs' /\ Shielded'
  <2>1. \A j \in Slots : Working(j)' => Working(j) /\ runner'[j].release = runner[j].release
    BY <1>1, <1>5 DEF Working
  <2>2. runner'["child"].at # "off" => runner["child"].at # "off"
    BY <1>1, <1>5
  <2>3. /\ artifact' \in {artifact, Nothing} /\ mishaps' \in 0 .. MaxMishaps
        /\ record' \in {record, runner[i].release}
        /\ marker' \in BOOLEAN /\ exposed' \in BOOLEAN
        /\ payload' \in {payload, payload \cup {runner[i].release}}
        /\ trigger' \in {trigger, runner[i].release}
        /\ kept'.payload \subseteq payload'
    BY <1>2, <1>7, CardFacts
  <2> QED BY <1>1, <1>2, <1>5, <1>6, <1>7, <2>1, <2>2, <2>3, RunnerAside
<1>9. OnCard'
  <2>1. \A j \in Slots : runner'[j].at \in {"verify", "extract"} => runner'[j].part = 1
    BY <1>5 DEF UpdateInv, OnCard
  <2>2. Synced'
    BY <1>2 DEF Synced
  <2>3. ASSUME Sound PROVE Sound'
    <3>1. ~meets /\ ~marker /\ \A q \in Ships(own) : q < p => live[q] = own
      BY <1>1, <2>3 DEF Sound, Writing
    <3>2. \A q \in Ships(own) : q < runner'[i].part => live'[q] = own
      <4>1. \A q \in Ships(own) : q \in 1 .. Len(Parts)
        BY DEF Ships
      <4>2. live \in [1 .. Len(Parts) -> Releases \cup {Shipped, Partial}]
        BY CardFacts DEF Lives
      <4>3. CASE live' = [live EXCEPT ![p] = Partial] /\ runner'[i].part = p
        BY <1>1, <3>1, <4>1, <4>2, <4>3
      <4>4. CASE live' = [live EXCEPT ![p] = own] /\ runner'[i].part = p + 1
        BY <1>1, <3>1, <4>1, <4>2, <4>4
      <4>5. CASE p \notin Ships(own) /\ live' = live /\ runner'[i].part = p + 1
        BY <1>1, <3>1, <4>1, <4>5
      <4>6. runner' = [runner EXCEPT ![i] = Moved(i, "replace")] => runner'[i].part = p
        BY <1>1, UpdateMoves DEF RunnerPlaces
      <4> HIDE DEF Next1, meets
      <4> QED BY <1>3, <1>4, <3>1, <4>3, <4>4, <4>5, <4>6
    <3>3. ~runner'[i].torn
      BY <1>1, <1>5, <2>3 DEF Sound
    <3>4. /\ \A j \in Slots \ {i} : ~Writing(j)'
          /\ \A j \in Slots : Working(j)' => ~runner'[j].torn
          /\ \A j \in Slots : Writing(j)' => \A k \in Slots \ {j} : ~Writing(k)'
      BY <1>1, <1>5, <2>3, <3>3, AloneFacts
    <3>5. \A j \in Slots : runner'[j].at \in {"replace", "mark", "arm"} => j = i
      BY <3>4 DEF Writing
    <3> QED BY <1>2, <1>5, <2>3, <3>1, <3>2, <3>4, <3>5 DEF Sound
  <2> QED BY <1>2, <2>1, <2>2, <2>3 DEF UpdateInv, OnCard
<1> QED BY <1>8, <1>9 DEF UpdateInv

LEMMA WriteReleaseStep ==
    ASSUME UpdateInv, NEW i \in Slots, WriteRelease(i) \/ Mark(i) \/ Copy(i) \/ Arm(i)
    PROVE  UpdateInv'
PROOF
<1> DEFINE own == runner[i].release
<1>1. /\ Working(i) /\ Writing(i) /\ Installs /\ own \in Releases /\ "child" \in Slots
      /\ result'.state = "installing" /\ UNCHANGED <<artifact, live, exposed, mishaps>>
  <2>1. /\ runner[i].at \in {"replace", "mark", "copy", "arm"} /\ Installs /\ SaysInstalling(i)
        /\ UNCHANGED <<artifact, live, exposed, mishaps>>
    BY DEF WriteRelease, Mark, Copy, Arm, Goes
  <2>2. result'.state = "installing"
    BY <2>1 DEF SaysInstalling
  <2> QED BY <2>1, <2>2 DEF Working, Writing, UpdateInv, Jobs, Slots
<1>2. /\ runner' \in [Slots -> Runners]
      /\ \A j \in Slots \ {i} : runner'[j] = runner[j]
      /\ runner'[i].release = own /\ runner'[i].torn = runner[i].torn
      /\ runner[i].at = "replace" => runner'[i].at = "mark"
      /\ runner[i].at = "copy" => runner'[i].at = "arm"
      /\ runner[i].at \in {"mark", "arm"} => runner'[i].at = "sync"
      /\ runner'[i].at \in {"mark", "arm", "sync"}
      /\ \A j \in Slots : Working(j)' => Working(j) /\ runner'[j].release = runner[j].release
      /\ runner'["child"].at # "off" => runner["child"].at # "off"
  <2>1. \E place \in {"mark", "arm", "sync"} :
            /\ runner' = [runner EXCEPT ![i] = Moved(i, place)]
            /\ runner[i].at = "replace" => place = "mark"
            /\ runner[i].at = "copy" => place = "arm"
            /\ runner[i].at \in {"mark", "arm"} => place = "sync"
    BY DEF WriteRelease, Mark, Copy, Arm, Goes
  <2> QED BY <1>1, <2>1, UpdateMoves DEF RunnerPlaces
<1>3. /\ record' \in {record, own} /\ marker' \in BOOLEAN
      /\ payload' \in {payload, payload \cup {own}} /\ trigger' \in {trigger, own}
  BY CardFacts DEF WriteRelease, Mark, Copy, Arm
<1>4. kept' \in Kept /\ kept'.payload \subseteq payload'
  <2>1. \/ Writes("record", own) \/ Writes("marker", TRUE) \/ Writes("trigger", own)
        \/ UNCHANGED kept
    BY DEF WriteRelease, Mark, Copy, Arm
  <2>2. kept' \in Kept /\ kept'.payload = kept.payload
    BY <1>1, <2>1, WritesFacts, CardFacts
  <2> QED BY <1>3, <2>2, CardFacts
<1>5. UpdateTypes' /\ Jobs' /\ Shielded'
  BY <1>1, <1>2, <1>3, <1>4, CardFacts, RunnerAside
<1>6. OnCard'
  <2>1. \A j \in Slots : runner'[j].at \in {"verify", "extract"} => runner'[j].part = 1
    BY <1>2 DEF UpdateInv, OnCard
  <2>2. Synced'
    BY <1>1 DEF Synced
  <2>3. ASSUME Sound PROVE Sound'
    <3>1. ~runner[i].torn /\ ~runner'[i].torn
      BY <1>1, <1>2, <2>3 DEF Sound
    <3>2. /\ \A j \in Slots \ {i} : ~Writing(j)'
          /\ \A j \in Slots : Working(j)' => ~runner'[j].torn
          /\ \A j \in Slots : Writing(j)' => \A k \in Slots \ {j} : ~Writing(k)'
      BY <1>1, <1>2, <2>3, <3>1, AloneFacts
    <3>3. \A j \in Slots : runner'[j].at \in {"replace", "mark", "arm"} => j = i
      BY <3>2 DEF Writing
    <3>4. runner'[i].at # "replace"
      BY <1>2
    <3>5. CASE WriteRelease(i)
      <4>1. /\ runner[i].at = "replace" /\ runner[i].part > Len(Parts)
            /\ record' = own /\ UNCHANGED <<live, marker, payload, trigger>>
        BY <3>5 DEF WriteRelease
      <4>2. \A p \in Ships(own) : p < runner[i].part
        BY <4>1, ThreeParts DEF Ships, UpdateInv, UpdateTypes, Runners
      <4>3. Whole'
        BY <2>3, <4>1, <4>2 DEF Sound, Whole
      <4>4. runner'[i].at = "mark"
        BY <1>2, <4>1
      <4> QED BY <2>3, <3>2, <3>3, <4>1, <4>3, <4>4 DEF Sound
    <3>6. CASE Mark(i)
      <4>1. Whole' /\ UNCHANGED <<payload, trigger>>
        BY <1>1, <2>3, <3>6 DEF Mark, Sound, Whole
      <4>2. runner'[i].at = "sync"
        BY <1>2, <3>6 DEF Mark
      <4> QED BY <2>3, <3>2, <3>3, <4>1, <4>2 DEF Sound
    <3>7. CASE Copy(i)
      <4>1. payload' = payload \cup {own} /\ UNCHANGED <<live, record, marker, trigger>>
        BY <1>1, <3>1, <3>7 DEF Copy
      <4>2. Whole' = Whole
        BY <4>1 DEF Whole
      <4>3. runner'[i].at = "arm"
        BY <1>2, <3>7 DEF Copy
      <4> QED BY <1>2, <2>3, <3>2, <3>3, <4>1, <4>2, <4>3 DEF Sound
    <3>8. CASE Arm(i)
      <4>1. trigger' = own /\ own \in payload /\ UNCHANGED <<live, record, marker, payload>>
        BY <1>1, <2>3, <3>8 DEF Arm, Sound
      <4>2. Whole' = Whole
        BY <4>1 DEF Whole
      <4>3. runner'[i].at = "sync"
        BY <1>2, <3>8 DEF Arm
      <4> QED BY <2>3, <3>2, <3>3, <4>1, <4>2, <4>3 DEF Sound
    <3> QED BY <3>5, <3>6, <3>7, <3>8
  <2> QED BY <1>1, <2>1, <2>2, <2>3 DEF UpdateInv, OnCard
<1> QED BY <1>5, <1>6 DEF UpdateInv

-----------------------------------------------------------------------------
(* Leaf: restarts *)

LEMMA RestartedFacts ==
    ASSUME UpdateInv, Restarted
    PROVE  /\ check' \in Checks /\ ~Checking' /\ download' \in Downloads /\ ~Downloading'
           /\ installing' = FALSE /\ barrier' = Nothing /\ stuck' = FALSE /\ quiesce' = FALSE
           /\ Nothing \in Owners /\ Shielded'
PROOF
<1>1. check' \in Checks /\ check'.scope = Nothing
  BY DEF Restarted, NoCheck, Checks
<1>2. download' \in Downloads /\ download'.release = Nothing
  BY DownloadEndsFacts DEF Restarted
<1> QED BY <1>1, <1>2 DEF Restarted, Checking, Downloading, Owners, Shielded, ReplacedBehindBarrier

LEMMA DaemonRestartsStep == ASSUME UpdateInv, DaemonRestarts PROVE UpdateInv'
PROOF
<1>1. /\ Restarted /\ UNCHANGED <<artifact, result, card>>
      /\ update' \in Status /\ ~update'.downloaded
  BY FreshFacts, ReplyFacts DEF DaemonRestarts
<1>2. mishaps' \in 0 .. MaxMishaps
  <2>1. mishaps \in 0 .. MaxMishaps /\ MaxMishaps \in Nat
    BY CardFacts DEF UpdateInv, UpdateTypes
  <2> QED BY <2>1, UpdateFailsFacts DEF DaemonRestarts
<1>3. /\ runner' \in [Slots -> Runners] /\ runner'["child"] = NoRunner
      /\ IF Working("child") THEN runner'["orphan"] = runner["child"]
                             ELSE runner'["orphan"] = runner["orphan"]
  BY NoRunnerFacts DEF DaemonRestarts, UpdateInv, UpdateTypes, Slots
<1>4. UpdateTypes'
  <2>1. \A i \in Slots : runner'[i].part \in 1 .. Len(Parts) + 1
    BY <1>3 DEF Runners
  <2>2. /\ check' \in Checks /\ download' \in Downloads /\ barrier' \in Owners
        /\ installing' \in BOOLEAN /\ stuck' \in BOOLEAN /\ quiesce' \in BOOLEAN
    BY <1>1, RestartedFacts DEF Owners
  <2>3. /\ live' \in Lives /\ record' \in Releases \cup {Shipped} /\ marker' \in BOOLEAN
        /\ payload' \subseteq Releases /\ trigger' \in Releases \cup {Nothing}
        /\ kept' \in Kept /\ kept'.payload \subseteq payload' /\ exposed' \in BOOLEAN
        /\ artifact' \in Releases \cup {Nothing}
    BY <1>1, CardFacts DEF card, UpdateInv, UpdateTypes, UpdateTypeOK
  <2> QED BY <1>1, <1>2, <1>3, <2>1, <2>2, <2>3
      DEF UpdateInv, UpdateTypes, UpdateTypeOK, Status, Lives, Owners, Checks, Downloads
<1>5. Jobs'
  BY <1>1, <1>3, NoRunnerFacts, RestartedFacts DEF UpdateInv, Jobs, Working, Slots
<1>6. OnCard'
  <2>1. \A i \in Slots : runner'[i].at \in {"verify", "extract"} => runner'[i].part = 1
    BY <1>3, NoRunnerFacts DEF UpdateInv, OnCard, Slots
  <2>2. Synced'
    BY <1>1 DEF UpdateInv, OnCard, Synced, card
  <2>3. ASSUME Sound PROVE Sound'
    <3>1. Whole' = Whole /\ UNCHANGED <<live, record, marker, payload, trigger>>
      BY <1>1 DEF Whole, card
    <3>2. ~Writing("child")' /\ ~Working("child")'
      BY <1>3, NoRunnerFacts DEF Writing, Working
    <3>3. \A i \in Slots : i # "child" => i = "orphan"
      BY DEF Slots
    <3>4. \A i \in Slots : Writing(i)' => \A j \in Slots \ {i} : ~Writing(j)'
      BY <3>2, <3>3
    <3>5. \E k \in Slots : runner'["orphan"] = runner[k]
      BY <1>3 DEF Slots
    <3>6. Working("orphan")' => ~runner'["orphan"].torn
      BY <2>3, <3>5 DEF Sound, Working
    <3>7. \A i \in Slots : Working(i)' => ~runner'[i].torn
      BY <3>2, <3>3, <3>6
    <3>8. \A i \in Slots : runner'[i].at \in {"replace", "mark", "arm"}
                               => \E k \in Slots : runner'[i] = runner[k]
      BY <3>2, <3>3, <3>5 DEF Writing
    <3> QED BY <2>3, <3>1, <3>4, <3>7, <3>8 DEF Sound
  <2> QED BY <1>1, <2>1, <2>2, <2>3 DEF UpdateInv, OnCard, card
<1> QED BY <1>1, <1>4, <1>5, <1>6, RestartedFacts DEF UpdateInv

\* A power cut takes nothing back where nothing is exposed.
LEMMA PowerCutFacts ==
    ASSUME UpdateInv, PowerCut
    PROVE  /\ live' \in Lives /\ record' \in Releases \cup {Shipped} /\ marker' \in BOOLEAN
           /\ payload' \in SUBSET Releases /\ trigger' = Nothing /\ exposed' \in BOOLEAN
           /\ ~exposed' /\ marker' => Whole'
PROOF
<1>1. PICK l \in [1 .. Len(Parts) -> UNION {kept.live[p] : p \in 1 .. Len(Parts)}],
           r \in kept.record, m \in kept.marker, t \in kept.trigger,
           copied \in SUBSET payload :
          /\ \A p \in 1 .. Len(Parts) : l[p] \in kept.live[p]
          /\ kept.payload \subseteq copied
          /\ payload' = copied
          /\ exposed' = (exposed \/ /\ <<l, r, m, t, copied>>
                                          # <<live, record, marker, trigger, payload>>
                                    /\ result.state \notin {"installed", "armed"})
          /\ IF t # Nothing THEN StockBoot(l, r, m, copied, t)
             ELSE live' = l /\ record' = r /\ marker' = m /\ trigger' = t
  BY DEF PowerCut
<1>2. /\ l \in Lives /\ r \in Releases \cup {Shipped} /\ m \in BOOLEAN
      /\ t \in Releases \cup {Nothing} /\ copied \in SUBSET Releases
  <2>1. kept \in Kept /\ payload \in SUBSET Releases
    BY CardFacts
  <2>2. \A p \in 1 .. Len(Parts) : kept.live[p] \subseteq Releases \cup {Shipped, Partial}
    BY <2>1 DEF Kept
  <2>3. l \in Lives
    BY <1>1, <2>2 DEF Lives
  <2> QED BY <1>1, <2>1, <2>3 DEF Kept
<1>3. exposed' \in BOOLEAN
  <2> DEFINE lost == exposed \/ /\ <<l, r, m, t, copied>>
                                      # <<live, record, marker, trigger, payload>>
                                /\ result.state \notin {"installed", "armed"}
  <2>1. exposed' = lost
    BY <1>1
  <2>2. lost \in BOOLEAN
    OBVIOUS
  <2> HIDE DEF lost
  <2> QED BY <2>1, <2>2
<1>4. ASSUME ~exposed'
      PROVE  /\ l = live /\ r = record /\ m = marker /\ t = trigger /\ copied = payload
             /\ Sound
  <2>1. ~exposed /\ (\/ /\ l = live /\ r = record /\ m = marker
                        /\ t = trigger /\ copied = payload
                     \/ result.state \in {"installed", "armed"})
    BY <1>1, <1>4
  <2>2. CASE result.state \in {"installed", "armed"}
    <3>1. kept = OnlyOf(live, record, marker, payload, trigger)
      BY <2>2 DEF UpdateInv, OnCard, Synced
    <3>2. /\ kept.live = [p \in 1 .. Len(Parts) |-> {live[p]}] /\ kept.record = {record}
          /\ kept.marker = {marker} /\ kept.payload = payload /\ kept.trigger = {trigger}
      BY <3>1 DEF OnlyOf
    <3>3. l \in Lives /\ live \in Lives /\ \A p \in 1 .. Len(Parts) : l[p] = live[p]
      BY <1>1, <1>2, <3>2, CardFacts
    <3>4. l = live
      BY <3>3 DEF Lives
    <3> QED BY <1>1, <2>1, <3>2, <3>4 DEF UpdateInv, OnCard
  <2> QED BY <2>1, <2>2 DEF UpdateInv, OnCard
<1>5. CASE t = Nothing
  <2>1. live' = l /\ record' = r /\ marker' = m /\ trigger' = Nothing
    BY <1>1, <1>5
  <2>2. ASSUME ~exposed' PROVE marker' => Whole'
    <3>1. UNCHANGED <<live, record, marker>> /\ Sound
      BY <1>4, <2>1, <2>2
    <3> QED BY <3>1 DEF Sound, Whole
  <2> QED BY <1>1, <1>2, <1>3, <2>1, <2>2
<1>6. CASE t # Nothing
  <2>1. StockBoot(l, r, m, copied, t)
    BY <1>1, <1>6
  <2>2. trigger' = Nothing /\ marker' = TRUE
    BY <2>1 DEF StockBoot
  <2>3. /\ live' \in Lives /\ record' \in Releases \cup {Shipped}
        /\ ~exposed' => Whole'
    <3>1. CASE t \in copied
      <4>1. /\ live' = [p \in 1 .. Len(Parts) |-> IF p \in Ships(t) THEN t ELSE l[p]]
            /\ record' = t
        BY <2>1, <3>1 DEF StockBoot
      <4>2. t \in Releases
        BY <1>2, <1>6
      <4>3. live' \in Lives
        BY <1>2, <4>1, <4>2 DEF Lives
      <4>4. Whole'
        <5>1. \A p \in Ships(t) : p \in 1 .. Len(Parts)
          BY DEF Ships
        <5> QED BY <4>1, <5>1 DEF Whole
      <4> QED BY <4>1, <4>2, <4>3, <4>4
    <3>2. CASE t \notin copied
      <4>1. live' = [p \in 1 .. Len(Parts) |-> Partial] /\ record' = r
        BY <2>1, <3>2 DEF StockBoot
      <4>2. exposed'
        BY <1>4, <1>6, <3>2 DEF Sound
      <4>3. live' \in Lives
        BY <4>1 DEF Lives
      <4> QED BY <1>2, <4>1, <4>2, <4>3
    <3> QED BY <3>1, <3>2
  <2> QED BY <1>1, <1>2, <1>3, <2>2, <2>3
<1> QED BY <1>5, <1>6

LEMMA PowerCutStep == ASSUME UpdateInv, PowerCut PROVE UpdateInv'
PROOF
<1>1. /\ Restarted /\ artifact' \in {artifact, Nothing}
      /\ kept' = OnlyOf(live', record', marker', payload', trigger')
  BY DEF PowerCut
<1>2. update' \in Status /\ ~update'.downloaded
  <2>1. [Fresh EXCEPT !.up = FALSE] \in Status /\ ~[Fresh EXCEPT !.up = FALSE].downloaded
    BY DEF Fresh, Status
  <2>2. update' \in {Fresh, [Fresh EXCEPT !.up = FALSE]}
    BY DEF PowerCut
  <2> QED BY <2>1, <2>2, FreshFacts
<1>3. runner' \in [Slots -> Runners] /\ \A i \in Slots : runner'[i] = NoRunner
  BY NoRunnerFacts DEF PowerCut
<1>4. mishaps' \in 0 .. MaxMishaps
  BY UpdateFailsFacts DEF PowerCut
<1>5. kept' \in Kept /\ kept'.payload = payload'
  BY <1>1, PowerCutFacts, OnlyOfFacts
<1>6. UpdateTypes'
  <2>1. \A i \in Slots : runner'[i].part \in 1 .. Len(Parts) + 1
    BY <1>3 DEF Runners
  <2>2. /\ check' \in Checks /\ download' \in Downloads /\ barrier' \in Owners
        /\ installing' \in BOOLEAN /\ stuck' \in BOOLEAN /\ quiesce' \in BOOLEAN
    BY <1>1, RestartedFacts DEF Owners
  <2>3. /\ trigger' \in Releases \cup {Nothing} /\ artifact' \in Releases \cup {Nothing}
        /\ kept'.payload \subseteq payload'
    BY <1>1, <1>5, PowerCutFacts DEF UpdateInv, UpdateTypes, UpdateTypeOK
  <2> QED BY <1>2, <1>3, <1>4, <1>5, <2>1, <2>2, <2>3, PowerCutFacts
      DEF UpdateInv, UpdateTypes, UpdateTypeOK, Status, Lives, Owners, Checks, Downloads
<1>7. Jobs'
  <2>1. \A i \in Slots : ~Working(i)'
    BY <1>3, NoRunnerFacts DEF Working
  <2>2. runner'["child"].at = "off"
    BY <1>3, NoRunnerFacts DEF Slots
  <2> QED BY <1>1, <1>2, <2>1, <2>2, RestartedFacts DEF Jobs, Slots
<1>8. OnCard'
  <2>1. Synced'
    BY <1>1 DEF Synced
  <2>2. ~exposed' => Sound'
    BY <1>3, NoRunnerFacts, PowerCutFacts DEF Sound, Writing, Working
  <2> QED BY <1>3, <2>1, <2>2, NoRunnerFacts DEF OnCard
<1> QED BY <1>1, <1>6, <1>7, <1>8, RestartedFacts DEF UpdateInv

-----------------------------------------------------------------------------
LEMMA InitInv == MaxMishaps \in Nat /\ MaxDownloads \in Nat /\ UpdateInit => UpdateInv
PROOF
<1> SUFFICES ASSUME MaxMishaps \in Nat, MaxDownloads \in Nat, UpdateInit PROVE UpdateInv
  OBVIOUS
<1>1. /\ update = Fresh /\ check = NoCheck /\ installing = FALSE /\ marker = TRUE
      /\ exposed = FALSE /\ stuck = FALSE /\ quiesce = FALSE /\ mishaps = 0
      /\ barrier = Nothing /\ artifact = Nothing /\ record = Shipped
      /\ payload = {} /\ trigger = Nothing /\ result.state = Nothing
      /\ download.release = Nothing /\ \A i \in Slots : runner[i] = NoRunner
  BY DEF UpdateInit
<1>2. /\ live = [p \in 1 .. Len(Parts) |-> Shipped] /\ live \in Lives
  BY DEF UpdateInit, Lives
<1>3. kept \in Kept /\ kept.payload = {}
  <2>1. kept = OnlyOf(live, record, marker, payload, trigger)
    BY DEF UpdateInit
  <2>2. /\ record \in Releases \cup {Shipped} /\ marker \in BOOLEAN
        /\ payload \in SUBSET Releases /\ trigger \in Releases \cup {Nothing}
    BY <1>1
  <2>3. kept \in Kept /\ kept.payload = payload
    BY <1>2, <2>1, <2>2, OnlyOfFacts
  <2> QED BY <1>1, <2>3
<1>4. runner \in [Slots -> Runners] /\ \A i \in Slots : runner[i].part \in 1 .. Len(Parts) + 1
  BY NoRunnerFacts, ThreeParts DEF UpdateInit
<1>5. UpdateTypes
  <2>1. check \in Checks
    BY <1>1 DEF NoCheck, Checks
  <2>2. download \in Downloads
    BY DEF UpdateInit, Downloads
  <2>3. 0 \in 0 .. MaxMishaps /\ barrier \in Owners
    BY <1>1 DEF Owners
  <2> QED BY <1>1, <1>2, <1>3, <1>4, <2>1, <2>2, <2>3, FreshFacts
      DEF UpdateTypes, UpdateTypeOK, Status, Lives, Checks, Downloads
<1>6. Jobs
  <2>1. "child" \in Slots /\ ~Downloading /\ ~Checking /\ \A i \in Slots : ~Working(i)
    BY <1>1, NoRunnerFacts DEF Downloading, Checking, NoCheck, Working, Slots
  <2> QED BY <1>1, <2>1, FreshFacts, NoRunnerFacts DEF Jobs
<1>7. OnCard
  <2>1. Whole
    BY <1>1, <1>2 DEF Whole, Ships
  <2> QED BY <1>1, <2>1, NoRunnerFacts DEF OnCard, Synced, Sound, Working, Writing, Nothing
<1>8. Shielded
  BY <1>1 DEF Shielded, ReplacedBehindBarrier
<1> QED BY <1>5, <1>6, <1>7, <1>8 DEF UpdateInv

LEMMA StepInv == UpdateInv /\ [UpdateNext]_updateVars => UpdateInv'
PROOF
<1> SUFFICES ASSUME UpdateInv, [UpdateNext]_updateVars PROVE UpdateInv'
  OBVIOUS
<1>1. CASE Requests
  BY <1>1, CheckStep, SelectStep, DownloadStep, PollDownloadStep, UpdateInstallStep, BarrierStep DEF Requests
<1>2. CASE Poll \/ Reaped
  BY <1>2, PollCheckStep, PollDownloadStep, PollInstallStep, BarrierStep DEF Poll
<1>3. ASSUME NEW i \in Slots, RunnerStep(i) \/ RunnerFails(i) PROVE UpdateInv'
  BY <1>3, VerifyStep, ExtractStep, ReplaceStep, WriteReleaseStep DEF RunnerStep
<1>4. CASE DaemonRestarts \/ PowerCut
  BY <1>4, DaemonRestartsStep, PowerCutStep
<1>5. CASE UNCHANGED updateVars
  <2>1. UNCHANGED <<update, jobs, artifact, runner, result, card, services, mishaps>>
    BY <1>5 DEF updateVars
  <2>2. OnCard' /\ Shielded'
    BY <2>1, Aside DEF jobs, services
  <2>3. Jobs'
    BY <2>1 DEF jobs, UpdateInv, Jobs, Downloading, Checking, Working
  <2>4. UpdateTypes'
    BY <2>1 DEF jobs, card, services, UpdateInv, UpdateTypes, UpdateTypeOK
  <2> QED BY <2>2, <2>3, <2>4 DEF UpdateInv
<1> QED BY <1>1, <1>2, <1>3, <1>4, <1>5 DEF UpdateNext

\* The strengthened invariant holds of every behaviour.
THEOREM UpdateInvariance ==
    ASSUME MaxMishaps \in Nat, MaxDownloads \in Nat
    PROVE  UpdateSpec => []UpdateInv
PROOF BY InitInv, StepInv, PTL DEF UpdateSpec

\* jw_update and jawaka-update-runner keep their variables in their types.
THEOREM UpdateTypeCorrect ==
    ASSUME MaxMishaps \in Nat, MaxDownloads \in Nat
    PROVE  UpdateSpec => []UpdateTypeOK
PROOF
<1>1. UpdateInv => UpdateTypeOK
  BY DEF UpdateInv, UpdateTypes
<1> QED BY <1>1, UpdateInvariance, PTL

\* What a boot starts is one release whole, whatever the runner was doing when
\* it failed, was killed or lost its daemon, and wherever the power went as long
\* as the card had lost no write of an install that had not reported its end, the
\* marker was withdrawn and no second runner met it.
THEOREM BootsWhole ==
    ASSUME MaxMishaps \in Nat, MaxDownloads \in Nat
    PROVE  UpdateSpec => []BootIsWhole
PROOF
<1>1. UpdateInv => BootIsWhole
  BY DEF UpdateInv, OnCard, Sound, BootIsWhole, Whole
<1> QED BY <1>1, UpdateInvariance, PTL

\* The runner installs what the player sees and what was verified.
THEOREM CandidateInstalled ==
    ASSUME MaxMishaps \in Nat, MaxDownloads \in Nat
    PROVE  UpdateSpec => []InstallsTheCandidate
PROOF
<1>1. UpdateInv => InstallsTheCandidate
  BY DEF UpdateInv, Jobs, InstallsTheCandidate
<1> QED BY <1>1, UpdateInvariance, PTL

\* While the daemon that started it lives, its runner replaces the live payload
\* only behind the barrier: that of a daemon before it, whose barrier went with
\* its memory, may go on beside it.
THEOREM PayloadShielded ==
    ASSUME MaxMishaps \in Nat, MaxDownloads \in Nat
    PROVE  UpdateSpec => []ReplacedBehindBarrier
PROOF
<1>1. UpdateInv => ReplacedBehindBarrier
  BY DEF UpdateInv, Shielded
<1> QED BY <1>1, UpdateInvariance, PTL
===============================================================================
