------------------------------ MODULE BakePorts ------------------------------
(***************************************************************************)
(* The listening ports of a bake: QEMU's QMP, VNC and WebSocket and the    *)
(* noVNC viewer, all on one host.  parseVNC checks what the flags ask for, *)
(* prepareVNC fills in the free ports, PlanBake's dry run reports the same *)
(* plan, and QEMU and the viewer bind later, when another process may have *)
(* taken a port.                                                           *)
(***************************************************************************)
EXTENDS Integers

CONSTANTS
  Low,    \* ports below 5900, which QEMU's display numbers cannot reach
  High,   \* ports from 5900 on
  QMP     \* bakeQMPAddr
None == -1    \* a flag that is not set

PortsAssumption == Low \cup High \subseteq Nat \ {0} /\ Low \cap High = {} /\ QMP \in Low

VARIABLES
  flags,  \* --vnc and --vnc-web: a port, 0 or None
  busy,   \* ports other processes listen on
  pc,     \* how far the bake is
  vnc, websocket,  \* the resolved ports, None for none
  bound   \* who listens where
vars == <<flags, busy, pc, vnc, websocket, bound>>

Ports == Low \cup High
Init ==
  /\ flags \in [vnc : Ports \cup {0, None}, web : Ports \cup {0, None}]
  /\ busy \in SUBSET Ports /\ pc = "parse" /\ vnc = None /\ websocket = None /\ bound = {}

\* parseVNC.
Rejected ==
  \/ flags.web = 0
  \/ flags.vnc \in Low
  \/ flags.vnc = flags.web /\ flags.vnc \notin {0, None}
Wanted == flags.vnc # None \/ flags.web # None

\* freePort probes the host; a port in use, a low one, and the excluded ones are passed over.
freePort(excluded) == {p \in High : p \notin busy \cup excluded}

\* prepareVNC, or the error of parseVNC or of the probe.
prepareVNC ==
  /\ pc = "parse"
  /\ IF Rejected THEN pc' = "error" /\ UNCHANGED <<vnc, websocket>>
     ELSE IF ~Wanted THEN pc' = "start" /\ UNCHANGED <<vnc, websocket>>
     ELSE \E v \in IF flags.vnc \in {0, None} THEN freePort({flags.web}) ELSE {flags.vnc} :
            /\ vnc' = v
            /\ IF flags.web = None THEN pc' = "start" /\ UNCHANGED websocket
               ELSE \E w \in freePort({v, flags.web}) : websocket' = w /\ pc' = "start"
  /\ UNCHANGED <<flags, busy, bound>>

\* What QEMU listens on.
qemu == {QMP, vnc, websocket} \ {None}
Twice == QMP \in {vnc, websocket} \/ (vnc = websocket /\ vnc # None)
\* QEMU and the viewer bind side by side: QEMU fails on a port that is taken, by the viewer too when
\* that was first, and the viewer gives up silently on one that is.
Start ==
  /\ pc = "start"
  /\ \/ (Twice \/ qemu \cap (busy \cup {flags.web}) # {}) /\ pc' = "failed" /\ UNCHANGED bound
     \/ /\ ~Twice /\ qemu \cap busy = {} /\ pc' = "running"
        /\ bound' = {<<"qmp", QMP>>} \cup {<<"vnc", p>> : p \in {vnc} \ {None}}
                    \cup {<<"websocket", p>> : p \in {websocket} \ {None}}
                    \cup {<<"viewer", p>> : p \in {flags.web} \ (busy \cup qemu \cup {None})}
  /\ UNCHANGED <<flags, busy, vnc, websocket>>

Taken(p) ==
  /\ pc \in {"parse", "start"} /\ p \notin busy /\ busy' = busy \cup {p}
  /\ UNCHANGED <<flags, pc, vnc, websocket, bound>>

Over == pc \in {"running", "error", "failed"} /\ UNCHANGED vars
\* No free port is left: freePort goes on probing.
Probing == pc = "parse" /\ High \subseteq busy \cup {flags.vnc, flags.web} /\ UNCHANGED vars
Next == prepareVNC \/ Start \/ (\E p \in Ports : Taken(p)) \/ Over \/ Probing
Spec == Init /\ [][Next]_vars

-----------------------------------------------------------------------------
\* The listeners of one bake never contend for a port, whatever the flags ask for and whoever takes
\* ports meanwhile: QEMU gets its three unless a stranger holds one, and the viewer the port the
\* operator named unless a stranger holds that. The exception is a viewer on the port of QMP, which
\* parseVNC lets pass: then one of the two fails.
ListenersDoNotCollide ==
  /\ pc = "running" =>
       /\ \A a, b \in bound : a[2] = b[2] => a = b
       /\ flags.web \notin {None, QMP} \cup busy => <<"viewer", flags.web>> \in bound
  /\ pc = "failed" => qemu \cap busy # {} \/ flags.web = QMP
=============================================================================
