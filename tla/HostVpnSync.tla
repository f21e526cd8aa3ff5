------------------------------ MODULE HostVpnSync ------------------------------
(***************************************************************************)
(* One host VPN and the script that brings its interface up to the         *)
(* rendered file (wireguard/sync-host-service.sh, the amneziawg one has    *)
(* the same steps), run and then verified by _sync_wireguard.              *)
(*                                                                         *)
(* A configuration has peers, which "wg syncconf" applies to a running     *)
(* interface, and a link part (address, MTU, rules), which only a restart  *)
(* applies.  The script decides which of the two it needs by comparing the *)
(* copy under /etc with the rendered file.                                 *)
(***************************************************************************)
EXTENDS Naturals

CONSTANTS
    Links, PeerSets,    \* values of the two parts of a configuration
    None                \* no file, no interface

Conf == [link : Links, peers : PeerSets]

ASSUME NoneAssumption == None \notin Links /\ None \notin Conf

VARIABLES
    rendered,   \* wireguard/wg0.conf of the project
    copy,       \* /etc/wireguard/wg0.conf
    unit,       \* the link part the systemd unit was written for
    active,     \* systemctl is-active
    interface,  \* what the interface runs
    script,     \* the script, and the verification after it
    answer,     \* what the last sync told its caller
    halfway     \* a script that had replaced the copy was ended before its restart,
                \* and no restart for a change of the link part has followed (history)

syncVars == <<rendered, copy, unit, active, interface, script, answer, halfway>>

Steps == {"idle", "compare", "replace", "unit", "choose", "syncconf", "restart", "verify"}
NoScript == [pc |-> "idle", old |-> None, new |-> None, structural |-> FALSE]

SyncTypeOK ==
    /\ rendered \in Conf /\ copy \in Conf \cup {None} /\ unit \in Links \cup {None}
    /\ active \in BOOLEAN /\ interface \in Conf \cup {None}
    /\ script \in [pc : Steps, old : Conf \cup {None}, new : Conf \cup {None}, structural : BOOLEAN]
    /\ answer \in {"none", "ok", "failed"} /\ halfway \in BOOLEAN

\* The service was installed from the rendered file, or never.
SyncInit ==
    /\ rendered \in Conf
    /\ \/ copy = rendered /\ unit = rendered.link /\ active = TRUE /\ interface = rendered
       \/ copy = None /\ unit = None /\ active = FALSE /\ interface = None
    /\ script = NoScript
    /\ answer = "none" /\ halfway = FALSE

(***************************************************************************)
(* Around the script.                                                      *)
(***************************************************************************)

\* render_wireguard, before the sync of the same request.
RenderConf(c) ==
    /\ script.pc = "idle" /\ c # rendered
    /\ rendered' = c /\ answer' = "none"
    /\ UNCHANGED <<copy, unit, active, interface, script, halfway>>

\* systemctl stop, or disable --now.
Stop ==
    /\ active /\ script.pc = "idle"
    /\ active' = FALSE /\ interface' = None /\ answer' = "none"
    /\ UNCHANGED <<rendered, copy, unit, script, halfway>>

\* systemctl start, enable --now, or a reboot: the unit brings the copy up.
Start ==
    /\ unit # None /\ script.pc = "idle"
    /\ active' = TRUE /\ interface' = copy /\ answer' = "none"
    /\ UNCHANGED <<rendered, copy, unit, script, halfway>>

\* The interface disappears under the unit, which stays active (oneshot).
InterfaceLost ==
    /\ interface # None /\ script.pc = "idle"
    /\ interface' = None /\ answer' = "none"
    /\ UNCHANGED <<rendered, copy, unit, active, script, halfway>>

(***************************************************************************)
(* The script.                                                             *)
(***************************************************************************)

ScriptAt(pc) == script' = [script EXCEPT !.pc = pc]

\* The copy as it was, and the rendered file, go to temporary files.
Begin ==
    /\ script.pc = "idle"
    /\ script' = [NoScript EXCEPT !.pc = "compare", !.old = copy, !.new = rendered]
    /\ answer' = "none"
    /\ UNCHANGED <<rendered, copy, unit, active, interface, halfway>>

\* Mutant: the script compares the peers, not what comes before the first [Peer].
CompareSwapped ==
    /\ script.pc = "compare"
    /\ script' = [script EXCEPT !.pc = "replace",
                    !.structural = IF script.old = None THEN TRUE
                                   ELSE script.old.peers # script.new.peers]
    /\ UNCHANGED <<rendered, copy, unit, active, interface, answer, halfway>>

Compare ==
    /\ script.pc = "compare"
    /\ script' = [script EXCEPT !.pc = "replace",
                    !.structural = IF script.old = None THEN TRUE
                                   ELSE script.old.link # script.new.link]
    /\ UNCHANGED <<rendered, copy, unit, active, interface, answer, halfway>>

\* After the check of ip_forward: mv -f.
Replace ==
    /\ script.pc = "replace"
    /\ copy' = script.new
    /\ ScriptAt(IF script.structural \/ unit = None THEN "unit" ELSE "choose")
    /\ UNCHANGED <<rendered, unit, active, interface, answer, halfway>>

\* Mutant: the unit is given the whole file.
WriteUnitWhole ==
    /\ script.pc = "unit"
    /\ unit' = copy
    /\ ScriptAt("choose")
    /\ UNCHANGED <<rendered, copy, active, interface, answer, halfway>>

WriteUnit ==
    /\ script.pc = "unit"
    /\ unit' = copy.link
    /\ ScriptAt("choose")
    /\ UNCHANGED <<rendered, copy, active, interface, answer, halfway>>

Choose ==
    /\ script.pc = "choose"
    /\ ScriptAt(IF ~script.structural /\ active /\ interface # None THEN "syncconf" ELSE "restart")
    /\ UNCHANGED <<rendered, copy, unit, active, interface, answer, halfway>>

\* The peers of the copy on the interface as it is.
Syncconf ==
    /\ script.pc = "syncconf"
    /\ interface' = [interface EXCEPT !.peers = copy.peers]
    /\ ScriptAt("verify")
    /\ UNCHANGED <<rendered, copy, unit, active, answer, halfway>>

SyncconfFails ==
    /\ script.pc = "syncconf"
    /\ ScriptAt("restart")
    /\ UNCHANGED <<rendered, copy, unit, active, interface, answer, halfway>>

Restart ==
    /\ script.pc = "restart"
    /\ active' = TRUE /\ interface' = copy
    /\ halfway' = (halfway /\ ~script.structural)
    /\ ScriptAt("verify")
    /\ UNCHANGED <<rendered, copy, unit, answer>>

Failed == script' = NoScript /\ answer' = "failed"

\* wg-quick up fails: the unit is not active.
RestartFails ==
    /\ script.pc = "restart"
    /\ active' = FALSE /\ interface' = None
    /\ Failed
    /\ UNCHANGED <<rendered, copy, unit, halfway>>

\* A command of the script fails (set -e), or the 60 s of _sync_wireguard are over
\* and the script is killed; a restart that systemd has begun goes on.
Interrupted ==
    /\ script.pc # "idle"
    /\ halfway' = (halfway \/ script.pc \in {"unit", "choose", "syncconf", "restart"})
    /\ \/ UNCHANGED <<active, interface>>
       \/ script.pc = "restart" /\ active' = TRUE /\ interface' = copy
    /\ Failed
    /\ UNCHANGED <<rendered, copy, unit>>

\* verify_wireguard_runtime: the two files agree, the service and the interface are
\* there, and the peers are the expected ones.
Verified ==
    /\ rendered = copy
    /\ active /\ interface # None
    /\ interface.peers = rendered.peers

Verify ==
    /\ script.pc = "verify"
    /\ script' = NoScript /\ answer' = IF Verified THEN "ok" ELSE "failed"
    /\ UNCHANGED <<rendered, copy, unit, active, interface, halfway>>

SyncNext ==
    \/ \E c \in Conf : RenderConf(c)
    \/ Stop \/ Start \/ InterfaceLost
    \/ Begin \/ Compare \/ Replace \/ WriteUnit \/ Choose \/ Syncconf \/ SyncconfFails
    \/ Restart \/ RestartFails \/ Interrupted \/ Verify

SyncSpec == SyncInit /\ [][SyncNext]_syncVars

(***************************************************************************)
(* Properties.                                                             *)
(***************************************************************************)

\* A sync that succeeds leaves the interface with the peers of the rendered file,
\* whatever failed or was stopped before it; and with its link part, and the unit
\* too, unless a script was ended between the replacement of the copy and its
\* restart ("synchronises the project configuration", the header of the script).
Synchronised ==
    answer = "ok" =>
        /\ copy = rendered /\ interface.peers = rendered.peers
        /\ ~halfway => interface = rendered /\ unit = rendered.link

\* A sync takes a running interface down only for a change of its link part, or
\* because syncconf failed ("applies peer-only changes without breaking sessions").
SessionsSurvivePeerChanges ==
    [][interface # None /\ script.pc = "choose" /\ script'.pc = "restart"
         => ~active \/ script.old.link # rendered.link]_syncVars
=============================================================================
