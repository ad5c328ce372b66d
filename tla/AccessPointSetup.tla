-------------------------- MODULE AccessPointSetup --------------------------
(***************************************************************************)
(* tools/setup/setup_wifi_ap.py: the script installs packages, puts files  *)
(* in place and starts the access point.  It goes down a list of           *)
(* operations; a command that fails, or a power cut, ends it anywhere, and *)
(* users run it again, maybe with other arguments.                         *)
(*                                                                         *)
(* What is in a file is "original", what the script writes there for given *)
(* arguments, "empty" when it was truncated, or "absent".  Runs have a     *)
(* number, that stands for the time of the suffix of their backups: two    *)
(* runs are taken to start at different times.  A write is durable at      *)
(* once, and in order: the script does not sync a backup before it         *)
(* truncates the original, and the file system is taken not to reorder     *)
(* them.                                                                   *)
(***************************************************************************)
EXTENDS Naturals, Sequences

CONSTANTS
    Arguments,    \* command-line arguments: SSID, passphrase, prefixes...
    MaxRuns       \* bound

ASSUME AccessPointAssumption ==
    /\ MaxRuns \in Nat
    /\ Arguments \cap {"absent", "original", "empty", "same", "cut", "none"} = {}

VARIABLES
    ap,          \* the run: number, arguments, operation (0: no run), step in it
    file,
    backup,      \* of each file, by number of the run
    installed,
    hostapd,     \* the service: masked, enabled, running with what arguments
    ap_done,     \* the arguments of the last run if it went to its end
    rebooted     \* whether there was a reboot since the last run

ap_vars == <<ap, file, backup, installed, hostapd, ap_done, rebooted>>

Files == {"interfaces", "dhcpcd.conf", "hostapd.conf", "default/hostapd", "dnsmasq.conf"}
Packaged == {"default/hostapd", "dnsmasq.conf"}
Content == Arguments \cup {"absent", "original", "empty", "same"}

\* Two of the files do not depend on the arguments.
contents(filename, args) ==
    IF filename \in {"interfaces", "default/hostapd"} THEN "same" ELSE args

Operations_without_enable == <<
    "install_packages", "rfkill", "interfaces", "dhcpcd.conf", "hostapd.conf",
    "default/hostapd", "unmask", "start", "daemon-reload", "dnsmasq.conf">>

Operations == <<
    "install_packages", "rfkill", "interfaces", "dhcpcd.conf", "hostapd.conf",
    "default/hostapd", "unmask", "enable", "start", "daemon-reload", "dnsmasq.conf">>

APTypeOK ==
    /\ ap \in [run : 0 .. MaxRuns, args : Arguments, op : 0 .. Len(Operations),
               step : {"check", "copy", "truncate", "write"}]
    /\ file \in [Files -> Content]
    /\ backup \in [Files -> [1 .. MaxRuns -> Content \cup {"cut"}]]
    /\ installed \in BOOLEAN /\ rebooted \in BOOLEAN
    /\ hostapd \in [masked : BOOLEAN, enabled : BOOLEAN, running : Arguments \cup {"none"}]
    /\ ap_done \in Arguments \cup {"none"}

APInit ==
    /\ ap \in [run : {0}, args : Arguments, op : {0}, step : {"check"}]
    /\ file = [f \in Files |-> IF f \in {"interfaces", "dhcpcd.conf"}
                               THEN "original" ELSE "absent"]
    /\ backup = [f \in Files |-> [run \in 1 .. MaxRuns |-> "absent"]]
    /\ installed = FALSE /\ rebooted = FALSE
    /\ hostapd = [masked |-> FALSE, enabled |-> FALSE, running |-> "none"]
    /\ ap_done = "none"

-----------------------------------------------------------------------------

ORIG_SUFFIX_fixed(number) == 1

ORIG_SUFFIX(number) == number

StartAccessPoint ==
    /\ ap.op = 0 /\ ap.run < MaxRuns
    /\ \E args \in Arguments :
         ap' = [run |-> ap.run + 1, args |-> args, op |-> 1, step |-> "check"]
    /\ ap_done' = "none" /\ rebooted' = FALSE
    /\ UNCHANGED <<file, backup, installed, hostapd>>

Op == IF ap.op = 0 THEN "none" ELSE Operations[ap.op]

Returns ==
    /\ ap' = [ap EXCEPT !.op = IF @ < Len(Operations) THEN @ + 1 ELSE 0, !.step = "check"]
    /\ ap_done' = IF ap.op < Len(Operations) THEN "none" ELSE ap.args
    /\ UNCHANGED rebooted

GoesTo(step) ==
    /\ ap' = [ap EXCEPT !.step = step]
    /\ UNCHANGED <<ap_done, rebooted>>

(***************************************************************************)
(* ensure_contents and ensure_present.  Opening a file to write truncates  *)
(* it; its new content is written when it is closed, at once, since it is  *)
(* shorter than a buffer.  To append truncates nothing.                    *)
(***************************************************************************)
EnsureContents(f) ==
    /\ \/ /\ ap.step = "check" /\ file[f] = contents(f, ap.args)
          /\ Returns /\ UNCHANGED <<file, backup>>
       \/ /\ ap.step = "check" /\ file[f] \notin {"absent", contents(f, ap.args)}
          /\ backup' = [backup EXCEPT ![f][ORIG_SUFFIX(ap.run)] = "cut"]
          /\ GoesTo("copy") /\ UNCHANGED file
       \/ /\ ap.step = "check" /\ file[f] = "absent" /\ f # "default/hostapd"
          /\ file' = [file EXCEPT ![f] = "empty"]
          /\ GoesTo("write") /\ UNCHANGED backup
       \/ /\ ap.step = "copy"
          /\ backup' = [backup EXCEPT ![f][ORIG_SUFFIX(ap.run)] = file[f]]
          /\ GoesTo(IF f = "default/hostapd" THEN "write" ELSE "truncate")
          /\ UNCHANGED file
       \/ /\ ap.step = "truncate"
          /\ file' = [file EXCEPT ![f] = "empty"]
          /\ GoesTo("write") /\ UNCHANGED backup
       \/ /\ ap.step = "write"
          /\ file' = [file EXCEPT ![f] = contents(f, ap.args)]
          /\ Returns /\ UNCHANGED backup
    /\ UNCHANGED <<installed, hostapd>>

-----------------------------------------------------------------------------
(***************************************************************************)
(* What shell commands do, external.  Debian installs hostapd masked; the  *)
(* service reads its configuration when it starts, not when it runs.       *)
(***************************************************************************)
CanStart ==
    /\ ~hostapd.masked
    /\ file["default/hostapd"] = "same" /\ file["hostapd.conf"] \in Arguments

Started == [hostapd EXCEPT !.running = IF @ = "none" THEN file["hostapd.conf"] ELSE @]

Effect ==
    /\ IF Op = "install_packages" /\ ~installed
       THEN /\ installed' = TRUE
            /\ file' = [f \in Files |-> IF f \in Packaged THEN "original" ELSE file[f]]
            /\ hostapd' = [hostapd EXCEPT !.masked = TRUE]
       ELSE /\ UNCHANGED <<installed, file>>
            /\ hostapd' = CASE Op = "unmask" -> [hostapd EXCEPT !.masked = FALSE]
                            [] Op = "enable" -> [hostapd EXCEPT !.enabled = TRUE]
                            [] Op = "start" /\ CanStart -> Started
                            [] OTHER -> hostapd
    /\ UNCHANGED backup

Run == Op \notin Files \cup {"none"} /\ Effect /\ Returns

Exits ==
    /\ ap' = [ap EXCEPT !.op = 0, !.step = "check"]
    /\ UNCHANGED ap_done

RunFails ==
    /\ Op \notin Files \cup {"none"}
    /\ Effect \/ UNCHANGED <<file, backup, installed, hostapd>>
    /\ Exits /\ UNCHANGED rebooted

ScriptIsKilled ==
    /\ ap.op # 0 /\ Exits
    /\ UNCHANGED <<file, backup, installed, hostapd, rebooted>>

Reboot ==
    /\ Exits /\ rebooted' = TRUE
    /\ hostapd' = [hostapd EXCEPT !.running =
                      IF hostapd.enabled /\ CanStart THEN file["hostapd.conf"] ELSE "none"]
    /\ UNCHANGED <<file, backup, installed>>

AccessPointStep == (Op \in Files /\ EnsureContents(Op)) \/ Run

-----------------------------------------------------------------------------
(***************************************************************************)
(* Whatever was there before the first run can be brought back: it is in   *)
(* its file or in a complete backup, after any number of runs with any     *)
(* arguments, cut at any step.                                             *)
(***************************************************************************)
OriginalIsKept ==
    \A f \in {"interfaces", "dhcpcd.conf"} \cup (IF installed THEN Packaged ELSE {}) :
        "original" \in {file[f]} \cup {backup[f][r] : r \in 1 .. MaxRuns}

(***************************************************************************)
(* A run that goes to its end has brought all files to what its arguments  *)
(* say, with nothing left of earlier runs that had other arguments or were *)
(* cut, and the robot has this access point after its next reboot.         *)
(***************************************************************************)
ConfiguredWhenDone ==
    ap_done # "none" =>
        /\ \A f \in Files : file[f] = contents(f, ap_done)
        /\ rebooted => hostapd.running = ap_done

-----------------------------------------------------------------------------
(***************************************************************************)
(* The inductive invariant, along the list of operations                   *)
(***************************************************************************)

\* The run has been through this operation.
Past(operation) == \E i \in 1 .. (ap.op - 1) : Operations[i] = operation

HasOriginal == {"interfaces", "dhcpcd.conf"} \cup (IF installed THEN Packaged ELSE {})

InBackup(f) == "original" \in {backup[f][r] : r \in 1 .. MaxRuns}

\* A run touches the backups of its own number only, each one when it gets to
\* its file, and has the original in one before it truncates or writes.
BackupsInOrder ==
    /\ \A f \in Files, r \in 1 .. MaxRuns :
          backup[f][r] # "absent" =>
              /\ r <= ap.run
              /\ (r = ap.run /\ ap.op # 0) =>
                    (Past(f) \/ (Op = f /\ ap.step # "check"))
    /\ (Op \in Files /\ ap.step = "copy") => backup[Op][ap.run] = "cut"
    /\ (Op \in HasOriginal /\ ap.step \in {"truncate", "write"}) => InBackup(Op)

\* What the run has done so far stays done until it ends.
RunSoFar ==
    ap.op # 0 =>
        /\ ap.run > 0 /\ ap_done = "none" /\ ~rebooted
        /\ \A f \in Files : Past(f) => file[f] = contents(f, ap.args)
        /\ Past("unmask") => ~hostapd.masked
        /\ Past("enable") => hostapd.enabled

APInv ==
    /\ APTypeOK
    /\ BackupsInOrder
    /\ RunSoFar
    /\ ap_done # "none" => (hostapd.enabled /\ ~hostapd.masked)
    /\ OriginalIsKept
    /\ ConfiguredWhenDone

=============================================================================
