-------------------------------- MODULE Files --------------------------------
(***************************************************************************)
(* What the rest of the shell may rely on for the files it rewrites,       *)
(* whatever queue, generations and thread stand behind them                *)
(* (crates/util/src/writer.rs and fs.rs): a register per path that only    *)
(* moves forward through what was asked of it, a device that lags behind   *)
(* it, and promises about the device.                                      *)
(*                                                                         *)
(* Contents are numbered in the order they were asked for.  Nothing obliges*)
(* a file to take what was asked: the write may be overtaken or fail.      *)
(***************************************************************************)
EXTENDS Integers

CONSTANT Paths    \* the files the shell rewrites

VARIABLES
  wanted,    \* per path the newest contents this process asked for
  file,      \* what a reader sees
  device,    \* what a power cut leaves
  promised   \* the newest contents somebody was told are safe

vars == <<wanted, file, device, promised>>

Init ==
  /\ wanted = [p \in Paths |-> 0]
  /\ file = wanted
  /\ device = wanted
  /\ promised = wanted

(* Somebody wants newer contents than anybody wanted of this path.         *)
Ask(p) ==
  /\ wanted'[p] > wanted[p]
  /\ wanted' = [wanted EXCEPT ![p] = wanted'[p]]
  /\ UNCHANGED <<file, device, promised>>

(* The file turns, in one go, into something newer that was asked of it.   *)
Replace(p) ==
  /\ \E s \in (file[p] + 1) .. wanted[p] : file' = [file EXCEPT ![p] = s]
  /\ UNCHANGED <<wanted, device, promised>>

(* What a reader sees reaches the device.                                  *)
Flush(p) ==
  /\ device' = [device EXCEPT ![p] = file[p]]
  /\ UNCHANGED <<wanted, file, promised>>

(* A caller is told Ok: what it asked for is on the device, or older than  *)
(* what is.                                                                *)
Promise(p) ==
  /\ \E s \in (promised[p] + 1) .. device[p] : promised' = [promised EXCEPT ![p] = s]
  /\ UNCHANGED <<wanted, file, device>>

(* The shell, or the machine with it, goes down: some files are back at    *)
(* what the device held, nothing is waited for, every promise stands.      *)
GoDown ==
  /\ \E lost \in SUBSET Paths :
        file' = [p \in Paths |-> IF p \in lost THEN device[p] ELSE file[p]]
  /\ device' = file'
  /\ wanted' = file'
  /\ UNCHANGED promised

Next ==
  \/ \E p \in Paths : Ask(p) \/ Replace(p) \/ Flush(p) \/ Promise(p)
  \/ GoDown

Spec == Init /\ [][Next]_vars

=============================================================================
