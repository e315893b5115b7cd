------------------------------- MODULE UsbHost -------------------------------
(***************************************************************************)
(* Bringing up the USB host (main.c): the main thread connects the         *)
(* interrupt, initialises the stack, registers the OHCI controller and     *)
(* injects an event for every root hub port, while the interrupt routine   *)
(* signals the ports that changed and the enumeration thread of the stack  *)
(* scans the ports that are signalled.  The interrupt routine runs between *)
(* any two steps of the threads.  The enumeration semaphore is the one     *)
(* module Semaphores describes.  An operator whose name starts with Mut is *)
(* a broken variant of the definition after it; no specification uses it.  *)
(***************************************************************************)
EXTENDS Naturals

CONSTANTS
  NPorts,     (* the root hub ports of the controller                     *)
  MaxPorts,   (* UX_MAX_ROOTHUB_PORT, the slots for signals               *)
  MaxCount,   (* the maximum count of the enumeration semaphore           *)
  MaxSignal   (* bound: a port does not change while its signal is here   *)

ASSUME UsbHostAssumption ==
  /\ NPorts \in Nat \ {0} /\ MaxPorts \in Nat /\ NPorts <= MaxPorts
  /\ MaxCount \in Nat \ {0}
  /\ MaxSignal \in Nat \ {0}

Ports == 1 .. NPorts
Slots == 1 .. MaxPorts

VARIABLES
  main,       (* where the main thread is                                 *)
  slot,       (* its port_index, and                                      *)
  copy,       (* the signal it has read there                             *)
  armed,      (* the controller is registered and interrupts are enabled  *)
  signal,     (* ux_hcd_root_hub_signal of each slot                      *)
  tokens,     (* the count of the enumeration semaphore                   *)
  enum,       (* where the enumeration thread is                          *)
  at,         (* the port it looks at                                     *)
  changed,    (* the ports that changed since they were last scanned      *)
  pending     (* the ports whose change bit asks for an interrupt         *)

mainVars == <<main, slot, copy>>
enumVars == <<enum, at>>
vars == <<main, slot, copy, armed, signal, tokens, enum, at, changed, pending>>

(* A device that is there at power on may not show in the change bit.      *)
Init ==
  /\ main = "connect" /\ slot = 1 /\ copy = 0
  /\ armed = FALSE
  /\ signal = [s \in Slots |-> 0]
  /\ tokens = 0
  /\ enum = "none" /\ at = 1
  /\ changed \in SUBSET Ports
  /\ pending \in SUBSET changed

(* _ux_host_semaphore_put: at the maximum nothing is added.                *)
Put == tokens' = IF tokens < MaxCount THEN tokens + 1 ELSE tokens
-------------------------------------------------------------------------------
(* The main thread.                                                        *)
MainGoes(from, to) == main = from /\ main' = to

(* KeConnectInterrupt: the controller is still silent.                     *)
Connect ==
  /\ MainGoes("connect", "initialize")
  /\ UNCHANGED <<slot, copy, armed, signal, tokens, enumVars, changed, pending>>

(* ux_system_initialize, ux_host_stack_initialize, class registration: the *)
(* enumeration semaphore and its thread exist.                             *)
Initialize ==
  /\ MainGoes("initialize", "register")
  /\ enum' = "wait"
  /\ UNCHANGED <<slot, copy, armed, signal, tokens, at, changed, pending>>

(* ux_host_stack_hcd_register resets the controller, which may forget      *)
(* change bits, and enables its interrupts.                                *)
Register ==
  /\ MainGoes("register", "inject_read")
  /\ armed' = TRUE
  /\ pending' \in SUBSET pending
  /\ UNCHANGED <<slot, copy, signal, tokens, enumVars, changed>>

(* It fails: no controller is registered, UX_ASSERT reports it and main    *)
(* goes on with no port to inject.                                         *)
RegisterFails ==
  /\ MainGoes("register", "put")
  /\ UNCHANGED <<slot, copy, armed, signal, tokens, enumVars, changed, pending>>

(* ux_hcd_root_hub_signal[port_index]++ reads the signal, and writes it.   *)
InjectRead ==
  /\ MainGoes("inject_read", "inject_write")
  /\ copy' = signal[slot]
  /\ UNCHANGED <<slot, armed, signal, tokens, enumVars, changed, pending>>

MutNextPort ==
  /\ slot' = slot + 1
  /\ main' = IF slot <= MaxPorts THEN "inject_read" ELSE "put"

NextPort ==
  IF slot < MaxPorts
  THEN slot' = slot + 1 /\ main' = "inject_read"
  ELSE main' = "put" /\ UNCHANGED slot

MutInjectWriteBack ==
  /\ main = "inject_write"
  /\ signal' = [signal EXCEPT ![slot] = copy]
  /\ NextPort
  /\ UNCHANGED <<copy, armed, tokens, enumVars, changed, pending>>

InjectWrite ==
  /\ main = "inject_write"
  /\ signal' = [signal EXCEPT ![slot] = copy + 1]
  /\ NextPort
  /\ UNCHANGED <<copy, armed, tokens, enumVars, changed, pending>>

MutPutForgotten ==
  /\ MainGoes("put", "sleep")
  /\ UNCHANGED <<slot, copy, armed, signal, tokens, enumVars, changed, pending>>

PutEnum ==
  /\ MainGoes("put", "sleep")
  /\ Put
  /\ UNCHANGED <<slot, copy, armed, signal, enumVars, changed, pending>>
-------------------------------------------------------------------------------
(* The interrupt routine signals each port whose change bit is set, clears *)
(* the bit and wakes the enumeration thread.                               *)
MutIsrNoPut ==
  /\ armed /\ pending # {}
  /\ signal' = [s \in Slots |-> IF s \in pending THEN signal[s] + 1 ELSE signal[s]]
  /\ pending' = {}
  /\ UNCHANGED <<mainVars, armed, tokens, enumVars, changed>>

Isr ==
  /\ armed /\ pending # {}
  /\ signal' = [s \in Slots |-> IF s \in pending THEN signal[s] + 1 ELSE signal[s]]
  /\ pending' = {}
  /\ Put
  /\ UNCHANGED <<mainVars, armed, enumVars, changed>>

(* A device is plugged in or pulled out.                                   *)
Plug(p) ==
  /\ signal[p] < MaxSignal
  /\ changed' = changed \cup {p}
  /\ pending' = pending \cup {p}
  /\ UNCHANGED <<mainVars, armed, signal, tokens, enumVars>>
-------------------------------------------------------------------------------
(* The enumeration thread takes a token and passes over the ports: where   *)
(* the signal is set it resets the signal first and scans the port then.   *)
EnumWakes ==
  /\ enum = "wait" /\ tokens > 0
  /\ tokens' = tokens - 1
  /\ enum' = "look" /\ at' = 1
  /\ UNCHANGED <<mainVars, armed, signal, changed, pending>>

Onward ==
  IF at < NPorts
  THEN enum' = "look" /\ at' = at + 1
  ELSE enum' = "wait" /\ at' = 1

EnumLooks ==
  /\ enum = "look"
  /\ IF armed /\ signal[at] # 0 THEN enum' = "reset" /\ UNCHANGED at ELSE Onward
  /\ UNCHANGED <<mainVars, armed, signal, tokens, changed, pending>>

EnumResets ==
  /\ enum = "reset"
  /\ signal' = [signal EXCEPT ![at] = 0]
  /\ enum' = "scan"
  /\ UNCHANGED <<mainVars, armed, tokens, at, changed, pending>>

EnumScans ==
  /\ enum = "scan"
  /\ changed' = changed \ {at}
  /\ Onward
  /\ UNCHANGED <<mainVars, armed, signal, tokens, pending>>

Main == Connect \/ Initialize \/ Register \/ RegisterFails \/ InjectRead \/ InjectWrite \/ PutEnum
Enum == EnumWakes \/ EnumLooks \/ EnumResets \/ EnumScans

Next == Main \/ Isr \/ Enum \/ \E p \in Ports : Plug(p)

Spec == Init /\ [][Next]_vars

(* The kernel runs ready threads and delivers interrupts.                  *)
FairSpec == Spec /\ WF_vars(Main) /\ WF_vars(Enum) /\ WF_vars(Isr)
-------------------------------------------------------------------------------
(* The type of each variable: the injection stays inside the array.        *)
TypeOK ==
  /\ main \in {"connect", "initialize", "register", "inject_read", "inject_write",
               "put", "sleep"}
  /\ slot \in Slots /\ copy \in Nat
  /\ armed \in BOOLEAN
  /\ signal \in [Slots -> Nat]
  /\ tokens \in 0 .. MaxCount
  /\ enum \in {"none", "wait", "look", "reset", "scan"} /\ at \in Ports
  /\ changed \subseteq Ports /\ pending \subseteq Ports

(* The enumeration thread will still look at port p in this pass.          *)
StillLooksAt(p) ==
  \/ enum = "look" /\ at <= p
  \/ enum \in {"reset", "scan"} /\ at < p

(***************************************************************************)
(* No wake-up is lost: a signal that is set is met by a pass that has yet  *)
(* to come to its port, by a token for another pass, or by main, which has *)
(* still to put one; also when main and the interrupt routine increment    *)
(* the same signal at once, and when the semaphore is full.                *)
(***************************************************************************)
SignalIsMet ==
  \A p \in Ports : signal[p] # 0 =>
    \/ tokens > 0
    \/ StillLooksAt(p)
    \/ enum = "reset" /\ at = p
    \/ main \in {"inject_read", "inject_write", "put"}

(***************************************************************************)
(* No change of a port is forgotten: it is in the port's signal, or in its *)
(* change bit, or in the injection that is still to come, or the port is   *)
(* about to be scanned.                                                    *)
(***************************************************************************)
NotYetInjected(p) ==
  \/ main \in {"connect", "initialize", "register"}
  \/ main \in {"inject_read", "inject_write"} /\ slot <= p

ChangeIsRemembered ==
  armed => \A p \in changed :
    \/ signal[p] # 0 \/ p \in pending
    \/ NotYetInjected(p)
    \/ enum = "scan" /\ at = p

(***************************************************************************)
(* Once the controller is registered, every port that changes is scanned,  *)
(* a device that was there at power on and raised no interrupt as well     *)
(* (the reason main gives for injecting the events).                       *)
(***************************************************************************)
EveryPortScanned ==
  \A p \in Ports : (armed /\ p \in changed) ~> (p \notin changed)
===============================================================================
