---------------------------- MODULE UsbHost_proof ----------------------------
(***************************************************************************)
(* Proofs about the bring-up: for every number of ports, every maximum     *)
(* count and every interleaving of main, the interrupt routine and the     *)
(* enumeration thread, no wake-up and no change of a port is lost.         *)
(***************************************************************************)
EXTENDS UsbHost, TLAPS

(* The numbers that are in the types, from the assumption.                 *)
LEMMA Ranges ==
  /\ 1 \in Ports /\ 1 \in Slots
  /\ Ports \subseteq Slots
  /\ 0 \in 0 .. MaxCount
  /\ \A p \in Ports : p < NPorts => p + 1 \in Ports
  /\ \A s \in Slots : s < MaxPorts => s + 1 \in Slots
  BY UsbHostAssumption DEF UsbHostAssumption, Ports, Slots

LEMMA InitTyped == Init => TypeOK
<1> SUFFICES ASSUME Init PROVE TypeOK
  OBVIOUS
<1>1. tokens \in 0 .. MaxCount /\ slot \in Slots /\ at \in Ports
  BY Ranges DEF Init
<1>2. signal \in [Slots -> Nat] /\ copy \in Nat
  BY DEF Init
<1>3. changed \subseteq Ports /\ pending \subseteq Ports
  BY DEF Init
<1> QED
  BY <1>1, <1>2, <1>3 DEF Init, TypeOK

LEMMA PutTyped ==
  ASSUME tokens \in 0 .. MaxCount, Put
  PROVE  tokens' \in 0 .. MaxCount /\ tokens' > 0
  BY UsbHostAssumption DEF UsbHostAssumption, Put

LEMMA OnwardTyped ==
  ASSUME at \in Ports, Onward
  PROVE  enum' \in {"look", "wait"} /\ at' \in Ports
  BY Ranges DEF Onward

LEMMA NextPortTyped ==
  ASSUME slot \in Slots, NextPort
  PROVE  main' \in {"inject_read", "put"} /\ slot' \in Slots
  BY Ranges DEF NextPort

(* Every step keeps the types.                                             *)
LEMMA NextTyped == TypeOK /\ [Next]_vars => TypeOK'
<1> SUFFICES ASSUME TypeOK, [Next]_vars PROVE TypeOK'
  OBVIOUS
<1> USE DEF TypeOK, mainVars, enumVars
<1>1. CASE Connect \/ Initialize \/ Register \/ RegisterFails
  BY <1>1 DEF Connect, Initialize, Register, RegisterFails, MainGoes
<1>2. CASE InjectRead
  BY <1>2 DEF InjectRead, MainGoes
<1>3. CASE InjectWrite
  <2>1. signal' \in [Slots -> Nat]
    BY <1>3 DEF InjectWrite
  <2>2. main' \in {"inject_read", "put"} /\ slot' \in Slots
    BY <1>3, NextPortTyped DEF InjectWrite
  <2> QED
    BY <1>3, <2>1, <2>2 DEF InjectWrite
<1>4. CASE PutEnum
  BY <1>4, PutTyped DEF PutEnum, MainGoes
<1>5. CASE Isr
  <2>1. signal' \in [Slots -> Nat]
    BY <1>5 DEF Isr
  <2> QED
    BY <1>5, <2>1, PutTyped DEF Isr
<1>6. ASSUME NEW p \in Ports, Plug(p) PROVE TypeOK'
  <2>1. changed' \subseteq Ports /\ pending' \subseteq Ports
    BY <1>6 DEF Plug
  <2> QED
    BY <1>6, <2>1 DEF Plug
<1>7. CASE EnumWakes
  <2>1. tokens' \in 0 .. MaxCount
    BY <1>7, UsbHostAssumption DEF UsbHostAssumption, EnumWakes
  <2> QED
    BY <1>7, <2>1, Ranges DEF EnumWakes
<1>8. CASE EnumLooks
  BY <1>8, OnwardTyped DEF EnumLooks
<1>9. CASE EnumResets
  BY <1>9 DEF EnumResets
<1>10. CASE EnumScans
  BY <1>10, OnwardTyped DEF EnumScans
<1>11. CASE UNCHANGED vars
  BY <1>11 DEF vars
<1> QED
  BY <1>1, <1>2, <1>3, <1>4, <1>5, <1>6, <1>7, <1>8, <1>9, <1>10, <1>11
  DEF Next, Main, Enum

(* The type invariant of the bring-up: the injection of main (main.c, lines *)
(* 108-112) never leaves the array of signals.                             *)
THEOREM TypeTheorem == Spec => []TypeOK
  BY InitTyped, NextTyped, PTL DEF Spec
-------------------------------------------------------------------------------
(***************************************************************************)
(* Until the controller is registered no signal is set, and then main has  *)
(* not begun to inject: the enumeration thread, which passes over a        *)
(* controller that is not registered, misses nothing.                      *)
(***************************************************************************)
SilentUntilArmed ==
  /\ main \in {"connect", "initialize", "register"} => ~armed /\ slot = 1
  /\ main \in {"inject_read", "inject_write"} => armed
  /\ ~armed => \A s \in Slots : signal[s] = 0

LEMMA InitSilent == Init => SilentUntilArmed
  BY DEF Init, SilentUntilArmed

LEMMA NextSilent == TypeOK /\ SilentUntilArmed /\ [Next]_vars => SilentUntilArmed'
<1> SUFFICES ASSUME TypeOK, SilentUntilArmed, [Next]_vars PROVE SilentUntilArmed'
  OBVIOUS
<1> USE DEF SilentUntilArmed, mainVars, enumVars
<1>1. CASE Main
  BY <1>1, NextPortTyped
  DEF TypeOK, Main, Connect, Initialize, Register, RegisterFails, InjectRead, InjectWrite,
      PutEnum, MainGoes
<1>2. CASE Isr
  BY <1>2 DEF Isr
<1>3. CASE Enum
  <2>1. \A s \in Slots : signal[s] = 0 => signal'[s] = 0
    BY <1>3, Ranges DEF TypeOK, Enum, EnumWakes, EnumLooks, EnumResets, EnumScans
  <2> QED
    BY <1>3, <2>1 DEF Enum, EnumWakes, EnumLooks, EnumResets, EnumScans
<1>4. ASSUME NEW p \in Ports, Plug(p) PROVE SilentUntilArmed'
  BY <1>4 DEF Plug
<1>5. CASE UNCHANGED vars
  BY <1>5 DEF vars
<1> QED
  BY <1>1, <1>2, <1>3, <1>4, <1>5 DEF Next
-------------------------------------------------------------------------------
(* The wake-ups.  Met(p) is what SignalIsMet promises for port p.          *)
Met(p) ==
  \/ tokens > 0
  \/ StillLooksAt(p)
  \/ enum = "reset" /\ at = p
  \/ main \in {"inject_read", "inject_write", "put"}

(* After a port has been dealt with, the pass still comes to the ports     *)
(* behind it.                                                              *)
LEMMA OnwardLooks ==
  ASSUME TypeOK, Onward, NEW p \in Ports, at < p
  PROVE  StillLooksAt(p)'
  BY UsbHostAssumption DEF UsbHostAssumption, TypeOK, Onward, Ports, StillLooksAt

LEMMA InitMet == Init => SignalIsMet
  BY Ranges DEF Init, SignalIsMet

LEMMA NextMet ==
  TypeOK /\ SilentUntilArmed /\ SignalIsMet /\ [Next]_vars => SignalIsMet'
<1> SUFFICES ASSUME TypeOK, SilentUntilArmed, SignalIsMet, [Next]_vars,
                    NEW p \in Ports, signal'[p] # 0
             PROVE  Met(p)'
  BY DEF SignalIsMet, Met
<1>1. p \in Slots
  BY Ranges
<1>2. signal[p] # 0 => Met(p)
  BY DEF SignalIsMet, Met
<1>3. CASE Connect \/ Initialize \/ Register \/ RegisterFails
  BY <1>1, <1>3
  DEF SilentUntilArmed, Connect, Initialize, Register, RegisterFails, MainGoes, Met
<1>4. CASE InjectRead
  BY <1>4 DEF InjectRead, MainGoes, Met
<1>5. CASE InjectWrite
  BY <1>5, NextPortTyped DEF TypeOK, InjectWrite, Met
<1>6. CASE PutEnum
  BY <1>6, PutTyped DEF TypeOK, PutEnum, Met
<1>7. CASE Isr
  BY <1>7, PutTyped DEF TypeOK, Isr, Met
<1>8. CASE EnumWakes
  <2>1. enum' = "look" /\ at' = 1 /\ 1 <= p
    BY <1>8, UsbHostAssumption DEF UsbHostAssumption, EnumWakes, Ports
  <2> QED
    BY <2>1 DEF Met, StillLooksAt
<1>9. CASE EnumLooks
  <2>1. signal[p] # 0 /\ armed /\ tokens' = tokens /\ main' = main
    BY <1>1, <1>9 DEF EnumLooks, SilentUntilArmed, mainVars
  <2>2. enum = "look"
    BY <1>9 DEF EnumLooks
  <2>3. CASE at < p
    <3>1. CASE signal[at] # 0
      BY <1>9, <2>1, <2>3, <3>1 DEF EnumLooks, Met, StillLooksAt
    <3>2. CASE signal[at] = 0
      BY <1>9, <2>3, <3>2, OnwardLooks DEF EnumLooks, Met
    <3> QED
      BY <3>1, <3>2
  <2>4. CASE at = p
    BY <1>9, <2>1, <2>4 DEF EnumLooks, Met
  <2>5. CASE ~(at < p) /\ at # p
    BY <1>2, <2>1, <2>2, <2>5 DEF TypeOK, Ports, Met, StillLooksAt
  <2> QED
    BY <2>3, <2>4, <2>5
<1>10. CASE EnumResets
  BY <1>1, <1>2, <1>10 DEF TypeOK, EnumResets, mainVars, Met, StillLooksAt
<1>11. CASE EnumScans
  <2>1. signal[p] # 0 /\ tokens' = tokens /\ main' = main /\ enum = "scan"
    BY <1>11 DEF EnumScans, mainVars
  <2>2. CASE at < p
    BY <1>11, <2>2, OnwardLooks DEF EnumScans, Met
  <2>3. CASE ~(at < p)
    BY <1>2, <2>1, <2>3 DEF Met, StillLooksAt
  <2> QED
    BY <2>2, <2>3
<1>12. ASSUME NEW q \in Ports, Plug(q) PROVE Met(p)'
  BY <1>2, <1>12 DEF Plug, mainVars, enumVars, Met, StillLooksAt
<1>13. CASE UNCHANGED vars
  BY <1>2, <1>13 DEF vars, Met, StillLooksAt
<1> QED
  BY <1>3, <1>4, <1>5, <1>6, <1>7, <1>8, <1>9, <1>10, <1>11, <1>12, <1>13
  DEF Next, Main, Enum

(* No wake-up is lost: whoever sets the signal of a port, main or the      *)
(* interrupt routine, another pass over that port is still to come.        *)
THEOREM SignalTheorem == Spec => []SignalIsMet
<1> DEFINE Inv == TypeOK /\ SilentUntilArmed /\ SignalIsMet
<1>1. Init => Inv
  BY InitTyped, InitSilent, InitMet
<1>2. Inv /\ [Next]_vars => Inv'
  BY NextTyped, NextSilent, NextMet
<1> QED
  BY <1>1, <1>2, PTL DEF Spec
-------------------------------------------------------------------------------
(* The changes.  Remembered(p) is what ChangeIsRemembered promises.        *)
Remembered(p) ==
  \/ signal[p] # 0 \/ p \in pending
  \/ NotYetInjected(p)
  \/ enum = "scan" /\ at = p

LEMMA InitRemembered == Init => ChangeIsRemembered
  BY DEF Init, ChangeIsRemembered

(* The injection passes a slot only by setting its signal.                 *)
LEMMA InjectWriteRemembers ==
  ASSUME TypeOK, InjectWrite, NEW p \in Ports
  PROVE  NotYetInjected(p) => signal'[p] # 0 \/ NotYetInjected(p)'
<1>1. p \in Slots /\ slot \in Slots /\ Slots \subseteq Nat
  BY Ranges DEF TypeOK, Slots
<1>2. CASE slot = p
  BY <1>1, <1>2 DEF TypeOK, InjectWrite
<1>3. CASE slot < p
  <2>1. slot < MaxPorts
    BY <1>1, <1>3, UsbHostAssumption DEF UsbHostAssumption, Slots
  <2>2. main' = "inject_read" /\ slot' = slot + 1
    BY <2>1 DEF InjectWrite, NextPort
  <2> QED
    BY <1>1, <1>3, <2>2 DEF NotYetInjected
<1>4. CASE ~(slot <= p)
  BY <1>4 DEF InjectWrite, NotYetInjected
<1> QED
  BY <1>1, <1>2, <1>3, <1>4

LEMMA NextRemembered ==
  TypeOK /\ SilentUntilArmed /\ ChangeIsRemembered /\ [Next]_vars => ChangeIsRemembered'
<1> SUFFICES ASSUME TypeOK, SilentUntilArmed, ChangeIsRemembered, [Next]_vars
             PROVE  ChangeIsRemembered'
  OBVIOUS
<1>0. changed' \subseteq Ports
  BY NextTyped DEF TypeOK
<1> SUFFICES ASSUME armed', NEW p \in Ports, p \in changed'
             PROVE  Remembered(p)'
  BY <1>0 DEF ChangeIsRemembered, Remembered
<1>1. p \in Slots
  BY Ranges
<1>2. armed /\ p \in changed => Remembered(p)
  BY DEF ChangeIsRemembered, Remembered
<1>3. CASE Connect \/ Initialize \/ RegisterFails
  BY <1>3 DEF SilentUntilArmed, Connect, Initialize, RegisterFails, MainGoes
<1>4. CASE Register
  <2>1. slot' = 1 /\ main' = "inject_read" /\ 1 <= p
    BY <1>4, UsbHostAssumption
    DEF UsbHostAssumption, Register, MainGoes, SilentUntilArmed, Ports
  <2> QED
    BY <2>1 DEF Remembered, NotYetInjected
<1>5. CASE InjectRead
  BY <1>2, <1>5 DEF InjectRead, MainGoes, enumVars, Remembered, NotYetInjected
<1>6. CASE InjectWrite
  <2>1. armed /\ p \in changed /\ pending' = pending /\ enum' = enum /\ at' = at
    BY <1>6 DEF InjectWrite, enumVars
  <2>2. signal[p] # 0 => signal'[p] # 0
    BY <1>1, <1>6 DEF TypeOK, InjectWrite
  <2> QED
    BY <1>2, <1>6, <2>1, <2>2, InjectWriteRemembers DEF Remembered
<1>7. CASE PutEnum
  BY <1>2, <1>7 DEF PutEnum, MainGoes, enumVars, Remembered, NotYetInjected
<1>8. CASE Isr
  <2>1. signal[p] # 0 \/ p \in pending => signal'[p] # 0
    BY <1>1, <1>8 DEF TypeOK, Isr
  <2> QED
    BY <1>2, <1>8, <2>1 DEF Isr, mainVars, enumVars, Remembered, NotYetInjected
<1>9. CASE EnumWakes \/ EnumLooks
  BY <1>2, <1>9 DEF EnumWakes, EnumLooks, mainVars, Remembered, NotYetInjected
<1>10. CASE EnumResets
  BY <1>1, <1>2, <1>10 DEF TypeOK, EnumResets, mainVars, Remembered, NotYetInjected
<1>11. CASE EnumScans
  BY <1>2, <1>11 DEF EnumScans, mainVars, Remembered, NotYetInjected
<1>12. ASSUME NEW q \in Ports, Plug(q) PROVE Remembered(p)'
  BY <1>2, <1>12 DEF Plug, mainVars, enumVars, Remembered, NotYetInjected
<1>13. CASE UNCHANGED vars
  BY <1>2, <1>13 DEF vars, Remembered, NotYetInjected
<1> QED
  BY <1>3, <1>4, <1>5, <1>6, <1>7, <1>8, <1>9, <1>10, <1>11, <1>12, <1>13
  DEF Next, Main, Enum

(* No change of a port is forgotten while the controller is registered,    *)
(* although main injects with an unlocked increment (main.c, line 110).    *)
THEOREM ChangeTheorem == Spec => []ChangeIsRemembered
<1> DEFINE Inv == TypeOK /\ SilentUntilArmed /\ ChangeIsRemembered
<1>1. Init => Inv
  BY InitTyped, InitSilent, InitRemembered
<1>2. Inv /\ [Next]_vars => Inv'
  BY NextTyped, NextSilent, NextRemembered
<1> QED
  BY <1>1, <1>2, PTL DEF Spec
===============================================================================
