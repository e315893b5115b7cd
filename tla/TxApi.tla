-------------------------------- MODULE TxApi --------------------------------
(***************************************************************************)
(* The option, wait and status codes of the ThreadX API as the glue layer  *)
(* declares them, and the shape of a call on an event flags group.  A      *)
(* flag word (an unsigned 32-bit mask) is the set of the flags that are 1. *)
(***************************************************************************)
EXTENDS Naturals

CONSTANTS
  Flags,      (* the bits of a flag word that the callers use             *)
  ULONG_MAX   (* the greatest value of ULONG and DWORD, 0xFFFFFFFF in C   *)

ASSUME UlongAssumption == ULONG_MAX \in Nat \ {0}

(* get_option and set_option: bit 1 asks for all flags, bit 0 clears.      *)
TX_OR        == 0
TX_OR_CLEAR  == 1
TX_AND       == 2
TX_AND_CLEAR == 3
Options      == {TX_OR, TX_OR_CLEAR, TX_AND, TX_AND_CLEAR}

WantsAll(option) == option \in {TX_AND, TX_AND_CLEAR}
Clears(option)   == option \in {TX_OR_CLEAR, TX_AND_CLEAR}

TX_NO_WAIT      == 0
TX_WAIT_FOREVER == ULONG_MAX
INFINITE        == ULONG_MAX

TX_SUCCESS   == "TX_SUCCESS"
TX_NO_EVENTS == "TX_NO_EVENTS"

(***************************************************************************)
(* The part of the flag word that satisfies a request: the requested flags *)
(* that are set, or nothing when all are wanted and one is missing.        *)
(***************************************************************************)
Satisfying(word, flags, option) ==
  IF WantsAll(option) /\ word \cap flags # flags THEN {} ELSE word \cap flags

(* The flag word after _tx_event_flags_set; other options change nothing.  *)
Updated(word, flags, option) ==
  CASE option = TX_OR  -> word \cup flags
    [] option = TX_AND -> word \cap flags
    [] OTHER           -> word
=============================================================================
