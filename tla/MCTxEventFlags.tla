---------------------------- MODULE MCTxEventFlags ----------------------------
(* Small instances of TxEventFlags: which calls the threads make.          *)
EXTENDS TxEventFlags

CONSTANTS f1, f2

Request(op, flags, option, wait) ==
  [op |-> op, flags |-> flags, option |-> option, wait |-> wait]

(* Two waiters that clear what they waited for, one of them for all of its *)
(* flags; a get that must not wait and clears; a finite wait that only     *)
(* observes; and sets that raise and lower flags.                          *)
MixedRequests ==
  { Request("get", {f1}, TX_OR_CLEAR, TX_WAIT_FOREVER),
    Request("get", {f1, f2}, TX_AND_CLEAR, TX_WAIT_FOREVER),
    Request("get", {f1, f2}, TX_OR_CLEAR, TX_NO_WAIT),
    Request("get", {f1, f2}, TX_OR, 1),
    Request("set", {f1, f2}, TX_OR, TX_NO_WAIT),
    Request("set", {f2}, TX_AND, TX_NO_WAIT) }
===============================================================================
