------------------------------ MODULE BmAccounts ------------------------------
(***************************************************************************)
(* The Accounts table of the shop and the queries of db/bm_usr.c on it.    *)
(* The table is a sequence of rows in the order of UserID; UserName has no *)
(* unique index (User.sql).  Names and passwords are sequences of          *)
(* characters, because client_signup() copies them over each other.        *)
(*                                                                         *)
(* The queries are written for a text that ends where the statement quotes *)
(* it; what a quote or a backslash in the text makes of them is left to    *)
(* the module that uses them.                                              *)
(***************************************************************************)
EXTENDS Naturals, Sequences

(* What the collation of the column compares of a name: the default of     *)
(* User.sql does not tell capital letters from small ones.                 *)
CONSTANT Collate(_)

(* enum bm_acnt_states *)
UNLOGGED == 0
LOGGED_IN == 1
ACNT_STATE_REGISTERED == 2

(* ntohs() and htons() on the little-endian hosts the program is built for:  *)
(* the low 16 bits with their bytes exchanged.                               *)
ntohs(x) == (x % 256) * 256 + ((x \div 256) % 256)

(* strncpy(dst, src, strlen(src)): no terminator is copied, so the tail of a *)
(* longer old value stays.                                                   *)
Overlay(dst, src) == src \o SubSeq(dst, Len(src) + 1, Len(dst))

(* where UserName = '...' *)
RowsOf(table, name) == {i \in DOMAIN table : Collate(table[i].name) = Collate(name)}

(* A failing select counts as "not registered". *)
is_registered(table, acnt, failed) ==
  ~failed /\ RowsOf(table, acnt.name) # {}

(* usr_login() = 0: the password is compared by strncmp().  A name with    *)
(* two rows never logs in.                                                 *)
usr_login(table, acnt, failed) ==
  /\ ~failed
  /\ \E i \in DOMAIN table :
       RowsOf(table, acnt.name) = {i} /\ table[i].key = acnt.key

insert_usr(table, acnt) == Append(table, [name |-> acnt.name, key |-> acnt.key])
=============================================================================
