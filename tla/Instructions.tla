---------------------------- MODULE Instructions ----------------------------
(***************************************************************************)
(* The instructions the SDK builds for the life of a document and for the  *)
(* challenges against it: for each tag the accounts it names, in order,    *)
(* and which of them sign and may be written.  The runtime takes an        *)
(* instruction's word for both: a program can change no account that the   *)
(* instruction did not mark writable.                                      *)
(*                                                                         *)
(* An account is known by its role.  The arguments are what the caller     *)
(* chooses; what only the handlers of a landed position or of an output    *)
(* look at is left out of the data.                                        *)
(***************************************************************************)
EXTENDS Naturals, Sequences

meta(account, signer, writable) ==
  [account |-> account, signer |-> signer, writable |-> writable]
Reads(account)  == meta(account, FALSE, FALSE)
Writes(account) == meta(account, FALSE, TRUE)
Signs(account)  == meta(account, TRUE, FALSE)
Pays(account)   == meta(account, TRUE, TRUE)

instruction(tag, accounts, data) == [tag |-> tag, accounts |-> accounts, data |-> data]

AccountsOf(ix) == {ix.accounts[i].account : i \in DOMAIN ix.accounts}
SignersOf(ix) ==
  {ix.accounts[i].account : i \in {j \in DOMAIN ix.accounts : ix.accounts[j].signer}}
WritableOf(ix) ==
  {ix.accounts[i].account : i \in {j \in DOMAIN ix.accounts : ix.accounts[j].writable}}

Machine == <<Reads("pt2s"), Reads("routes"), Reads("geometry")>>

-----------------------------------------------------------------------------
(* The document and its result                                             *)

unifiedInit ==
  instruction(161,
    <<Pays("executor"), Writes("document"), Writes("positions"), Writes("familySlots"),
      Reads("system")>> \o Machine \o
    <<Reads("payloads"), Reads("registry"), Reads("admission"), Reads("templateSeal"),
      Writes("result")>>, <<>>)

landPositionRoots ==
  instruction(162, <<Signs("executor"), Writes("document"), Writes("positions")>>, <<>>)

finalizeDocument ==
  instruction(165, <<Signs("executor"), Writes("document"), Writes("result")>>, <<>>)

attestOutput(signer) ==
  instruction(177, <<Signs(signer), Reads("document"), Reads("positions"),
                     Writes("result")>> \o Machine, <<>>)

resolveResult == instruction(178, <<Reads("document"), Writes("result")>>, <<>>)

closeDocument(signer) ==
  instruction(172, <<Signs(signer), Writes("document"), Writes("positions"),
                     Writes("familySlots"), Writes("result"), Writes("executor")>>, <<>>)

\* Mutant: the executor, who is paid the rent, is only named.
closeResult_ExecutorRead(signer) ==
  instruction(185, <<Signs(signer), Writes("result"), Reads("executor")>>, <<>>)

closeResult(signer) ==
  instruction(185, <<Signs(signer), Writes("result"), Writes("executor")>>, <<>>)

-----------------------------------------------------------------------------
(* Challenges                                                              *)

challengeLeaf(position) ==
  instruction(166,
    <<Writes("record"), Pays("challenger"), Writes("document"), Reads("positions"),
      Reads("system")>> \o Machine \o <<Reads("registry"), Reads("pt1s")>>, <<position>>)

challengePosition(position) ==
  instruction(167,
    <<Writes("record"), Pays("challenger"), Writes("document"), Reads("positions"),
      Reads("system")>> \o Machine \o <<Reads("registry")>>, <<position>>)

revealPosition(first, roots) ==
  instruction(163, <<Writes("record"), Signs("executor"), Reads("document"),
                     Reads("positions")>> \o Machine, <<first, roots>>)

selectSegment(ordinal) ==
  instruction(164, <<Writes("record"), Signs("challenger"), Reads("document")>> \o Machine,
              <<ordinal>>)

\* The accounts a fix-point needs come after the usual three.
DescentAccounts(signer, documentWritable, fixpointAccounts) ==
  <<Writes("record"), Signs(signer), meta("document", FALSE, documentWritable)>>
    \o fixpointAccounts

revealDescent(descendants, documentWritable, fixpointAccounts) ==
  instruction(168, DescentAccounts("executor", documentWritable, fixpointAccounts),
              <<descendants>>)

descend(choice, documentWritable, fixpointAccounts) ==
  instruction(169, DescentAccounts("challenger", documentWritable, fixpointAccounts),
              <<choice>>)

revealFamilyTable(signer, first, count) ==
  instruction(173, <<Writes("record"), Signs(signer), Reads("document")>>, <<first, count>>)

challengeSummary(family) ==
  instruction(171, <<Writes("record"), Pays("challenger"), Writes("document"),
                     Reads("familySlots"), Reads("pt2s"), Reads("system")>>, <<family>>)

summaryReveal(descendants) ==
  instruction(179, <<Writes("record"), Signs("executor"), Reads("document")>>, <<descendants>>)

summarySelect(choice) ==
  instruction(180, <<Writes("record"), Signs("challenger"), Reads("document")>>, <<choice>>)

\* Mutant: the ruling it may end in is forgotten.
summaryAnswer_DocumentRead(signer, slot) ==
  instruction(181, <<Writes("record"), Signs(signer), Reads("document"), Reads("positions"),
                     Reads("familySlots")>> \o Machine, <<slot>>)

summaryAnswer(signer, slot) ==
  instruction(181, <<Writes("record"), Signs(signer), Writes("document"), Reads("positions"),
                     Reads("familySlots")>> \o Machine, <<slot>>)

timeout == instruction(132, <<Writes("record"), Writes("document")>>, <<>>)

\* With a settlement program the list is four accounts longer.
settle(winner, custom) ==
  instruction(131,
    <<Writes("record"), Writes("response"), Writes(winner), Writes("executor"),
      Writes("document"), Writes("incinerator"), Writes("challenger")>>
    \o (IF custom THEN <<Reads("settlementProgram"), Writes("escrow"), Reads("result"),
                         Reads("system")>> ELSE <<>>), <<>>)

closeResponse ==
  instruction(182, <<Reads("record"), Writes("response"), Writes("executor")>>, <<>>)
=============================================================================
