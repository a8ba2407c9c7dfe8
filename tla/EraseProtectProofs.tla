------------------------ MODULE EraseProtectProofs ------------------------
(***************************************************************************)
(* The protected chip of EraseProtect can always be recovered, however     *)
(* often it resets, unless the script protected it while it was empty.     *)
(***************************************************************************)
EXTENDS EraseProtect, TLAPS

\* NeverBricked depends on the word, which the next reset obeys, and on the key,
\* which is set as long as main() is past its first instruction.
IInv ==
    /\ TypeOK
    /\ uicr # "ones" => firmware \/ set_empty
    /\ protected => firmware \/ set_empty
    /\ pc # "disable" => fw_key

LEMMA InitIInv == Init => IInv
<1>1. Init => resets \in 0 .. MaxResets
  BY ResetsAssumption DEF Init
<1>2. Init => pc = "disable" /\ uicr = "ones" /\ ~protected
  BY DEF Init
<1> QED BY <1>1, <1>2 DEF Init, IInv, TypeOK

\* A reset into any word that the firmware is there for.
LEMMA BootKeeps ==
  ASSUME IInv, NEW word \in {"ones", "some", "zero"},
         word # "ones" => firmware \/ set_empty, boots(word),
         firmware' \in BOOLEAN, firmware => firmware',
         resets' \in 0 .. MaxResets
  PROVE  IInv'
<1>1. protected' \in {p \in BOOLEAN : (word = "zero" => p) /\ (word = "ones" => ~p)}
  BY DEF boots
<1>2. protected' \in BOOLEAN /\ (protected' => firmware \/ set_empty)
  BY <1>1
<1>3. dbg_key' \in BOOLEAN
  BY DEF boots, IInv, TypeOK
<1> QED BY <1>2, <1>3 DEF boots, IInv, TypeOK

LEMMA MainKeeps == ASSUME IInv, main PROVE IInv'
<1> USE DEF IInv, TypeOK, at
<1>1. CASE disable
  BY <1>1 DEF disable, chip, count
<1>2. CASE test
  BY <1>2 DEF test, chip, count
<1>3. CASE enable_write \/ disable_write
  BY <1>3 DEF enable_write, disable_write, config_nvmc, chip, count
<1>4. CASE write
  BY <1>4 DEF write, count
<1>5. CASE NVIC_SystemReset
  BY <1>5, BootKeeps DEF NVIC_SystemReset
<1> QED BY <1>1, <1>2, <1>3, <1>4, <1>5 DEF main

LEMMA OtherResetKeeps == ASSUME IInv, other_reset PROVE IInv'
<1>1. PICK word \in {uicr} \cup
                    (IF at("write") /\ nvmc = "Wen" THEN {"some", "zero"} ELSE {}) :
         boots(word)
  BY DEF other_reset
<1>2. word \in {"ones", "some", "zero"} /\ (word # "ones" => firmware \/ set_empty)
  BY DEF IInv, TypeOK, at
<1>3. resets' \in 0 .. MaxResets
  BY ResetsAssumption DEF other_reset, IInv, TypeOK
<1>4. firmware' = firmware /\ firmware \in BOOLEAN
  BY DEF other_reset, IInv, TypeOK
<1> QED BY <1>1, <1>2, <1>3, <1>4, BootKeeps

LEMMA DebuggerKeeps ==
  ASSUME IInv, disable_eraseprotect \/ enable_eraseprotect \/ eraseall \/ flash
  PROVE  IInv'
<1> USE DEF IInv, TypeOK
<1>1. CASE disable_eraseprotect
  BY <1>1 DEF disable_eraseprotect, chip, count
<1>2. CASE enable_eraseprotect
  BY <1>2 DEF enable_eraseprotect
<1>3. CASE eraseall
  BY <1>3 DEF eraseall, count
<1>4. CASE flash
  BY <1>4, BootKeeps DEF flash
<1> QED BY <1>1, <1>2, <1>3, <1>4

LEMMA StepKeeps == IInv /\ [Next]_vars => IInv'
<1> SUFFICES ASSUME IInv, [Next]_vars PROVE IInv'
  OBVIOUS
<1>1. CASE UNCHANGED vars
  BY <1>1 DEF vars, chip, count, IInv, TypeOK
<1>2. CASE Next
  BY <1>2, MainKeeps, OtherResetKeeps, DebuggerKeeps DEF Next
<1> QED BY <1>1, <1>2

\* TypeOK of EraseProtect, for any number of resets.
THEOREM TypeCorrect == Spec => []TypeOK
<1>1. IInv => TypeOK
  BY DEF IInv
<1> QED BY <1>1, InitIInv, StepKeeps, PTL DEF Spec

\* NeverBricked, for any number of resets: a protected chip holds the firmware,
\* which has set its key or is about to, unless the script protected the chip
\* while it was empty.
THEOREM NeverBrickedAlways == Spec => []NeverBricked
<1>1. IInv => NeverBricked
  BY DEF IInv, NeverBricked
<1> QED BY <1>1, InitIInv, StepKeeps, PTL DEF Spec
=============================================================================
