---------------------------- MODULE EraseProtect ----------------------------
(***************************************************************************)
(* A firmware that protects its chip from being erased, and the scripts    *)
(* that undo and redo it (lowlevel/eraseprotect/src/main.c and scripts/).  *)
(*                                                                         *)
(* On each start the firmware leaves a key for the debugger. If the word   *)
(* UICR.ERASEPROTECT is not yet zero it writes it, in a flash that accepts *)
(* writes only while it is told to, and resets. The chip reads the word    *)
(* when it resets, and at no other time. A protected chip can be erased    *)
(* only if firmware and debugger have left the same key.                   *)
(*                                                                         *)
(* The chip is External. So is a reset that nobody asked for, which may    *)
(* come at any time and stop the writing of the word halfway.              *)
(***************************************************************************)
EXTENDS Integers

CONSTANT MaxResets      \* bound on the resets that nobody asked for

ASSUME ResetsAssumption == MaxResets \in Nat

VARIABLES
    uicr,       \* UICR.ERASEPROTECT: all ones, some, or zero
    protected,  \* External: what the chip read there
    nvmc,       \* NVMC.CONFIG: "Ren" or "Wen"
    fw_key,     \* CTRLAP.ERASEPROTECT.DISABLE has been written
    dbg_key,    \* the debugger's register of that name has been written
    pc,         \* where main() is
    firmware,   \* External: the firmware is in flash
    resets,     \* the number of resets that nobody asked for
    scripted,   \* history: the word was set by the script in this run
    set_empty   \* history: the script set the word with no firmware in flash

chip == <<uicr, protected, firmware, set_empty>>
count == <<resets, scripted>>
vars == <<chip, nvmc, fw_key, dbg_key, pc, count>>

\* One type invariant.
TypeOK ==
    /\ uicr \in {"ones", "some", "zero"}
    /\ protected \in BOOLEAN
    /\ nvmc \in {"Ren", "Wen"}
    /\ fw_key \in BOOLEAN /\ dbg_key \in BOOLEAN
    /\ pc \in {"disable", "test", "enable_write", "write", "disable_write",
               "reset", "forever"}
    /\ firmware \in BOOLEAN
    /\ resets \in 0 .. MaxResets
    /\ scripted \in BOOLEAN
    /\ set_empty \in BOOLEAN

\* A chip that was recovered and flashed.
Init ==
    /\ uicr = "ones"
    /\ protected = FALSE
    /\ firmware = TRUE
    /\ nvmc = "Ren"
    /\ fw_key = FALSE
    /\ dbg_key = FALSE
    /\ pc = "disable"
    /\ resets = 0
    /\ scripted = FALSE
    /\ set_empty = FALSE

-----------------------------------------------------------------------------
(* main().                                                                 *)

at(here) == firmware /\ pc = here

disable ==
    /\ at("disable")
    /\ fw_key' = TRUE
    /\ pc' = "test"
    /\ UNCHANGED <<chip, nvmc, dbg_key, count>>

\* The seeded error: the key is left only by the start that sets the word.
test_KeyInside ==
    /\ at("test")
    /\ pc' = IF uicr # "zero" THEN "enable_write" ELSE "forever"
    /\ fw_key' = (uicr # "zero")
    /\ UNCHANGED <<chip, nvmc, dbg_key, count>>
test ==
    /\ at("test")
    /\ pc' = IF uicr # "zero" THEN "enable_write" ELSE "forever"
    /\ UNCHANGED <<chip, nvmc, fw_key, dbg_key, count>>

\* config_nvmc waits for the flash before and after.
config_nvmc(val, next) ==
    /\ nvmc' = val
    /\ pc' = next
    /\ UNCHANGED <<chip, fw_key, dbg_key, count>>

\* The seeded error: enabled for erasing, not for writing.
enable_write_Een == at("enable_write") /\ config_nvmc("Een", "write")
enable_write == at("enable_write") /\ config_nvmc("Wen", "write")

write ==
    /\ at("write")
    /\ uicr' = IF nvmc = "Wen" THEN "zero" ELSE uicr
    /\ pc' = "disable_write"
    /\ UNCHANGED <<protected, firmware, set_empty, nvmc, fw_key, dbg_key, count>>

disable_write == at("disable_write") /\ config_nvmc("Ren", "reset")

\* External: what a reset leaves of the registers. The word in hand is now
\* obeyed; some bits may or may not be enough. The debugger's key may survive.
boots(word) ==
    /\ uicr' = word
    /\ protected' \in {p \in BOOLEAN : (word = "zero" => p) /\ (word = "ones" => ~p)}
    /\ nvmc' = "Ren"
    /\ fw_key' = FALSE
    /\ dbg_key' \in {dbg_key, FALSE}
    /\ pc' = "disable"
    /\ scripted' = FALSE
    /\ UNCHANGED set_empty

\* The seeded error: nothing makes the chip read the word.
NVIC_SystemReset_Not ==
    /\ at("reset")
    /\ pc' = "forever"
    /\ UNCHANGED <<chip, nvmc, fw_key, dbg_key, count>>
NVIC_SystemReset ==
    /\ at("reset")
    /\ boots(uicr)
    /\ UNCHANGED <<firmware, resets>>

main ==
    \/ disable \/ test \/ enable_write \/ write \/ disable_write
    \/ NVIC_SystemReset

-----------------------------------------------------------------------------
(* The debugger and the chip.                                              *)

\* External: pin, brown-out or power; a write under way is done, begun, or not.
other_reset ==
    /\ resets < MaxResets
    /\ resets' = resets + 1
    /\ \E word \in {uicr} \cup
                   (IF at("write") /\ nvmc = "Wen" THEN {"some", "zero"} ELSE {}) :
          boots(word)
    /\ UNCHANGED firmware

\* disable_eraseprotect.py.
disable_eraseprotect ==
    /\ ~dbg_key
    /\ dbg_key' = TRUE
    /\ UNCHANGED <<chip, nvmc, fw_key, pc, count>>

\* enable_eraseprotect.py, "alternatives" in the README. It does not look at
\* what is in flash.
enable_eraseprotect ==
    /\ uicr' = "zero"
    /\ scripted' = TRUE
    /\ set_empty' = ~firmware
    /\ UNCHANGED <<protected, firmware, nvmc, fw_key, dbg_key, pc, resets>>

\* External: both keys are there, and the chip erases itself.
eraseall ==
    /\ fw_key /\ dbg_key
    /\ uicr' = "ones"
    /\ protected' = FALSE
    /\ firmware' = FALSE
    /\ nvmc' = "Ren"
    /\ fw_key' = FALSE
    /\ dbg_key' = FALSE
    /\ pc' = "disable"
    /\ set_empty' = FALSE
    /\ UNCHANGED count

\* External: west flash, which needs a chip that can be erased, leaves the UICR
\* alone, and ends with a reset.
flash ==
    /\ ~firmware /\ ~protected
    /\ firmware' = TRUE
    /\ boots(uicr)
    /\ UNCHANGED resets

Next ==
    \/ main
    \/ other_reset
    \/ disable_eraseprotect \/ enable_eraseprotect
    \/ eraseall \/ flash

\* The firmware runs, and the chip erases itself when it is told to.
Spec == Init /\ [][Next]_vars /\ WF_vars(main) /\ WF_vars(eraseall)

-----------------------------------------------------------------------------
(* Properties.                                                             *)

\* A protected chip can be recovered by its key: the firmware is in it, and behind
\* its first instruction the key is set, also when the word was written halfway or
\* by the script, or the chip reset in between. The one exception is the case of
\* the README's disclaimer, protection "without setting the internal
\* ERASEPROTECT.DISABLE register in firmware": the script, which checks nothing,
\* was run on a chip without firmware, and the chip was then reset.
NeverBricked ==
    protected => \/ firmware /\ (pc = "disable" \/ fw_key)
                 \/ ~firmware /\ set_empty

\* The firmware comes to rest, protected: it does not reset itself for ever, and
\* does not rest before the chip has read the word, unless the script has set
\* the word behind its back, which the chip reads only at the next reset.
Rests == pc = "forever" /\ (protected \/ scripted)
SettlesProtected == firmware ~> (Rests \/ ~firmware)

\* The script to disable the protection works: once the debugger's key is in,
\* the chip is erased, unless a reset takes the key away.
ScriptErases == dbg_key ~> (~firmware \/ ~dbg_key)
=============================================================================
