--------------------------- MODULE MCRingRestore ---------------------------
(* Instances of RingRestore: two slots, two characters, a handful of       *)
(* backup files of every format.                                           *)
EXTENDS RingRestoreImplements

CONSTANTS s1, s2, c1, c2

MCSlots == {s1, s2}
OneSlot == {s1}
MCChars == {c1, c2}

Same(c) == [s \in Slots |-> c]
File(fmt, data, ro) == [fmt |-> fmt, data |-> data, ro |-> ro]

RawBackup       == File("raw", Same(c2), FALSE)
LockedBackup    == File("raw", Same(c2), TRUE)
ContainerBackup == File("container", Same(c1), FALSE)
CorruptBackup   == File("corrupt", Same(c1), FALSE)
SlotBackup      == File("slot", c2, FALSE)

AllBackups   == {RawBackup, LockedBackup, ContainerBackup, CorruptBackup, SlotBackup}
PlainBackups == {RawBackup, ContainerBackup, CorruptBackup, SlotBackup}
LockedOnly   == {LockedBackup}
SlotOnly     == {SlotBackup}
Times3 == 1 .. 3
Times5 == 1 .. 5
=============================================================================
