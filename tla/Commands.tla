------------------------------ MODULE Commands ------------------------------
(***************************************************************************)
(* The EtherCAT commands: how they are made, their code and the four bytes *)
(* of addresses in the header of a PDU.  Numbers are sets of bits.         *)
(***************************************************************************)
EXTENDS Wire

\* The variants of Reads and Writes that name a register of a SubDevice, and
\* those that name a logical address.
Physical == {"Aprd", "Fprd", "Brd", "Frmw", "Apwr", "Fpwr", "Bwr"}
Logical  == {"Lrd", "Lwr", "Lrw"}

Command(name, address, register) == [name |-> name, address |-> address, register |-> register]

\* Auto increment addresses count up to zero, which the addressed one sees
WrappingNeg(n) == Bits((65536 - n) % 65536)

brd(register)           == Command("Brd", {}, Bits(register))
bwr(register)           == Command("Bwr", {}, Bits(register))
fprd(address, register) == Command("Fprd", Bits(address), Bits(register))
fpwr(address, register) == Command("Fpwr", Bits(address), Bits(register))
aprd(address, register) == Command("Aprd", WrappingNeg(address), Bits(register))
apwr(address, register) == Command("Apwr", WrappingNeg(address), Bits(register))
frmw(address, register) == Command("Frmw", Bits(address), Bits(register))
lrw(address)            == Command("Lrw", Bits(address), {})
lwr(address)            == Command("Lwr", Bits(address), {})

code(command) ==
  Bits([Nop |-> 0, Aprd |-> 1, Apwr |-> 2, Fprd |-> 4, Fpwr |-> 5, Brd |-> 7, Bwr |-> 8,
        Lrd |-> 10, Lwr |-> 11, Lrw |-> 12, Frmw |-> 14][command.name])

\* The command_raw of a PduHeader; the bytes are zero for a Nop
pack(command) ==
  CASE command.name \in Physical -> Shl(command.register, 16) \cup command.address
    [] command.name \in Logical -> command.address
    [] command.name = "Nop" -> {}
=============================================================================
