---------------------------- MODULE MCTargetMemory ----------------------------
(* A flash of two pages, an EEPROM of two smaller ones.                      *)
EXTENDS TargetMemory

Box(ice, proto, xmega) == [ice |-> ice, proto |-> proto, xmega |-> xmega]

MCBoxes == {Box("jtag2", "jtag", FALSE), Box("jtag3", "jtag", FALSE),
            Box("jtag2", "dw", FALSE), Box("jtag3", "dw", FALSE),
            Box("jtag2", "pdi", TRUE), Box("jtag3", "pdi", TRUE)}

MCDebugWire == {b \in MCBoxes : b.proto = "dw"}

MCPageSize == [flash |-> 4, eeprom |-> 2]
MCSize     == [flash |-> 8, eeprom |-> 4]
MCRanges   == [flash |-> {<<0, 4>>, <<0, 6>>, <<1, 2>>, <<3, 3>>, <<4, 4>>, <<6, 1>>},
               eeprom |-> {<<0, 2>>, <<1, 3>>}]
MCImage    == [flash |-> {1, 6}, eeprom |-> {3}]

=============================================================================
