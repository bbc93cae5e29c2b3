--------------------------- MODULE DeviceDefinitions --------------------------
(***************************************************************************)
(* The devices AVaRICE knows (deviceDefinitions[] of src/src/devdescr.cc), *)
(* one definition per entry and the array itself, in its order.            *)
(*                                                                         *)
(* A device is its part number, the page size and page count of its flash  *)
(* and EEPROM, the end of its vectors, its flags, its IO table, whether it *)
(* is an Xmega part, its fuses, and the three descriptors that are sent to *)
(* the boxes.  Of a descriptor only the sizes of the memories are kept:    *)
(* the access bitmaps, register locations and instruction templates go to  *)
(* the box as they are and nothing in AVaRICE looks at them.               *)
(*   D1  flash_pg_sz, eeprom_pg_sz                    (mkI)                *)
(*   D2  uiFlashPageSize, ucEepromPageSize, ulFlashSize     (mkII)         *)
(*   D3  flash_page_size, eeprom_page_size, app_size, boot_size   (Xmega)  *)
(* A fuse mask is the set of its bits.                                     *)
(***************************************************************************)
EXTENDS IoRegisters

\* enum dev_flags.  DEVFL_* are bits; no device carries two of them.
DEVFL_NONE      == "none"
DEVFL_NO_SOFTBP == "no_softbp"
DEVFL_MKII_ONLY == "mkII_only"

NoTable == Table(<<>>, {}, {})          \* io_reg_defs == NULL
Empty   == [page |-> 0, eepage |-> 0, size |-> 0, boot |-> 0]   \* "{ 0 }"

D1(page, eepage)             == [Empty EXCEPT !.page = page, !.eepage = eepage]
D2(page, eepage, size)       == [Empty EXCEPT !.page = page, !.eepage = eepage, !.size = size]
D3(page, eepage, app, boot)  ==
    [page |-> page, eepage |-> eepage, size |-> app, boot |-> boot]

Device(id, flash, eeprom, vectors, flags, io, xmega, fusemap, ocden, d1, d2, d3) ==
    [device_id |-> id, flash |-> flash, eeprom |-> eeprom, vectors_end |-> vectors,
     device_flags |-> flags, io_reg_defs |-> io, is_xmega |-> xmega,
     fusemap |-> fusemap, ocden_fuse |-> ocden,
     dev_desc1 |-> d1, dev_desc2 |-> d2, dev_desc3 |-> d3]

atmega16 == Device(\h9403, <<128, 128>>, <<4, 128>>, 84, DEVFL_NONE,
    atmega16_io_registers, FALSE, {0, 1}, {15},
    D1(128, 0), D2(128, 4, 16384), Empty)

atmega162 == Device(\h9404, <<128, 128>>, <<4, 128>>, 112, DEVFL_NONE,
    atmega162_io_registers, FALSE, 0..2, {15},
    D1(128, 4), D2(128, 4, 16384), Empty)

atmega169 == Device(\h9405, <<128, 128>>, <<4, 128>>, 92, DEVFL_NONE,
    atmega169_io_registers, FALSE, 0..2, {15},
    D1(128, 4), D2(128, 4, 16384), Empty)

atmega323 == Device(\h9501, <<128, 256>>, <<4, 256>>, 80, DEVFL_NONE,
    atmega323_io_registers, FALSE, {0, 1}, {15},
    D1(128, 0), D2(128, 4, 32768), Empty)

atmega32 == Device(\h9502, <<128, 256>>, <<4, 256>>, 84, DEVFL_NONE,
    atmega32_io_registers, FALSE, {0, 1}, {15},
    D1(128, 4), D2(128, 4, 32768), Empty)

atmega64 == Device(\h9602, <<256, 256>>, <<8, 256>>, 140, DEVFL_NONE,
    atmega64_io_registers, FALSE, 0..2, {15},
    D1(256, 8), D2(256, 8, 65536), Empty)

atmega128 == Device(\h9702, <<256, 512>>, <<8, 512>>, 140, DEVFL_NO_SOFTBP,
    atmega128_io_registers, FALSE, 0..2, {15},
    D1(256, 8), D2(256, 8, 131072), Empty)

at90can128 == Device(\h9781, <<256, 512>>, <<8, 512>>, 148, DEVFL_NONE,
    at90can128_io_registers, FALSE, 0..2, {15},
    D1(256, 8), D2(256, 8, 131072), Empty)

atmega164p == Device(\h940A, <<128, 128>>, <<4, 128>>, 124, DEVFL_MKII_ONLY,
    atmega164p_io_registers, FALSE, 0..2, {15},
    Empty, D2(128, 4, 16384), Empty)

atmega324p == Device(\h9508, <<128, 256>>, <<4, 256>>, 124, DEVFL_MKII_ONLY,
    atmega324p_io_registers, FALSE, 0..2, {15},
    Empty, D2(128, 4, 32768), Empty)

atmega644 == Device(\h9609, <<256, 256>>, <<8, 256>>, 112, DEVFL_MKII_ONLY,
    atmega644_io_registers, FALSE, 0..2, {15},
    Empty, D2(256, 8, 65536), Empty)

atmega325 == Device(\h9505, <<128, 256>>, <<4, 256>>, 88, DEVFL_MKII_ONLY,
    atmega325_io_registers, FALSE, 0..2, {15},
    Empty, D2(128, 4, 32768), Empty)

atmega3250 == Device(\h9506, <<128, 256>>, <<4, 256>>, 100, DEVFL_MKII_ONLY,
    atmega3250_io_registers, FALSE, 0..2, {15},
    Empty, D2(128, 4, 32768), Empty)

atmega645 == Device(\h9605, <<256, 256>>, <<8, 256>>, 88, DEVFL_MKII_ONLY,
    atmega645_io_registers, FALSE, 0..2, {15},
    Empty, D2(256, 8, 65536), Empty)

atmega6450 == Device(\h9606, <<256, 256>>, <<8, 256>>, 100, DEVFL_MKII_ONLY,
    atmega6450_io_registers, FALSE, 0..2, {15},
    Empty, D2(256, 8, 65536), Empty)

atmega329 == Device(\h9503, <<128, 256>>, <<4, 256>>, 92, DEVFL_MKII_ONLY,
    atmega329_io_registers, FALSE, 0..2, {15},
    Empty, D2(128, 4, 32768), Empty)

atmega3290 == Device(\h9504, <<128, 256>>, <<4, 256>>, 100, DEVFL_MKII_ONLY,
    atmega3290_io_registers, FALSE, 0..2, {15},
    Empty, D2(128, 4, 32768), Empty)

atmega649 == Device(\h9603, <<256, 256>>, <<8, 256>>, 92, DEVFL_MKII_ONLY,
    atmega649_io_registers, FALSE, 0..2, {15},
    Empty, D2(256, 8, 65536), Empty)

atmega6490 == Device(\h9604, <<256, 256>>, <<8, 256>>, 100, DEVFL_MKII_ONLY,
    atmega6490_io_registers, FALSE, 0..2, {15},
    Empty, D2(256, 8, 65536), Empty)

atmega640 == Device(\h9608, <<256, 256>>, <<8, 512>>, 228, DEVFL_MKII_ONLY,
    atmega640_io_registers, FALSE, 0..2, {15},
    Empty, D2(256, 8, 131072), Empty)

atmega1280 == Device(\h9703, <<256, 512>>, <<8, 512>>, 228, DEVFL_MKII_ONLY,
    atmega1280_io_registers, FALSE, 0..2, {15},
    Empty, D2(256, 8, 131072), Empty)

atmega1281 == Device(\h9704, <<256, 512>>, <<8, 512>>, 228, DEVFL_MKII_ONLY,
    atmega1281_io_registers, FALSE, 0..2, {15},
    Empty, D2(256, 8, 131072), Empty)

atmega2560 == Device(\h9801, <<256, 1024>>, <<8, 512>>, 228, DEVFL_MKII_ONLY,
    atmega2560_io_registers, FALSE, 0..2, {15},
    Empty, D2(256, 8, 262144), Empty)

atmega2561 == Device(\h9802, <<256, 1024>>, <<8, 512>>, 228, DEVFL_MKII_ONLY,
    atmega2561_io_registers, FALSE, 0..2, {15},
    Empty, D2(256, 8, 262144), Empty)

atmega48 == Device(\h9205, <<64, 64>>, <<4, 64>>, 52, DEVFL_MKII_ONLY,
    atmega48_io_registers, FALSE, 0..2, {},
    Empty, D2(64, 4, 4096), Empty)

atmega88 == Device(\h930A, <<64, 128>>, <<4, 128>>, 52, DEVFL_MKII_ONLY,
    atmega88_io_registers, FALSE, 0..2, {},
    Empty, D2(64, 4, 8192), Empty)

atmega168 == Device(\h9406, <<128, 128>>, <<4, 128>>, 104, DEVFL_MKII_ONLY,
    atmega168_io_registers, FALSE, 0..2, {},
    Empty, D2(128, 4, 16384), Empty)

attiny13 == Device(\h9007, <<32, 32>>, <<1, 64>>, 20, DEVFL_MKII_ONLY,
    attiny13_io_registers, FALSE, {0, 1}, {},
    Empty, D2(32, 1, 1024), Empty)

attiny2313 == Device(\h910A, <<32, 64>>, <<4, 32>>, 38, DEVFL_MKII_ONLY,
    attiny2313_io_registers, FALSE, 0..2, {},
    Empty, D2(32, 4, 2048), Empty)

attiny4313 == Device(\h920D, <<64, 64>>, <<4, 64>>, 42, DEVFL_MKII_ONLY,
    NoTable, FALSE, 0..2, {},
    Empty, D2(64, 4, 4096), Empty)

at90pwm2 == Device(\h9381, <<64, 128>>, <<4, 128>>, 64, DEVFL_MKII_ONLY,
    at90pwm2_io_registers, FALSE, 0..2, {},
    Empty, D2(64, 4, 8192), Empty)

at90pwm3 == Device(\h9381, <<64, 128>>, <<4, 128>>, 64, DEVFL_MKII_ONLY,
    at90pwm3_io_registers, FALSE, 0..2, {},
    Empty, D2(64, 4, 8192), Empty)

at90pwm2b == Device(\h9383, <<64, 128>>, <<4, 128>>, 64, DEVFL_MKII_ONLY,
    at90pwm2b_io_registers, FALSE, 0..2, {},
    Empty, D2(64, 4, 8192), Empty)

at90pwm3b == Device(\h9383, <<64, 128>>, <<4, 128>>, 64, DEVFL_MKII_ONLY,
    at90pwm3b_io_registers, FALSE, 0..2, {},
    Empty, D2(64, 4, 8192), Empty)

atmega16m1 == Device(\h9484, <<128, 128>>, <<4, 128>>, 124, DEVFL_MKII_ONLY,
    NoTable, FALSE, {}, {},
    Empty, D2(128, 4, 16384), Empty)

atmega32m1 == Device(\h9584, <<128, 256>>, <<4, 256>>, 124, DEVFL_MKII_ONLY,
    atmega32m1_io_registers, FALSE, {}, {},
    Empty, D2(128, 4, 32768), Empty)

atmega64m1 == Device(\h9684, <<256, 256>>, <<8, 256>>, 124, DEVFL_MKII_ONLY,
    NoTable, FALSE, {}, {},
    Empty, D2(256, 8, 65536), Empty)

atmega32c1 == Device(\h9586, <<128, 256>>, <<4, 256>>, 124, DEVFL_MKII_ONLY,
    atmega32c1_io_registers, FALSE, {}, {},
    Empty, D2(128, 4, 32768), Empty)

atmega64c1 == Device(\h9686, <<256, 256>>, <<8, 256>>, 124, DEVFL_MKII_ONLY,
    NoTable, FALSE, {}, {},
    Empty, D2(256, 8, 65536), Empty)

attiny24 == Device(\h910B, <<32, 64>>, <<4, 32>>, 34, DEVFL_MKII_ONLY,
    attiny24_io_registers, FALSE, 0..2, {},
    Empty, D2(32, 4, 2048), Empty)

attiny44 == Device(\h9207, <<64, 64>>, <<4, 64>>, 34, DEVFL_MKII_ONLY,
    attiny44_io_registers, FALSE, 0..2, {},
    Empty, D2(64, 4, 4096), Empty)

attiny84 == Device(\h930C, <<64, 128>>, <<4, 128>>, 34, DEVFL_MKII_ONLY,
    attiny84_io_registers, FALSE, 0..2, {},
    Empty, D2(64, 4, 8192), Empty)

attiny25 == Device(\h9108, <<32, 64>>, <<4, 32>>, 30, DEVFL_MKII_ONLY,
    attiny25_io_registers, FALSE, 0..2, {},
    Empty, D2(32, 4, 2048), Empty)

attiny45 == Device(\h9206, <<64, 64>>, <<4, 64>>, 30, DEVFL_MKII_ONLY,
    attiny45_io_registers, FALSE, 0..2, {},
    Empty, D2(64, 4, 4096), Empty)

attiny85 == Device(\h930B, <<64, 128>>, <<4, 128>>, 30, DEVFL_MKII_ONLY,
    attiny85_io_registers, FALSE, 0..2, {},
    Empty, D2(64, 4, 8192), Empty)

attiny261 == Device(\h910C, <<32, 64>>, <<4, 32>>, 38, DEVFL_MKII_ONLY,
    attiny261_io_registers, FALSE, 0..2, {},
    Empty, D2(32, 4, 2048), Empty)

attiny461 == Device(\h9208, <<64, 64>>, <<4, 64>>, 38, DEVFL_MKII_ONLY,
    attiny461_io_registers, FALSE, 0..2, {},
    Empty, D2(64, 4, 4096), Empty)

attiny861 == Device(\h930D, <<64, 128>>, <<4, 128>>, 38, DEVFL_MKII_ONLY,
    attiny861_io_registers, FALSE, 0..2, {},
    Empty, D2(64, 4, 8192), Empty)

at90can32 == Device(\h9581, <<256, 128>>, <<8, 128>>, 148, DEVFL_MKII_ONLY,
    at90can32_io_registers, FALSE, 0..2, {15},
    Empty, D2(256, 8, 32768), Empty)

at90can64 == Device(\h9681, <<256, 256>>, <<8, 256>>, 148, DEVFL_MKII_ONLY,
    at90can64_io_registers, FALSE, 0..2, {15},
    Empty, D2(256, 8, 65536), Empty)

at90pwm216 == Device(\h9483, <<64, 256>>, <<4, 128>>, 128, DEVFL_MKII_ONLY,
    at90pwm216_io_registers, FALSE, 0..2, {},
    Empty, D2(64, 4, 16384), Empty)

at90pwm316 == Device(\h9483, <<64, 256>>, <<4, 128>>, 128, DEVFL_MKII_ONLY,
    at90pwm316_io_registers, FALSE, 0..2, {},
    Empty, D2(64, 4, 16384), Empty)

at90usb1287 == Device(\h9782, <<256, 512>>, <<8, 512>>, 152, DEVFL_MKII_ONLY,
    at90usb1287_io_registers, FALSE, 0..2, {15},
    Empty, D2(256, 8, 131072), Empty)

at90usb162 == Device(\h9482, <<128, 128>>, <<4, 128>>, 152, DEVFL_MKII_ONLY,
    at90usb162_io_registers, FALSE, 0..2, {},
    Empty, D2(128, 4, 16384), Empty)

at90usb646 == Device(\h9682, <<256, 256>>, <<8, 256>>, 152, DEVFL_MKII_ONLY,
    at90usb646_io_registers, FALSE, 0..2, {15},
    Empty, D2(256, 8, 65536), Empty)

at90usb647 == Device(\h9682, <<256, 256>>, <<8, 256>>, 152, DEVFL_MKII_ONLY,
    at90usb647_io_registers, FALSE, 0..2, {15},
    Empty, D2(256, 8, 65536), Empty)

atmega1284p == Device(\h9705, <<256, 512>>, <<8, 512>>, 140, DEVFL_MKII_ONLY,
    atmega1284p_io_registers, FALSE, 0..2, {15},
    Empty, D2(256, 8, 131072), Empty)

atmega165 == Device(\h9407, <<128, 128>>, <<4, 128>>, 88, DEVFL_MKII_ONLY,
    atmega165_io_registers, FALSE, 0..2, {15},
    Empty, D2(128, 4, 16384), Empty)

atmega165p == Device(\h9407, <<128, 128>>, <<4, 128>>, 88, DEVFL_MKII_ONLY,
    atmega165p_io_registers, FALSE, 0..2, {15},
    Empty, D2(128, 4, 16384), Empty)

atmega168p == Device(\h940B, <<128, 128>>, <<4, 128>>, 104, DEVFL_MKII_ONLY,
    atmega168p_io_registers, FALSE, 0..2, {},
    Empty, D2(128, 4, 16384), Empty)

atmega16hva == Device(\h940C, <<128, 128>>, <<4, 64>>, 84, DEVFL_MKII_ONLY,
    atmega16hva_io_registers, FALSE, 0..2, {},
    Empty, D2(128, 4, 16384), Empty)

atmega3250p == Device(\h950E, <<128, 256>>, <<4, 256>>, 100, DEVFL_MKII_ONLY,
    atmega3250p_io_registers, FALSE, 0..2, {15},
    Empty, D2(128, 4, 32768), Empty)

atmega325p == Device(\h950D, <<128, 256>>, <<4, 256>>, 88, DEVFL_MKII_ONLY,
    atmega325p_io_registers, FALSE, 0..2, {15},
    Empty, D2(128, 4, 32768), Empty)

atmega328p == Device(\h950F, <<128, 256>>, <<4, 256>>, 104, DEVFL_MKII_ONLY,
    atmega328p_io_registers, FALSE, 0..2, {},
    Empty, D2(128, 4, 32768), Empty)

atmega3290p == Device(\h950C, <<128, 256>>, <<4, 256>>, 100, DEVFL_MKII_ONLY,
    atmega3290p_io_registers, FALSE, 0..2, {15},
    Empty, D2(128, 4, 32768), Empty)

atmega329p == Device(\h9503, <<128, 256>>, <<4, 256>>, 92, DEVFL_MKII_ONLY,
    atmega329p_io_registers, FALSE, 0..2, {15},
    Empty, D2(128, 4, 32768), Empty)

atmega32hvb == Device(\h9510, <<128, 256>>, <<4, 256>>, 116, DEVFL_MKII_ONLY,
    atmega32hvb_io_registers, FALSE, 0..2, {},
    Empty, D2(128, 4, 32768), Empty)

atmega32u4 == Device(\h9587, <<128, 256>>, <<4, 256>>, 172, DEVFL_MKII_ONLY,
    atmega32u4_io_registers, FALSE, 0..2, {15},
    Empty, D2(128, 4, 32768), Empty)

atmega406 == Device(\h9507, <<128, 320>>, <<4, 128>>, 92, DEVFL_MKII_ONLY,
    atmega406_io_registers, FALSE, 0..2, {9},
    Empty, D2(128, 4, 40960), Empty)

atmega48p == Device(\h920A, <<64, 64>>, <<4, 64>>, 52, DEVFL_MKII_ONLY,
    atmega48p_io_registers, FALSE, 0..2, {},
    Empty, D2(64, 4, 4096), Empty)

atmega644p == Device(\h960A, <<256, 256>>, <<8, 256>>, 124, DEVFL_MKII_ONLY,
    atmega644p_io_registers, FALSE, 0..2, {15},
    Empty, D2(256, 8, 65536), Empty)

atmega88p == Device(\h930F, <<64, 128>>, <<4, 128>>, 52, DEVFL_MKII_ONLY,
    atmega88p_io_registers, FALSE, 0..2, {},
    Empty, D2(64, 4, 8192), Empty)

attiny167 == Device(\h9487, <<128, 128>>, <<4, 128>>, 80, DEVFL_MKII_ONLY,
    attiny167_io_registers, FALSE, 0..2, {},
    Empty, D2(128, 4, 16384), Empty)

attiny43u == Device(\h920C, <<64, 64>>, <<4, 16>>, 32, DEVFL_MKII_ONLY,
    attiny43u_io_registers, FALSE, 0..2, {},
    Empty, D2(64, 4, 4096), Empty)

attiny48 == Device(\h9209, <<64, 64>>, <<4, 16>>, 40, DEVFL_MKII_ONLY,
    attiny48_io_registers, FALSE, 0..2, {},
    Empty, D2(64, 4, 4096), Empty)

attiny88 == Device(\h9311, <<64, 128>>, <<4, 16>>, 40, DEVFL_MKII_ONLY,
    attiny88_io_registers, FALSE, 0..2, {},
    Empty, D2(64, 4, 8192), Empty)

atxmega128a1revd == Device(\h9741, <<512, 272>>, <<32, 64>>, 500, DEVFL_MKII_ONLY,
    NoTable, TRUE, {0, 1, 2, 4, 5}, {},
    Empty, D2(512, 32, 139264), D3(512, 32, 131072, 8192))

atxmega128a1 == Device(\h974C, <<512, 272>>, <<32, 64>>, 500, DEVFL_MKII_ONLY,
    NoTable, TRUE, {0, 1, 2, 4, 5}, {},
    Empty, D2(512, 32, 139264), D3(512, 32, 131072, 8192))

atxmega192a3 == Device(\h9744, <<512, 400>>, <<32, 128>>, 488, DEVFL_MKII_ONLY,
    NoTable, TRUE, {0, 1, 2, 4, 5}, {},
    Empty, D2(512, 32, 270336), D3(512, 32, 196608, 8192))

atxmega256a3 == Device(\h9842, <<512, 528>>, <<32, 128>>, 488, DEVFL_MKII_ONLY,
    NoTable, TRUE, {0, 1, 2, 4, 5}, {},
    Empty, D2(512, 32, 270336), D3(512, 32, 262144, 8192))

atxmega32a4 == Device(\h9541, <<256, 144>>, <<32, 32>>, 376, DEVFL_MKII_ONLY,
    NoTable, TRUE, {0, 1, 2, 4, 5}, {},
    Empty, D2(256, 32, 36864), D3(256, 32, 32768, 4096))

atxmega128a3 == Device(\h9742, <<512, 272>>, <<32, 64>>, 488, DEVFL_MKII_ONLY,
    NoTable, TRUE, {0, 1, 2, 4, 5}, {},
    Empty, D2(512, 32, 139264), D3(512, 32, 131072, 8192))

atxmega16d4 == Device(\h9442, <<256, 80>>, <<32, 32>>, 364, DEVFL_MKII_ONLY,
    NoTable, TRUE, {0, 1, 2, 4, 5}, {},
    Empty, D2(256, 32, 20480), D3(256, 32, 16384, 4096))

atmega128rfa1 == Device(\hA701, <<256, 512>>, <<8, 512>>, 288, DEVFL_MKII_ONLY,
    atmega128rfa1_io_registers, FALSE, 0..2, {15},
    Empty, D2(256, 8, 131072), Empty)

atmega64rfr2 == Device(\hA602, <<256, 256>>, <<8, 256>>, 308, DEVFL_MKII_ONLY,
    atmega256rfr2_io_registers, FALSE, 0..2, {15},
    Empty, D2(256, 8, 65536), Empty)

atmega644rfr2 == Device(\hA603, <<256, 256>>, <<8, 256>>, 308, DEVFL_MKII_ONLY,
    atmega256rfr2_io_registers, FALSE, 0..2, {15},
    Empty, D2(256, 8, 65536), Empty)

atmega128rfr2 == Device(\hA702, <<256, 512>>, <<8, 512>>, 308, DEVFL_MKII_ONLY,
    atmega256rfr2_io_registers, FALSE, 0..2, {15},
    Empty, D2(256, 8, 131072), Empty)

atmega1284rfr2 == Device(\hA703, <<256, 512>>, <<8, 512>>, 308, DEVFL_MKII_ONLY,
    atmega256rfr2_io_registers, FALSE, 0..2, {15},
    Empty, D2(256, 8, 131072), Empty)

atmega256rfr2 == Device(\hA802, <<256, 1024>>, <<8, 1024>>, 308, DEVFL_MKII_ONLY,
    atmega256rfr2_io_registers, FALSE, 0..2, {15},
    Empty, D2(256, 8, 262144), Empty)

atmega2564rfr2 == Device(\hA803, <<256, 1024>>, <<8, 1024>>, 308, DEVFL_MKII_ONLY,
    atmega256rfr2_io_registers, FALSE, 0..2, {15},
    Empty, D2(256, 8, 262144), Empty)

atxmega128b1 == Device(\h974D, <<256, 544>>, <<32, 64>>, 324, DEVFL_MKII_ONLY,
    NoTable, TRUE, {0, 1, 2, 4, 5}, {},
    Empty, D2(256, 32, 139264), D3(256, 32, 131072, 8192))

atxmega128b3 == Device(\h974B, <<256, 544>>, <<32, 64>>, 216, DEVFL_MKII_ONLY,
    NoTable, TRUE, {0, 1, 2, 4, 5}, {},
    Empty, D2(256, 32, 139264), D3(256, 32, 131072, 8192))

atxmega64b1 == Device(\h9652, <<256, 272>>, <<32, 64>>, 324, DEVFL_MKII_ONLY,
    NoTable, TRUE, {0, 1, 2, 4, 5}, {},
    Empty, D2(256, 32, 69632), D3(256, 32, 65536, 4096))

atxmega64b3 == Device(\h9651, <<256, 272>>, <<32, 64>>, 216, DEVFL_MKII_ONLY,
    NoTable, TRUE, {0, 1, 2, 4, 5}, {},
    Empty, D2(256, 32, 69632), D3(256, 32, 65536, 4096))

atxmega64a3 == Device(\h9642, <<256, 272>>, <<32, 64>>, 488, DEVFL_MKII_ONLY,
    NoTable, TRUE, {0, 1, 2, 4, 5}, {},
    Empty, D2(256, 32, 69632), D3(256, 32, 69632, 4096))

atxmega32e5 == Device(\h954C, <<128, 288>>, <<32, 32>>, 160, DEVFL_MKII_ONLY,
    NoTable, TRUE, {0, 1, 2, 4, 5}, {},
    Empty, D2(128, 32, 36864), D3(128, 32, 32768, 4096))

atxmega8e5 == Device(\h9341, <<128, 80>>, <<32, 16>>, 160, DEVFL_MKII_ONLY,
    NoTable, TRUE, {0, 1, 2, 4, 5}, {},
    Empty, D2(128, 32, 10240), D3(128, 32, 8192, 2048))

\* The array, without its termination record.
deviceDefinitions == <<
    atmega16, atmega162, atmega169, atmega323, atmega32, atmega64, atmega128, at90can128,
    atmega164p, atmega324p, atmega644, atmega325, atmega3250, atmega645, atmega6450, atmega329,
    atmega3290, atmega649, atmega6490, atmega640, atmega1280, atmega1281, atmega2560,
    atmega2561, atmega48, atmega88, atmega168, attiny13, attiny2313, attiny4313, at90pwm2,
    at90pwm3, at90pwm2b, at90pwm3b, atmega16m1, atmega32m1, atmega64m1, atmega32c1, atmega64c1,
    attiny24, attiny44, attiny84, attiny25, attiny45, attiny85, attiny261, attiny461, attiny861,
    at90can32, at90can64, at90pwm216, at90pwm316, at90usb1287, at90usb162, at90usb646,
    at90usb647, atmega1284p, atmega165, atmega165p, atmega168p, atmega16hva, atmega3250p,
    atmega325p, atmega328p, atmega3290p, atmega329p, atmega32hvb, atmega32u4, atmega406,
    atmega48p, atmega644p, atmega88p, attiny167, attiny43u, attiny48, attiny88,
    atxmega128a1revd, atxmega128a1, atxmega192a3, atxmega256a3, atxmega32a4, atxmega128a3,
    atxmega16d4, atmega128rfa1, atmega64rfr2, atmega644rfr2, atmega128rfr2, atmega1284rfr2,
    atmega256rfr2, atmega2564rfr2, atxmega128b1, atxmega128b3, atxmega64b1, atxmega64b3,
    atxmega64a3, atxmega32e5, atxmega8e5>>

=============================================================================
