----------------------------- MODULE IoRegisters -----------------------------
(***************************************************************************)
(* The tables of IO registers that AVaRICE keeps for GDB's "info           *)
(* io_registers" (src/src/ioreg.cc), one definition per table.             *)
(*                                                                         *)
(* An entry of the source is {name, reg_addr, flags}.  Of the names only   *)
(* what the properties tell apart is kept: whether the register is a half  *)
(* of the ADC's result.  A table is                                        *)
(*   addr  the register addresses in the order of the entries, written as  *)
(*         spans <<first, last>> of addresses that follow one another;     *)
(*   rse   the addresses whose entry carries IO_REG_RSE (ioreg.h:27);      *)
(*   adc   the addresses of the entries called ADCL... and ADCH...         *)
(* The NULL entry that ends a table in C is the end of the sequence.       *)
(***************************************************************************)
EXTENDS Integers, Sequences

LOCAL INSTANCE SequencesExt

\* The addresses of some spans, one after the other.
Addresses(spans) ==
    FlattenSeq([k \in DOMAIN spans |->
                  [i \in 1..(spans[k][2] - spans[k][1] + 1) |-> spans[k][1] + i - 1]])

Table(spans, rse, adc) == [addr |-> Addresses(spans), rse |-> rse, adc |-> adc]

atmega16_io_registers == Table(<<
    <<\h20, \h5F>> >>,
    {\h24, \h25, \h2C}, {\h24, \h25})

atmega162_io_registers == Table(<<
    <<\h20, \h5F>>, <<\h61, \h61>>, <<\h6B, \h6C>>, <<\h7C, \h7D>>, <<\h80, \h81>>,
    <<\h84, \h8B>> >>,
    {\h23, \h2C}, {})

atmega169_io_registers == Table(<<
    <<\h20, \h37>>, <<\h3C, \h44>>, <<\h46, \h47>>, <<\h4A, \h4E>>, <<\h50, \h51>>,
    <<\h53, \h55>>, <<\h57, \h57>>, <<\h5D, \h61>>, <<\h66, \h66>>, <<\h69, \h69>>,
    <<\h6B, \h6C>>, <<\h6E, \h70>>, <<\h78, \h7C>>, <<\h7E, \h82>>, <<\h84, \h8B>>,
    <<\hB0, \hB0>>, <<\hB2, \hB3>>, <<\hB6, \hB6>>, <<\hB8, \hBA>>, <<\hC0, \hC2>>,
    <<\hC4, \hC6>>, <<\hE4, \hE7>>, <<\hEC, \hEF>>, <<\hF1, \hF4>>, <<\hF6, \hF9>>,
    <<\hFB, \hFE>> >>,
    {\h78, \h79, \hC6}, {\h78, \h79})

atmega32_io_registers == Table(<<
    <<\h20, \h5F>> >>,
    {\h24, \h25, \h2C}, {\h24, \h25})

atmega128_io_registers == Table(<<
    <<\h20, \h5F>>, <<\h61, \h65>>, <<\h68, \h68>>, <<\h6A, \h6A>>, <<\h6C, \h6D>>,
    <<\h6F, \h74>>, <<\h78, \h7A>>, <<\h7C, \h7D>>, <<\h80, \h8C>>, <<\h90, \h90>>,
    <<\h95, \h95>>, <<\h98, \h9D>> >>,
    {\h24, \h25, \h2C, \h9C}, {\h24, \h25})

atmega323_io_registers == Table(<<
    <<\h20, \h5F>> >>,
    {\h24, \h25, \h2C}, {\h24, \h25})

atmega64_io_registers == Table(<<
    <<\h20, \h5A>>, <<\h5C, \h5F>>, <<\h61, \h65>>, <<\h68, \h68>>, <<\h6A, \h6A>>,
    <<\h6C, \h6D>>, <<\h6F, \h74>>, <<\h78, \h7A>>, <<\h7C, \h7D>>, <<\h80, \h8C>>,
    <<\h8E, \h8E>>, <<\h90, \h90>>, <<\h95, \h95>>, <<\h98, \h9D>> >>,
    {\h24, \h25, \h2C, \h9C}, {\h24, \h25})

at90can128_io_registers == Table(<<
    <<\h20, \h38>>, <<\h3C, \h44>>, <<\h46, \h47>>, <<\h4A, \h4E>>, <<\h50, \h51>>,
    <<\h53, \h55>>, <<\h57, \h57>>, <<\h5B, \h5B>>, <<\h5D, \h61>>, <<\h66, \h66>>,
    <<\h69, \h6A>>, <<\h6E, \h71>>, <<\h74, \h75>>, <<\h78, \h7C>>, <<\h7E, \h82>>,
    <<\h84, \h8D>>, <<\h90, \h92>>, <<\h94, \h9D>>, <<\hB0, \hB0>>, <<\hB2, \hB3>>,
    <<\hB6, \hB6>>, <<\hB8, \hBC>>, <<\hC0, \hC2>>, <<\hC4, \hC6>>, <<\hC8, \hCA>>,
    <<\hCC, \hCE>>, <<\hD8, \hFA>> >>,
    {\h78, \h79, \hC6, \hCE}, {\h78, \h79})

atmega164p_io_registers == Table(<<
    <<\h20, \h2B>>, <<\h35, \h37>>, <<\h3B, \h48>>, <<\h4A, \h4E>>, <<\h50, \h51>>,
    <<\h53, \h55>>, <<\h57, \h57>>, <<\h5D, \h61>>, <<\h64, \h64>>, <<\h66, \h66>>,
    <<\h68, \h69>>, <<\h6B, \h70>>, <<\h73, \h73>>, <<\h78, \h7C>>, <<\h7E, \h82>>,
    <<\h84, \h8B>>, <<\hB0, \hB4>>, <<\hB6, \hB6>>, <<\hB8, \hBD>>, <<\hC0, \hC2>>,
    <<\hC4, \hC6>>, <<\hC8, \hCA>>, <<\hCC, \hCE>> >>,
    {\h78, \h79, \hC6, \hCE}, {\h78, \h79})

atmega324p_io_registers == Table(<<
    <<\h20, \h2B>>, <<\h35, \h37>>, <<\h3B, \h48>>, <<\h4A, \h4E>>, <<\h50, \h51>>,
    <<\h53, \h55>>, <<\h57, \h57>>, <<\h5D, \h61>>, <<\h64, \h64>>, <<\h66, \h66>>,
    <<\h68, \h69>>, <<\h6B, \h70>>, <<\h73, \h73>>, <<\h78, \h7C>>, <<\h7E, \h82>>,
    <<\h84, \h8B>>, <<\hB0, \hB4>>, <<\hB6, \hB6>>, <<\hB8, \hBD>>, <<\hC0, \hC2>>,
    <<\hC4, \hC6>>, <<\hC8, \hCA>>, <<\hCC, \hCE>> >>,
    {\h78, \h79, \hC6, \hCE}, {\h78, \h79})

atmega644_io_registers == Table(<<
    <<\h20, \h2B>>, <<\h35, \h37>>, <<\h3B, \h48>>, <<\h4A, \h4E>>, <<\h50, \h51>>,
    <<\h53, \h55>>, <<\h57, \h57>>, <<\h5D, \h61>>, <<\h64, \h64>>, <<\h66, \h66>>,
    <<\h68, \h69>>, <<\h6B, \h70>>, <<\h73, \h73>>, <<\h78, \h7C>>, <<\h7E, \h82>>,
    <<\h84, \h8B>>, <<\hB0, \hB4>>, <<\hB6, \hB6>>, <<\hB8, \hBD>>, <<\hC0, \hC2>>,
    <<\hC4, \hC6>> >>,
    {\h78, \h79, \hC6}, {\h78, \h79})

atmega325_io_registers == Table(<<
    <<\h20, \h37>>, <<\h3C, \h44>>, <<\h46, \h47>>, <<\h4A, \h4E>>, <<\h50, \h51>>,
    <<\h53, \h55>>, <<\h57, \h57>>, <<\h5D, \h61>>, <<\h64, \h64>>, <<\h66, \h66>>,
    <<\h69, \h69>>, <<\h6B, \h6C>>, <<\h6E, \h70>>, <<\h78, \h7C>>, <<\h7E, \h82>>,
    <<\h84, \h8B>>, <<\hB0, \hB0>>, <<\hB2, \hB3>>, <<\hB6, \hB6>>, <<\hB8, \hBA>>,
    <<\hC0, \hC2>>, <<\hC4, \hC6>> >>,
    {\h78, \h79, \hC6}, {\h78, \h79})

atmega3250_io_registers == Table(<<
    <<\h20, \h37>>, <<\h3C, \h44>>, <<\h46, \h47>>, <<\h4A, \h4E>>, <<\h50, \h51>>,
    <<\h53, \h55>>, <<\h57, \h57>>, <<\h5D, \h61>>, <<\h64, \h64>>, <<\h66, \h66>>,
    <<\h69, \h69>>, <<\h6B, \h70>>, <<\h73, \h73>>, <<\h78, \h7C>>, <<\h7E, \h82>>,
    <<\h84, \h8B>>, <<\hB0, \hB0>>, <<\hB2, \hB3>>, <<\hB6, \hB6>>, <<\hB8, \hBA>>,
    <<\hC0, \hC2>>, <<\hC4, \hC6>>, <<\hD8, \hDD>> >>,
    {\h78, \h79, \hC6}, {\h78, \h79})

atmega645_io_registers == Table(<<
    <<\h20, \h37>>, <<\h3C, \h44>>, <<\h46, \h47>>, <<\h4A, \h4E>>, <<\h50, \h51>>,
    <<\h53, \h55>>, <<\h57, \h57>>, <<\h5D, \h61>>, <<\h64, \h64>>, <<\h66, \h66>>,
    <<\h69, \h69>>, <<\h6B, \h6C>>, <<\h6E, \h70>>, <<\h78, \h7C>>, <<\h7E, \h82>>,
    <<\h84, \h8B>>, <<\hB0, \hB0>>, <<\hB2, \hB3>>, <<\hB6, \hB6>>, <<\hB8, \hBA>>,
    <<\hC0, \hC2>>, <<\hC4, \hC6>> >>,
    {\h78, \h79, \hC6}, {\h78, \h79})

atmega6450_io_registers == Table(<<
    <<\h20, \h37>>, <<\h3C, \h44>>, <<\h46, \h47>>, <<\h4A, \h4E>>, <<\h50, \h51>>,
    <<\h53, \h55>>, <<\h57, \h57>>, <<\h5D, \h61>>, <<\h64, \h64>>, <<\h66, \h66>>,
    <<\h69, \h69>>, <<\h6B, \h70>>, <<\h73, \h73>>, <<\h78, \h7C>>, <<\h7E, \h82>>,
    <<\h84, \h8B>>, <<\hB0, \hB0>>, <<\hB2, \hB3>>, <<\hB6, \hB6>>, <<\hB8, \hBA>>,
    <<\hC0, \hC2>>, <<\hC4, \hC6>>, <<\hD8, \hDD>> >>,
    {\h78, \h79, \hC6}, {\h78, \h79})

atmega329_io_registers == Table(<<
    <<\h20, \h37>>, <<\h3C, \h44>>, <<\h46, \h47>>, <<\h4A, \h4E>>, <<\h50, \h51>>,
    <<\h53, \h55>>, <<\h57, \h57>>, <<\h5D, \h61>>, <<\h64, \h64>>, <<\h66, \h66>>,
    <<\h69, \h69>>, <<\h6B, \h6C>>, <<\h6E, \h70>>, <<\h78, \h7C>>, <<\h7E, \h82>>,
    <<\h84, \h8B>>, <<\hB0, \hB0>>, <<\hB2, \hB3>>, <<\hB6, \hB6>>, <<\hB8, \hBA>>,
    <<\hC0, \hC2>>, <<\hC4, \hC6>>, <<\hE4, \hE7>>, <<\hEC, \hEF>>, <<\hF1, \hF4>>,
    <<\hF6, \hF9>>, <<\hFB, \hFE>> >>,
    {\h78, \h79, \hC6}, {\h78, \h79})

atmega3290_io_registers == Table(<<
    <<\h20, \h37>>, <<\h3C, \h44>>, <<\h46, \h47>>, <<\h4A, \h4E>>, <<\h50, \h51>>,
    <<\h53, \h55>>, <<\h57, \h57>>, <<\h5D, \h61>>, <<\h64, \h64>>, <<\h66, \h66>>,
    <<\h69, \h69>>, <<\h6B, \h70>>, <<\h73, \h73>>, <<\h78, \h7C>>, <<\h7E, \h82>>,
    <<\h84, \h8B>>, <<\hB0, \hB0>>, <<\hB2, \hB3>>, <<\hB6, \hB6>>, <<\hB8, \hBA>>,
    <<\hC0, \hC2>>, <<\hC4, \hC6>>, <<\hD8, \hDD>>, <<\hE4, \hE7>>, <<\hEC, \hFF>> >>,
    {\h78, \h79, \hC6}, {\h78, \h79})

atmega649_io_registers == Table(<<
    <<\h20, \h37>>, <<\h3C, \h44>>, <<\h46, \h47>>, <<\h4A, \h4E>>, <<\h50, \h51>>,
    <<\h53, \h55>>, <<\h57, \h57>>, <<\h5D, \h61>>, <<\h64, \h64>>, <<\h66, \h66>>,
    <<\h69, \h69>>, <<\h6B, \h6C>>, <<\h6E, \h70>>, <<\h78, \h7C>>, <<\h7E, \h82>>,
    <<\h84, \h8B>>, <<\hB0, \hB0>>, <<\hB2, \hB3>>, <<\hB6, \hB6>>, <<\hB8, \hBA>>,
    <<\hC0, \hC2>>, <<\hC4, \hC6>>, <<\hE4, \hE7>>, <<\hEC, \hEF>>, <<\hF1, \hF4>>,
    <<\hF6, \hF9>>, <<\hFB, \hFE>> >>,
    {\h78, \h79, \hC6}, {\h78, \h79})

atmega6490_io_registers == Table(<<
    <<\h20, \h37>>, <<\h3C, \h44>>, <<\h46, \h47>>, <<\h4A, \h4E>>, <<\h50, \h51>>,
    <<\h53, \h55>>, <<\h57, \h57>>, <<\h5D, \h61>>, <<\h64, \h64>>, <<\h66, \h66>>,
    <<\h69, \h69>>, <<\h6B, \h70>>, <<\h73, \h73>>, <<\h78, \h7C>>, <<\h7E, \h82>>,
    <<\h84, \h8B>>, <<\hB0, \hB0>>, <<\hB2, \hB3>>, <<\hB6, \hB6>>, <<\hB8, \hBA>>,
    <<\hC0, \hC2>>, <<\hC4, \hC6>>, <<\hD8, \hDD>>, <<\hE4, \hE7>>, <<\hEC, \hFF>> >>,
    {\h78, \h79, \hC6}, {\h78, \h79})

atmega640_io_registers == Table(<<
    <<\h20, \h48>>, <<\h4A, \h4E>>, <<\h50, \h51>>, <<\h53, \h55>>, <<\h57, \h57>>,
    <<\h5B, \h61>>, <<\h64, \h66>>, <<\h68, \h75>>, <<\h78, \h82>>, <<\h84, \h8D>>,
    <<\h90, \h92>>, <<\h94, \h9D>>, <<\hA0, \hA2>>, <<\hA4, \hAD>>, <<\hB0, \hB4>>,
    <<\hB6, \hB6>>, <<\hB8, \hBD>>, <<\hC0, \hC2>>, <<\hC4, \hC6>>, <<\hC8, \hCA>>,
    <<\hCC, \hCE>>, <<\hD0, \hD2>>, <<\hD4, \hD6>>, <<\h100, \h10B>>, <<\h120, \h122>>,
    <<\h124, \h12D>>, <<\h130, \h132>>, <<\h134, \h136>> >>,
    {\h78, \h79, \hC6, \hCE, \hD6, \h136}, {\h78, \h79})

atmega1280_io_registers == Table(<<
    <<\h20, \h48>>, <<\h4A, \h4E>>, <<\h50, \h51>>, <<\h53, \h55>>, <<\h57, \h57>>,
    <<\h5B, \h61>>, <<\h64, \h66>>, <<\h68, \h75>>, <<\h78, \h82>>, <<\h84, \h8D>>,
    <<\h90, \h92>>, <<\h94, \h9D>>, <<\hA0, \hA2>>, <<\hA4, \hAD>>, <<\hB0, \hB4>>,
    <<\hB6, \hB6>>, <<\hB8, \hBD>>, <<\hC0, \hC2>>, <<\hC4, \hC6>>, <<\hC8, \hCA>>,
    <<\hCC, \hCE>>, <<\hD0, \hD2>>, <<\hD4, \hD6>>, <<\h100, \h10B>>, <<\h120, \h122>>,
    <<\h124, \h12D>>, <<\h130, \h132>>, <<\h134, \h136>> >>,
    {\h78, \h79, \hC6, \hCE, \hD6, \h136}, {\h78, \h79})

atmega1281_io_registers == Table(<<
    <<\h20, \h48>>, <<\h4A, \h4E>>, <<\h50, \h51>>, <<\h53, \h55>>, <<\h57, \h57>>,
    <<\h5B, \h61>>, <<\h64, \h66>>, <<\h68, \h6C>>, <<\h6E, \h75>>, <<\h78, \h82>>,
    <<\h84, \h8D>>, <<\h90, \h92>>, <<\h94, \h9D>>, <<\hA0, \hA2>>, <<\hA4, \hAD>>,
    <<\hB0, \hB4>>, <<\hB6, \hB6>>, <<\hB8, \hBD>>, <<\hC0, \hC2>>, <<\hC4, \hC6>>,
    <<\hC8, \hCA>>, <<\hCC, \hCE>>, <<\h120, \h122>>, <<\h124, \h12D>> >>,
    {\h78, \h79, \hC6, \hCE}, {\h78, \h79})

atmega2560_io_registers == Table(<<
    <<\h20, \h48>>, <<\h4A, \h4E>>, <<\h50, \h51>>, <<\h53, \h55>>, <<\h57, \h57>>,
    <<\h5B, \h61>>, <<\h64, \h66>>, <<\h68, \h75>>, <<\h78, \h82>>, <<\h84, \h8D>>,
    <<\h90, \h92>>, <<\h94, \h9D>>, <<\hA0, \hA2>>, <<\hA4, \hAD>>, <<\hB0, \hB4>>,
    <<\hB6, \hB6>>, <<\hB8, \hBD>>, <<\hC0, \hC2>>, <<\hC4, \hC6>>, <<\hC8, \hCA>>,
    <<\hCC, \hCE>>, <<\hD0, \hD2>>, <<\hD4, \hD6>>, <<\h100, \h10B>>, <<\h120, \h122>>,
    <<\h124, \h12D>>, <<\h130, \h132>>, <<\h134, \h136>> >>,
    {\h78, \h79, \hC6, \hCE, \hD6, \h136}, {\h78, \h79})

atmega2561_io_registers == Table(<<
    <<\h20, \h48>>, <<\h4A, \h4E>>, <<\h50, \h51>>, <<\h53, \h55>>, <<\h57, \h57>>,
    <<\h5B, \h61>>, <<\h64, \h66>>, <<\h68, \h6C>>, <<\h6E, \h75>>, <<\h78, \h82>>,
    <<\h84, \h8D>>, <<\h90, \h92>>, <<\h94, \h9D>>, <<\hA0, \hA2>>, <<\hA4, \hAD>>,
    <<\hB0, \hB4>>, <<\hB6, \hB6>>, <<\hB8, \hBD>>, <<\hC0, \hC2>>, <<\hC4, \hC6>>,
    <<\hC8, \hCA>>, <<\hCC, \hCE>>, <<\h120, \h122>>, <<\h124, \h12D>> >>,
    {\h78, \h79, \hC6, \hCE}, {\h78, \h79})

atmega48_io_registers == Table(<<
    <<\h23, \h2B>>, <<\h35, \h37>>, <<\h3B, \h48>>, <<\h4A, \h4E>>, <<\h50, \h51>>,
    <<\h53, \h55>>, <<\h57, \h57>>, <<\h5D, \h61>>, <<\h64, \h64>>, <<\h66, \h66>>,
    <<\h68, \h69>>, <<\h6B, \h70>>, <<\h78, \h7C>>, <<\h7E, \h82>>, <<\h84, \h8B>>,
    <<\hB0, \hB4>>, <<\hB6, \hB6>>, <<\hB8, \hBD>>, <<\hC0, \hC2>>, <<\hC4, \hC6>> >>,
    {\h78, \h79, \hC6}, {\h78, \h79})

atmega88_io_registers == Table(<<
    <<\h23, \h2B>>, <<\h35, \h37>>, <<\h3B, \h48>>, <<\h4A, \h4E>>, <<\h50, \h51>>,
    <<\h53, \h55>>, <<\h57, \h57>>, <<\h5D, \h61>>, <<\h64, \h64>>, <<\h66, \h66>>,
    <<\h68, \h69>>, <<\h6B, \h70>>, <<\h78, \h7C>>, <<\h7E, \h82>>, <<\h84, \h8B>>,
    <<\hB0, \hB4>>, <<\hB6, \hB6>>, <<\hB8, \hBD>>, <<\hC0, \hC2>>, <<\hC4, \hC6>> >>,
    {\h78, \h79, \hC6}, {\h78, \h79})

atmega168_io_registers == Table(<<
    <<\h23, \h2B>>, <<\h35, \h37>>, <<\h3B, \h48>>, <<\h4A, \h4E>>, <<\h50, \h51>>,
    <<\h53, \h55>>, <<\h57, \h57>>, <<\h5D, \h61>>, <<\h64, \h64>>, <<\h66, \h66>>,
    <<\h68, \h69>>, <<\h6B, \h70>>, <<\h78, \h7C>>, <<\h7E, \h82>>, <<\h84, \h8B>>,
    <<\hB0, \hB4>>, <<\hB6, \hB6>>, <<\hB8, \hBD>>, <<\hC0, \hC2>>, <<\hC4, \hC6>> >>,
    {\h78, \h79, \hC6}, {\h78, \h79})

attiny13_io_registers == Table(<<
    <<\h23, \h28>>, <<\h34, \h38>>, <<\h3C, \h3E>>, <<\h41, \h41>>, <<\h46, \h46>>,
    <<\h48, \h49>>, <<\h4E, \h4F>>, <<\h51, \h5B>>, <<\h5D, \h5D>>, <<\h5F, \h5F>> >>,
    {\h24, \h25}, {\h24, \h25})

attiny2313_io_registers == Table(<<
    <<\h21, \h23>>, <<\h28, \h3E>>, <<\h40, \h46>>, <<\h48, \h5D>>, <<\h5F, \h5F>> >>,
    {\h2C}, {})

at90pwm2_io_registers == Table(<<
    <<\h23, \h2E>>, <<\h35, \h36>>, <<\h39, \h49>>, <<\h4C, \h4E>>, <<\h50, \h55>>,
    <<\h57, \h57>>, <<\h5D, \h61>>, <<\h64, \h64>>, <<\h66, \h66>>, <<\h69, \h69>>,
    <<\h6E, \h6F>>, <<\h76, \h7C>>, <<\h7E, \h82>>, <<\h84, \h8B>>, <<\hA0, \hA5>>,
    <<\hAA, \hAF>>, <<\hC0, \hC2>>, <<\hC4, \hC6>>, <<\hC8, \hCA>>, <<\hCC, \hCE>>,
    <<\hD0, \hD0>>, <<\hD2, \hE0>>, <<\hE2, \hFF>> >>,
    {\h78, \h79, \hC6}, {\h78, \h79})

at90pwm3_io_registers == Table(<<
    <<\h23, \h2E>>, <<\h35, \h36>>, <<\h39, \h49>>, <<\h4C, \h4E>>, <<\h50, \h55>>,
    <<\h57, \h57>>, <<\h5D, \h61>>, <<\h64, \h64>>, <<\h66, \h66>>, <<\h69, \h69>>,
    <<\h6E, \h6F>>, <<\h76, \h7C>>, <<\h7E, \h82>>, <<\h84, \h8B>>, <<\hA0, \hA5>>,
    <<\hAA, \hAF>>, <<\hC0, \hC2>>, <<\hC4, \hC6>>, <<\hC8, \hCA>>, <<\hCC, \hCE>>,
    <<\hD0, \hD0>>, <<\hD2, \hE0>>, <<\hE2, \hFF>> >>,
    {\h78, \h79, \hC6}, {\h78, \h79})

at90pwm2b_io_registers == Table(<<
    <<\h23, \h2E>>, <<\h35, \h36>>, <<\h39, \h49>>, <<\h4C, \h4E>>, <<\h50, \h50>>,
    <<\h53, \h55>>, <<\h57, \h57>>, <<\h5D, \h61>>, <<\h64, \h64>>, <<\h66, \h66>>,
    <<\h69, \h69>>, <<\h6E, \h6F>>, <<\h76, \h7C>>, <<\h7E, \h82>>, <<\h84, \h8B>>,
    <<\hA0, \hA5>>, <<\hAA, \hAF>>, <<\hC0, \hC2>>, <<\hC4, \hC6>>, <<\hC8, \hCA>>,
    <<\hCC, \hCE>>, <<\hD0, \hD0>>, <<\hD2, \hE0>>, <<\hE2, \hFF>> >>,
    {\h78, \h79, \hC6}, {\h78, \h79})

at90pwm3b_io_registers == Table(<<
    <<\h23, \h2E>>, <<\h35, \h36>>, <<\h39, \h49>>, <<\h4C, \h4E>>, <<\h50, \h50>>,
    <<\h53, \h55>>, <<\h57, \h57>>, <<\h5D, \h61>>, <<\h64, \h64>>, <<\h66, \h66>>,
    <<\h69, \h69>>, <<\h6E, \h6F>>, <<\h76, \h7C>>, <<\h7E, \h82>>, <<\h84, \h8B>>,
    <<\hA0, \hA5>>, <<\hAA, \hAF>>, <<\hC0, \hC2>>, <<\hC4, \hC6>>, <<\hC8, \hCA>>,
    <<\hCC, \hCE>>, <<\hD0, \hD0>>, <<\hD2, \hE0>>, <<\hE2, \hFF>> >>,
    {\h78, \h79, \hC6}, {\h78, \h79})

attiny24_io_registers == Table(<<
    <<\h20, \h21>>, <<\h23, \h28>>, <<\h2B, \h30>>, <<\h32, \h5D>>, <<\h5F, \h5F>> >>,
    {\h24, \h25}, {\h24, \h25})

attiny44_io_registers == Table(<<
    <<\h20, \h21>>, <<\h23, \h28>>, <<\h2B, \h30>>, <<\h32, \h5F>> >>,
    {\h24, \h25}, {\h24, \h25})

attiny84_io_registers == Table(<<
    <<\h20, \h21>>, <<\h23, \h28>>, <<\h2B, \h30>>, <<\h32, \h5F>> >>,
    {\h24, \h25}, {\h24, \h25})

attiny25_io_registers == Table(<<
    <<\h23, \h28>>, <<\h2D, \h38>>, <<\h3C, \h55>>, <<\h57, \h5B>>, <<\h5D, \h5D>>,
    <<\h5F, \h5F>> >>,
    {\h24, \h25}, {\h24, \h25})

attiny45_io_registers == Table(<<
    <<\h23, \h28>>, <<\h2D, \h38>>, <<\h3C, \h55>>, <<\h57, \h5B>>, <<\h5D, \h5F>> >>,
    {\h24, \h25}, {\h24, \h25})

attiny85_io_registers == Table(<<
    <<\h23, \h28>>, <<\h2D, \h38>>, <<\h3C, \h55>>, <<\h57, \h5B>>, <<\h5D, \h5F>> >>,
    {\h24, \h25}, {\h24, \h25})

attiny261_io_registers == Table(<<
    <<\h20, \h5B>>, <<\h5D, \h5D>>, <<\h5F, \h5F>> >>,
    {\h24, \h25}, {\h24, \h25})

attiny461_io_registers == Table(<<
    <<\h20, \h5B>>, <<\h5D, \h5F>> >>,
    {\h24, \h25}, {\h24, \h25})

attiny861_io_registers == Table(<<
    <<\h20, \h5B>>, <<\h5D, \h5F>> >>,
    {\h24, \h25}, {\h24, \h25})

atmega32c1_io_registers == Table(<<
    <<\h23, \h2E>>, <<\h35, \h36>>, <<\h39, \h49>>, <<\h4C, \h4E>>, <<\h50, \h51>>,
    <<\h53, \h55>>, <<\h57, \h57>>, <<\h5D, \h61>>, <<\h64, \h64>>, <<\h66, \h66>>,
    <<\h68, \h6F>>, <<\h75, \h7C>>, <<\h7E, \h82>>, <<\h84, \h8B>>, <<\h90, \h92>>,
    <<\h94, \h97>>, <<\hC8, \hD2>>, <<\hD8, \hFA>> >>,
    {\h78, \h79}, {\h78, \h79})

atmega32m1_io_registers == Table(<<
    <<\h23, \h2E>>, <<\h35, \h36>>, <<\h39, \h49>>, <<\h4C, \h4E>>, <<\h50, \h51>>,
    <<\h53, \h55>>, <<\h57, \h57>>, <<\h5D, \h61>>, <<\h64, \h64>>, <<\h66, \h66>>,
    <<\h68, \h6F>>, <<\h75, \h7C>>, <<\h7E, \h82>>, <<\h84, \h8B>>, <<\h90, \h92>>,
    <<\h94, \h97>>, <<\hA0, \hBC>>, <<\hC8, \hD2>>, <<\hD8, \hFA>> >>,
    {\h78, \h79}, {\h78, \h79})

at90can32_io_registers == Table(<<
    <<\h20, \h38>>, <<\h3C, \h44>>, <<\h46, \h47>>, <<\h4A, \h4E>>, <<\h50, \h51>>,
    <<\h53, \h55>>, <<\h57, \h57>>, <<\h5B, \h5B>>, <<\h5D, \h61>>, <<\h66, \h66>>,
    <<\h69, \h6A>>, <<\h6E, \h71>>, <<\h74, \h75>>, <<\h78, \h7C>>, <<\h7E, \h82>>,
    <<\h84, \h8D>>, <<\h90, \h92>>, <<\h94, \h9D>>, <<\hB0, \hB0>>, <<\hB2, \hB3>>,
    <<\hB6, \hB6>>, <<\hB8, \hBC>>, <<\hC0, \hC2>>, <<\hC4, \hC6>>, <<\hC8, \hCA>>,
    <<\hCC, \hCE>>, <<\hD8, \hFA>> >>,
    {\h78, \h79, \hC6, \hCE}, {\h78, \h79})

at90can64_io_registers == Table(<<
    <<\h20, \h38>>, <<\h3C, \h44>>, <<\h46, \h47>>, <<\h4A, \h4E>>, <<\h50, \h51>>,
    <<\h53, \h55>>, <<\h57, \h57>>, <<\h5B, \h5B>>, <<\h5D, \h61>>, <<\h66, \h66>>,
    <<\h69, \h6A>>, <<\h6E, \h71>>, <<\h74, \h75>>, <<\h78, \h7C>>, <<\h7E, \h82>>,
    <<\h84, \h8D>>, <<\h90, \h92>>, <<\h94, \h9D>>, <<\hB0, \hB0>>, <<\hB2, \hB3>>,
    <<\hB6, \hB6>>, <<\hB8, \hBC>>, <<\hC0, \hC2>>, <<\hC4, \hC6>>, <<\hC8, \hCA>>,
    <<\hCC, \hCE>>, <<\hD8, \hFA>> >>,
    {\h78, \h79, \hC6, \hCE}, {\h78, \h79})

at90pwm216_io_registers == Table(<<
    <<\h23, \h2E>>, <<\h35, \h36>>, <<\h39, \h49>>, <<\h4C, \h4E>>, <<\h50, \h50>>,
    <<\h53, \h55>>, <<\h57, \h57>>, <<\h5D, \h61>>, <<\h64, \h64>>, <<\h66, \h66>>,
    <<\h69, \h69>>, <<\h6E, \h6F>>, <<\h76, \h7C>>, <<\h7E, \h82>>, <<\h84, \h8B>>,
    <<\hA0, \hA5>>, <<\hAA, \hAF>>, <<\hC0, \hC2>>, <<\hC4, \hC6>>, <<\hC8, \hCA>>,
    <<\hCC, \hCE>>, <<\hD0, \hD0>>, <<\hD2, \hE0>>, <<\hE2, \hFF>> >>,
    {\h78, \h79, \hC6}, {\h78, \h79})

at90pwm316_io_registers == Table(<<
    <<\h23, \h2E>>, <<\h35, \h36>>, <<\h39, \h49>>, <<\h4C, \h4E>>, <<\h50, \h50>>,
    <<\h53, \h55>>, <<\h57, \h57>>, <<\h5D, \h61>>, <<\h64, \h64>>, <<\h66, \h66>>,
    <<\h69, \h69>>, <<\h6E, \h6F>>, <<\h76, \h7C>>, <<\h7E, \h82>>, <<\h84, \h8B>>,
    <<\hA0, \hA5>>, <<\hAA, \hAF>>, <<\hC0, \hC2>>, <<\hC4, \hC6>>, <<\hC8, \hCA>>,
    <<\hCC, \hCE>>, <<\hD0, \hD0>>, <<\hD2, \hE0>>, <<\hE2, \hFF>> >>,
    {\h78, \h79, \hC6}, {\h78, \h79})

at90usb1287_io_registers == Table(<<
    <<\h20, \h31>>, <<\h35, \h38>>, <<\h3B, \h4E>>, <<\h50, \h51>>, <<\h53, \h55>>,
    <<\h57, \h57>>, <<\h5B, \h5B>>, <<\h5D, \h61>>, <<\h64, \h66>>, <<\h68, \h6B>>,
    <<\h6E, \h71>>, <<\h74, \h75>>, <<\h78, \h7C>>, <<\h7E, \h82>>, <<\h84, \h8D>>,
    <<\h90, \h92>>, <<\h94, \hB4>>, <<\hB6, \hB6>>, <<\hB8, \hBD>>, <<\hC8, \hCA>>,
    <<\hCC, \hCE>>, <<\hD7, \hF9>> >>,
    {\h78, \h79, \hCE}, {\h78, \h79})

at90usb162_io_registers == Table(<<
    <<\h23, \h2B>>, <<\h35, \h36>>, <<\h3B, \h4E>>, <<\h50, \h51>>, <<\h53, \h55>>,
    <<\h57, \h57>>, <<\h5D, \h66>>, <<\h68, \h6C>>, <<\h6E, \h6F>>, <<\h80, \h82>>,
    <<\h84, \h8D>>, <<\hC8, \hCE>>, <<\hD0, \hD2>>, <<\hD8, \hD8>>, <<\hDB, \hDC>>,
    <<\hE0, \hE6>>, <<\hE8, \hF2>>, <<\hF4, \hF4>>, <<\hFA, \hFB>> >>,
    {\hCE}, {})

at90usb646_io_registers == Table(<<
    <<\h20, \h31>>, <<\h35, \h38>>, <<\h3B, \h4E>>, <<\h50, \h51>>, <<\h53, \h55>>,
    <<\h57, \h57>>, <<\h5D, \h61>>, <<\h64, \h66>>, <<\h68, \h6B>>, <<\h6E, \h71>>,
    <<\h74, \h75>>, <<\h78, \h7C>>, <<\h7E, \h82>>, <<\h84, \h8D>>, <<\h90, \h92>>,
    <<\h94, \h9D>>, <<\hB0, \hB4>>, <<\hB6, \hB6>>, <<\hB8, \hBD>>, <<\hC8, \hCA>>,
    <<\hCC, \hCE>>, <<\hD7, \hDC>>, <<\hE0, \hF4>> >>,
    {\h78, \h79, \hCE}, {\h78, \h79})

at90usb647_io_registers == Table(<<
    <<\h20, \h31>>, <<\h35, \h38>>, <<\h3B, \h4E>>, <<\h50, \h51>>, <<\h53, \h55>>,
    <<\h57, \h57>>, <<\h5D, \h61>>, <<\h64, \h66>>, <<\h68, \h6B>>, <<\h6E, \h71>>,
    <<\h74, \h75>>, <<\h78, \h7C>>, <<\h7E, \h82>>, <<\h84, \h8D>>, <<\h90, \h92>>,
    <<\h94, \hB4>>, <<\hB6, \hB6>>, <<\hB8, \hBD>>, <<\hC8, \hCA>>, <<\hCC, \hCE>>,
    <<\hD7, \hF9>> >>,
    {\h78, \h79, \hCE}, {\h78, \h79})

atmega1284p_io_registers == Table(<<
    <<\h20, \h2B>>, <<\h35, \h38>>, <<\h3B, \h48>>, <<\h4A, \h4E>>, <<\h50, \h51>>,
    <<\h53, \h55>>, <<\h57, \h57>>, <<\h5B, \h5B>>, <<\h5D, \h61>>, <<\h64, \h66>>,
    <<\h68, \h69>>, <<\h6B, \h71>>, <<\h73, \h73>>, <<\h78, \h7C>>, <<\h7E, \h82>>,
    <<\h84, \h8B>>, <<\h90, \h92>>, <<\h94, \h9B>>, <<\hB0, \hB4>>, <<\hB6, \hB6>>,
    <<\hB8, \hBD>>, <<\hC0, \hC2>>, <<\hC4, \hC6>>, <<\hC8, \hCA>>, <<\hCC, \hCE>> >>,
    {\h78, \h79, \hC6, \hCE}, {\h78, \h79})

atmega165_io_registers == Table(<<
    <<\h20, \h37>>, <<\h3C, \h44>>, <<\h46, \h47>>, <<\h4A, \h4E>>, <<\h50, \h51>>,
    <<\h53, \h55>>, <<\h57, \h57>>, <<\h5D, \h61>>, <<\h64, \h64>>, <<\h66, \h66>>,
    <<\h69, \h69>>, <<\h6B, \h6C>>, <<\h6E, \h70>>, <<\h78, \h7C>>, <<\h7E, \h82>>,
    <<\h84, \h8B>>, <<\hB0, \hB0>>, <<\hB2, \hB3>>, <<\hB6, \hB6>>, <<\hB8, \hBA>>,
    <<\hC0, \hC2>>, <<\hC4, \hC6>> >>,
    {\h78, \h79, \hC6}, {\h78, \h79})

atmega165p_io_registers == Table(<<
    <<\h20, \h37>>, <<\h3C, \h44>>, <<\h46, \h47>>, <<\h4A, \h4E>>, <<\h50, \h51>>,
    <<\h53, \h55>>, <<\h57, \h57>>, <<\h5D, \h61>>, <<\h64, \h64>>, <<\h66, \h66>>,
    <<\h69, \h69>>, <<\h6B, \h6C>>, <<\h6E, \h70>>, <<\h78, \h7C>>, <<\h7E, \h82>>,
    <<\h84, \h8B>>, <<\hB0, \hB0>>, <<\hB2, \hB3>>, <<\hB6, \hB6>>, <<\hB8, \hBA>>,
    <<\hC0, \hC2>>, <<\hC4, \hC6>> >>,
    {\h78, \h79, \hC6}, {\h78, \h79})

atmega168p_io_registers == Table(<<
    <<\h23, \h2B>>, <<\h35, \h37>>, <<\h3B, \h48>>, <<\h4A, \h4E>>, <<\h50, \h50>>,
    <<\h53, \h55>>, <<\h57, \h57>>, <<\h5D, \h61>>, <<\h64, \h64>>, <<\h66, \h66>>,
    <<\h68, \h69>>, <<\h6B, \h70>>, <<\h78, \h7C>>, <<\h7E, \h82>>, <<\h84, \h8B>>,
    <<\hB0, \hB4>>, <<\hB6, \hB6>>, <<\hB8, \hBD>>, <<\hC0, \hC2>>, <<\hC4, \hC6>> >>,
    {\h78, \h79, \hC6}, {\h78, \h79})

atmega16hva_io_registers == Table(<<
    <<\h20, \h26>>, <<\h28, \h28>>, <<\h35, \h37>>, <<\h3C, \h41>>, <<\h43, \h4E>>,
    <<\h51, \h51>>, <<\h53, \h55>>, <<\h57, \h57>>, <<\h5D, \h61>>, <<\h64, \h64>>,
    <<\h66, \h66>>, <<\h69, \h69>>, <<\h6E, \h6F>>, <<\h78, \h7A>>, <<\h7C, \h7C>>,
    <<\h7E, \h7E>>, <<\h80, \h81>>, <<\h84, \h85>>, <<\h88, \h89>>, <<\hC8, \hC8>>,
    <<\hD0, \hD1>>, <<\hE0, \hE6>>, <<\hE8, \hE9>>, <<\hF0, \hF0>>, <<\hF2, \hF3>>,
    <<\hF5, \hFE>> >>,
    {}, {})

atmega3250p_io_registers == Table(<<
    <<\h20, \h37>>, <<\h3C, \h44>>, <<\h46, \h47>>, <<\h4A, \h4E>>, <<\h50, \h51>>,
    <<\h53, \h55>>, <<\h57, \h57>>, <<\h5D, \h61>>, <<\h64, \h64>>, <<\h66, \h66>>,
    <<\h69, \h69>>, <<\h6B, \h70>>, <<\h73, \h73>>, <<\h78, \h7C>>, <<\h7E, \h82>>,
    <<\h84, \h8B>>, <<\hB0, \hB0>>, <<\hB2, \hB3>>, <<\hB6, \hB6>>, <<\hB8, \hBA>>,
    <<\hC0, \hC2>>, <<\hC4, \hC6>>, <<\hD8, \hDD>> >>,
    {\h78, \h79, \hC6}, {\h78, \h79})

atmega325p_io_registers == Table(<<
    <<\h20, \h37>>, <<\h3C, \h44>>, <<\h46, \h47>>, <<\h4A, \h4E>>, <<\h50, \h51>>,
    <<\h53, \h55>>, <<\h57, \h57>>, <<\h5D, \h61>>, <<\h64, \h64>>, <<\h66, \h66>>,
    <<\h69, \h69>>, <<\h6B, \h6C>>, <<\h6E, \h70>>, <<\h78, \h7C>>, <<\h7E, \h82>>,
    <<\h84, \h8B>>, <<\hB0, \hB0>>, <<\hB2, \hB3>>, <<\hB6, \hB6>>, <<\hB8, \hBA>>,
    <<\hC0, \hC2>>, <<\hC4, \hC6>> >>,
    {\h78, \h79, \hC6}, {\h78, \h79})

atmega328p_io_registers == Table(<<
    <<\h23, \h2B>>, <<\h35, \h37>>, <<\h3B, \h48>>, <<\h4A, \h4E>>, <<\h50, \h50>>,
    <<\h53, \h55>>, <<\h57, \h57>>, <<\h5D, \h61>>, <<\h64, \h64>>, <<\h66, \h66>>,
    <<\h68, \h69>>, <<\h6B, \h70>>, <<\h78, \h7C>>, <<\h7E, \h82>>, <<\h84, \h8B>>,
    <<\hB0, \hB4>>, <<\hB6, \hB6>>, <<\hB8, \hBD>>, <<\hC0, \hC2>>, <<\hC4, \hC6>> >>,
    {\h78, \h79, \hC6}, {\h78, \h79})

atmega3290p_io_registers == Table(<<
    <<\h20, \h37>>, <<\h3C, \h44>>, <<\h46, \h47>>, <<\h4A, \h4E>>, <<\h50, \h51>>,
    <<\h53, \h55>>, <<\h57, \h57>>, <<\h5D, \h61>>, <<\h64, \h64>>, <<\h66, \h66>>,
    <<\h69, \h69>>, <<\h6B, \h70>>, <<\h73, \h73>>, <<\h78, \h7C>>, <<\h7E, \h82>>,
    <<\h84, \h8B>>, <<\hB0, \hB0>>, <<\hB2, \hB3>>, <<\hB6, \hB6>>, <<\hB8, \hBA>>,
    <<\hC0, \hC2>>, <<\hC4, \hC6>>, <<\hD8, \hDD>>, <<\hE4, \hE7>>, <<\hEC, \hFF>> >>,
    {\h78, \h79, \hC6}, {\h78, \h79})

atmega329p_io_registers == Table(<<
    <<\h20, \h37>>, <<\h3C, \h44>>, <<\h46, \h47>>, <<\h4A, \h4E>>, <<\h50, \h51>>,
    <<\h53, \h55>>, <<\h57, \h57>>, <<\h5D, \h61>>, <<\h64, \h64>>, <<\h66, \h66>>,
    <<\h69, \h69>>, <<\h6B, \h6C>>, <<\h6E, \h70>>, <<\h78, \h7C>>, <<\h7E, \h82>>,
    <<\h84, \h8B>>, <<\hB0, \hB0>>, <<\hB2, \hB3>>, <<\hB6, \hB6>>, <<\hB8, \hBA>>,
    <<\hC0, \hC2>>, <<\hC4, \hC6>>, <<\hE4, \hE7>>, <<\hEC, \hEF>>, <<\hF1, \hF4>>,
    <<\hF6, \hF9>>, <<\hFB, \hFE>> >>,
    {\h78, \h79, \hC6}, {\h78, \h79})

atmega32hvb_io_registers == Table(<<
    <<\h20, \h26>>, <<\h28, \h28>>, <<\h35, \h37>>, <<\h3B, \h4E>>, <<\h51, \h51>>,
    <<\h53, \h55>>, <<\h57, \h57>>, <<\h5D, \h61>>, <<\h64, \h64>>, <<\h66, \h66>>,
    <<\h68, \h69>>, <<\h6B, \h6C>>, <<\h6E, \h6F>>, <<\h78, \h7A>>, <<\h7C, \h7C>>,
    <<\h7E, \h7E>>, <<\h80, \h81>>, <<\h84, \h85>>, <<\h88, \h89>>, <<\hB8, \hBE>>,
    <<\hC8, \hC8>>, <<\hD0, \hD2>>, <<\hD4, \hD4>>, <<\hE0, \hEA>>, <<\hF0, \hF3>>,
    <<\hF5, \hFE>> >>,
    {}, {})

atmega32u4_io_registers == Table(<<
    <<\h23, \h31>>, <<\h35, \h4E>>, <<\h50, \h55>>, <<\h57, \h57>>, <<\h5B, \h61>>,
    <<\h64, \h73>>, <<\h78, \h82>>, <<\h84, \h8D>>, <<\h90, \h92>>, <<\h94, \hB4>>,
    <<\hB8, \hCA>>, <<\hCC, \hD2>>, <<\hD4, \hD4>>, <<\hD7, \hDA>>, <<\hDD, \hF9>> >>,
    {\h78, \h79, \hCE}, {\h78, \h79})

atmega406_io_registers == Table(<<
    <<\h20, \h25>>, <<\h28, \h2B>>, <<\h35, \h36>>, <<\h3B, \h48>>, <<\h4A, \h4B>>,
    <<\h51, \h51>>, <<\h53, \h55>>, <<\h57, \h57>>, <<\h5D, \h60>>, <<\h62, \h62>>,
    <<\h64, \h64>>, <<\h66, \h66>>, <<\h68, \h69>>, <<\h6B, \h6C>>, <<\h6E, \h6F>>,
    <<\h78, \h7A>>, <<\h7C, \h7C>>, <<\h7E, \h7E>>, <<\h81, \h81>>, <<\h84, \h85>>,
    <<\h88, \h89>>, <<\hB8, \hBE>>, <<\hC0, \hC0>>, <<\hD0, \hD1>>, <<\hE0, \hE9>>,
    <<\hF0, \hF8>> >>,
    {}, {})

atmega48p_io_registers == Table(<<
    <<\h23, \h2B>>, <<\h35, \h37>>, <<\h3B, \h41>>, <<\h43, \h48>>, <<\h4A, \h4E>>,
    <<\h50, \h50>>, <<\h53, \h55>>, <<\h57, \h57>>, <<\h5D, \h61>>, <<\h64, \h64>>,
    <<\h66, \h66>>, <<\h68, \h69>>, <<\h6B, \h70>>, <<\h78, \h7C>>, <<\h7E, \h82>>,
    <<\h84, \h8B>>, <<\hB0, \hB4>>, <<\hB6, \hB6>>, <<\hB8, \hBD>>, <<\hC0, \hC2>>,
    <<\hC4, \hC6>> >>,
    {\h78, \h79, \hC6}, {\h78, \h79})

atmega644p_io_registers == Table(<<
    <<\h20, \h2B>>, <<\h35, \h37>>, <<\h3B, \h48>>, <<\h4A, \h4E>>, <<\h50, \h51>>,
    <<\h53, \h55>>, <<\h57, \h57>>, <<\h5D, \h61>>, <<\h64, \h64>>, <<\h66, \h66>>,
    <<\h68, \h69>>, <<\h6B, \h70>>, <<\h73, \h73>>, <<\h78, \h7C>>, <<\h7E, \h82>>,
    <<\h84, \h8B>>, <<\hB0, \hB4>>, <<\hB6, \hB6>>, <<\hB8, \hBD>>, <<\hC0, \hC2>>,
    <<\hC4, \hC6>>, <<\hC8, \hCA>>, <<\hCC, \hCE>> >>,
    {\h78, \h79, \hC6, \hCE}, {\h78, \h79})

atmega88p_io_registers == Table(<<
    <<\h23, \h2B>>, <<\h35, \h37>>, <<\h3B, \h48>>, <<\h4A, \h4E>>, <<\h50, \h50>>,
    <<\h53, \h55>>, <<\h57, \h57>>, <<\h5D, \h61>>, <<\h64, \h64>>, <<\h66, \h66>>,
    <<\h68, \h69>>, <<\h6B, \h70>>, <<\h78, \h7C>>, <<\h7E, \h82>>, <<\h84, \h8B>>,
    <<\hB0, \hB4>>, <<\hB6, \hB6>>, <<\hB8, \hBD>>, <<\hC0, \hC2>>, <<\hC4, \hC6>> >>,
    {\h78, \h79, \hC6}, {\h78, \h79})

attiny167_io_registers == Table(<<
    <<\h20, \h25>>, <<\h32, \h32>>, <<\h35, \h36>>, <<\h3B, \h43>>, <<\h45, \h48>>,
    <<\h4A, \h4E>>, <<\h50, \h51>>, <<\h53, \h55>>, <<\h57, \h57>>, <<\h5D, \h64>>,
    <<\h66, \h66>>, <<\h68, \h69>>, <<\h6B, \h6C>>, <<\h6E, \h6F>>, <<\h77, \h7C>>,
    <<\h7E, \h8B>>, <<\hB6, \hB6>>, <<\hB8, \hBC>>, <<\hC8, \hD2>> >>,
    {\h78, \h79}, {\h78, \h79})

attiny43u_io_registers == Table(<<
    <<\h20, \h21>>, <<\h23, \h28>>, <<\h2B, \h30>>, <<\h32, \h3E>>, <<\h40, \h41>>,
    <<\h43, \h43>>, <<\h46, \h46>>, <<\h4B, \h5F>> >>,
    {\h24, \h25}, {\h24, \h25})

attiny48_io_registers == Table(<<
    <<\h23, \h2E>>, <<\h32, \h32>>, <<\h35, \h36>>, <<\h3B, \h41>>, <<\h43, \h43>>,
    <<\h45, \h48>>, <<\h4A, \h4E>>, <<\h50, \h50>>, <<\h53, \h55>>, <<\h57, \h57>>,
    <<\h5D, \h61>>, <<\h64, \h64>>, <<\h66, \h66>>, <<\h68, \h6F>>, <<\h78, \h7C>>,
    <<\h7E, \h82>>, <<\h84, \h8B>>, <<\hB8, \hBE>> >>,
    {\h78, \h79}, {\h78, \h79})

attiny88_io_registers == Table(<<
    <<\h23, \h2E>>, <<\h32, \h32>>, <<\h35, \h36>>, <<\h3B, \h41>>, <<\h43, \h43>>,
    <<\h45, \h48>>, <<\h4A, \h4E>>, <<\h50, \h50>>, <<\h53, \h55>>, <<\h57, \h57>>,
    <<\h5D, \h61>>, <<\h64, \h64>>, <<\h66, \h66>>, <<\h68, \h6F>>, <<\h78, \h7C>>,
    <<\h7E, \h82>>, <<\h84, \h8B>>, <<\hB8, \hBE>> >>,
    {\h78, \h79}, {\h78, \h79})

atmega128rfa1_io_registers == Table(<<
    <<\h20, \h48>>, <<\h4A, \h4E>>, <<\h50, \h51>>, <<\h53, \h55>>, <<\h57, \h57>>,
    <<\h5B, \h5B>>, <<\h5D, \h61>>, <<\h63, \h73>>, <<\h75, \h75>>, <<\h77, \h82>>,
    <<\h84, \h8D>>, <<\h90, \h92>>, <<\h94, \h9D>>, <<\hA0, \hA2>>, <<\hA4, \hAD>>,
    <<\hB0, \hB4>>, <<\hB6, \hB6>>, <<\hB8, \hBD>>, <<\hC0, \hC2>>, <<\hC4, \hC6>>,
    <<\hC8, \hCA>>, <<\hCC, \hCE>>, <<\hDC, \hF8>>, <<\h120, \h122>>, <<\h124, \h12D>>,
    <<\h12F, \h137>>, <<\h139, \h139>>, <<\h13C, \h13F>>, <<\h141, \h152>>, <<\h155, \h155>>,
    <<\h157, \h158>>, <<\h15A, \h16F>>, <<\h176, \h176>>, <<\h17B, \h17B>>, <<\h180, \h180>>,
    <<\h1FF, \h1FF>> >>,
    {\hC6, \hCE}, {\h78, \h79})

atmega256rfr2_io_registers == Table(<<
    <<\h20, \h48>>, <<\h4A, \h4E>>, <<\h50, \h51>>, <<\h53, \h55>>, <<\h57, \h57>>,
    <<\h5B, \h61>>, <<\h63, \h73>>, <<\h75, \h75>>, <<\h77, \h82>>, <<\h84, \h8D>>,
    <<\h90, \h92>>, <<\h94, \h9D>>, <<\hA0, \hA2>>, <<\hA4, \hAD>>, <<\hB0, \hB4>>,
    <<\hB6, \hB6>>, <<\hB8, \hC2>>, <<\hC4, \hC6>>, <<\hC8, \hCA>>, <<\hCC, \hCE>>,
    <<\hD7, \hFC>>, <<\h10C, \h11D>>, <<\h120, \h122>>, <<\h124, \h12D>>, <<\h12F, \h139>>,
    <<\h13C, \h13F>>, <<\h141, \h158>>, <<\h15A, \h16F>>, <<\h176, \h176>>, <<\h17B, \h17D>>,
    <<\h180, \h180>>, <<\h1FF, \h1FF>> >>,
    {\hC6, \hCE}, {\h78, \h79})

=============================================================================
