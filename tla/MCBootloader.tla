---------------------------- MODULE MCBootloader ----------------------------
(* Bootloader with one block of boot code, one of metadata and one of code. *)
EXTENDS Bootloader, TLC

CONSTANTS a, z

Page(b) == IF b < 2 THEN b ELSE 2
First(b) == b \in {0, 1, 2}

Meta(magic, crc, size, hash) ==
    [magic |-> magic, crc_ok |-> crc, app_size |-> size, app_hash |-> hash]

\* The metadata of an image, and metadata that is damaged or has no size.
Metas == { Meta(TRUE, TRUE, 1, <<a>>), Meta(TRUE, FALSE, 1, <<a>>), Meta(TRUE, TRUE, 0, <<>>) }
Codes == {a, z}
Zeros == {z}
=============================================================================
