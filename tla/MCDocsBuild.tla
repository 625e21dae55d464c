---------------------------- MODULE MCDocsBuild ----------------------------
(* Small instance of DocsBuild: a strict project, a Doxygen-only one, one   *)
(* without documentation and a relaxed one with committed pages.           *)
EXTENDS DocsBuild

MCOrder     == <<"llvm", "mlir", "lld", "bolt">>
MCStrict    == {"llvm"}
MCDoxygen   == {"mlir"}
MCHasDocs   == {"llvm", "mlir", "bolt"}
MCCommitted == {"bolt"}
=============================================================================
