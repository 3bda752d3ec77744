-------------------------- MODULE MCRegistryLogin --------------------------
\* RegistryLogin for TLC: registries are interchangeable, and of the handshake the page never
\* sees what the engine section shows.
EXTENDS RegistryLogin, TLC

RegistrySymmetry == Permutations(Registries)

LoginView ==
    <<negotiated, handshake, engineBusy, steps, walletVars, cliVars, checkVars, accepted, forgotten>>
=============================================================================
