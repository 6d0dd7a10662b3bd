------------------------------ MODULE MCExtensions ------------------------------
EXTENDS Extensions
MCRunners == {"EventListener", "ServiceProvider"}
MCProviders == {"ServiceProvider"}
MCSenders == {"EventPublisher", "ServiceRequester"}
MCRequesters == {"ServiceRequester"}
=============================================================================
