---------------------------- MODULE MCPhoneLink -----------------------------
\* Instances of PhoneLink for TLC; its constants are numbers and a model value
\* given in the configuration.
EXTENDS PhoneLink
=============================================================================
