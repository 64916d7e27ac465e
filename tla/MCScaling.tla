------------------------------ MODULE MCScaling ------------------------------
EXTENDS Scaling

NoArgument == <<>>
ServerElsewhere == <<"10.0.1.5", "50051">>
=============================================================================
